--------------------------- MODULE PostgresAdapter ---------------------------
(***************************************************************************)
(* src/adapters/postgres.js, and PostgresSchemaAdapter.run() of            *)
(* src/core/schema.js: calls that share one pool of sessions.              *)
(*                                                                         *)
(* A pooled session outlives the call that borrowed it, so what a call     *)
(* leaves on it, the statement_timeout it set, other settings, an open     *)
(* transaction, would be inherited by the next one.  pg-pool and the       *)
(* server are modelled as execute(), run(), releaseClean(), abort() and    *)
(* close() use them.                                                       *)
(***************************************************************************)
EXTENDS Naturals, FiniteSets

CONSTANTS
    PgCalls,     \* the calls of execute(), and of describe()'s run(), on a pool
    Clients,     \* the sessions the pool may hold: as many as its bound
    NoClient     \* "no session", "no call"

ASSUME PgAssumption == NoClient \notin Clients /\ NoClient \notin PgCalls

VARIABLES
    pool,      \* "open", or "ended": this.pool is null and end() was called
    aborted,   \* this.aborted
    shared,    \* the adapter is cached: several calls may use it
    stage,     \* where each call is in execute()
    client,    \* the session it has borrowed
    kind,      \* what each call is
    idle,      \* sessions waiting in the pool
    out,       \* sessions the pool has lent
    limit,     \* whose statement_timeout is set on each session
    residue,   \* what else was left on it
    tracked,   \* this.inFlight
    asked,     \* statements the server was asked to cancel
    closing    \* the promise of close()

pgVars == <<pool, aborted, shared, stage, client, kind, idle, out, limit,
            residue, tracked, asked, closing>>

\* "setting", "rollback" and "reset" await the server's answer to
\* SET statement_timeout, ROLLBACK and RESET ALL.
Lent == {"setting", "running", "rollback", "reset"}

\* execute() of a statement, of one that may open a transaction (a CALL or a DO),
\* or a catalogue statement of describe().
Kinds == {"statement", "opener", "catalogue"}

PgTypeOK ==
    /\ pool \in {"open", "ended"}
    /\ aborted \in BOOLEAN
    /\ shared \in BOOLEAN
    /\ stage \in [PgCalls -> {"none", "waiting", "done"} \cup Lent]
    /\ client \in [PgCalls -> Clients \cup {NoClient}]
    /\ kind \in [PgCalls -> Kinds]
    /\ idle \subseteq Clients
    /\ out \subseteq Clients
    /\ limit \in [Clients -> PgCalls \cup {NoClient}]
    /\ residue \in [Clients -> SUBSET {"setting", "transaction"}]
    /\ tracked \subseteq PgCalls
    /\ asked \subseteq PgCalls
    /\ closing \in {"no", "waiting", "settled"}

-----------------------------------------------------------------------------
(* Helpers *)

Borrowers == {c \in PgCalls : stage[c] \in Lent}

\* release(): an open pool keeps the session, an ended one ends it.
GiveBack(s) ==
    /\ out' = out \ {s}
    /\ idle' = IF pool = "open" THEN idle \cup {s} ELSE idle

\* The server forgets the state of a session that has ended.
Forget(S) ==
    /\ limit' = [s \in Clients |-> IF s \in S THEN NoClient ELSE limit[s]]
    /\ residue' = [s \in Clients |-> IF s \in S THEN {} ELSE residue[s]]

\* The finally of execute() up to its first await.  An aborted adapter does not
\* spend a round trip on a session of a pool that is going away.
Cleanup(c, left) ==
    LET s == client[c] IN
    /\ tracked' = tracked \ {c}
    /\ residue' = [residue EXCEPT ![s] = @ \cup left]
    /\ IF aborted
       THEN /\ stage' = [stage EXCEPT ![c] = "done"]
            /\ GiveBack(s)
       ELSE /\ stage' = [stage EXCEPT ![c] = IF kind[c] = "opener"
                                              THEN "rollback" ELSE "reset"]
            /\ UNCHANGED <<idle, out>>
    /\ UNCHANGED <<pool, aborted, shared, client, kind, limit, asked,
                   closing>>

-----------------------------------------------------------------------------
(* execute(), and run() of describe() *)

\* The call asks the pool for a session, or is refused before: a statement that
\* would change the session is, and so is any on an adapter that has been closed.
Start(c, k) ==
    /\ stage[c] = "none"
    /\ kind' = [kind EXCEPT ![c] = k]
    /\ \E next \in {"waiting", "done"} :
        /\ next = "waiting" => pool = "open"
        /\ stage' = [stage EXCEPT ![c] = next]
    /\ UNCHANGED <<pool, aborted, shared, client, idle, out, limit, residue,
                   tracked, asked, closing>>

\* Only a cached adapter has more than one caller.
Execute(c) ==
    /\ shared \/ \A d \in PgCalls : stage[d] = "none"
    /\ \E k \in {"statement", "opener"} : Start(c, k)

\* One describe() runs several catalogue statements, some at the same time.
Describe(c) ==
    /\ shared \/ \A d \in PgCalls : stage[d] = "none" \/ kind[d] = "catalogue"
    /\ Start(c, "catalogue")

\* The pool lends a session, warm or new, and the SET is sent.  execute() tracks it.
Connected(c) ==
    /\ stage[c] = "waiting"
    /\ pool = "open"
    /\ \E s \in Clients \ out :
        /\ client' = [client EXCEPT ![c] = s]
        /\ out' = out \cup {s}
        /\ idle' = idle \ {s}
    /\ tracked' = IF kind[c] = "catalogue" THEN tracked ELSE tracked \cup {c}
    /\ stage' = [stage EXCEPT ![c] = "setting"]
    /\ UNCHANGED <<pool, aborted, shared, kind, limit, residue, asked,
                   closing>>

\* Mutant: the session is asked for inside the try, so that the finally releases
\* one that was never lent.
NotConnected_InTry(c) ==
    /\ stage[c] = "waiting"
    /\ stage' = [stage EXCEPT ![c] = "done"]
    /\ GiveBack(client[c])
    /\ UNCHANGED <<pool, aborted, shared, client, kind, limit, residue, tracked,
                   asked, closing>>

\* The server cannot be reached, or no session came free in time.
NotConnected(c) ==
    /\ stage[c] = "waiting"
    /\ stage' = [stage EXCEPT ![c] = "done"]
    /\ UNCHANGED <<pool, aborted, shared, client, kind, idle, out, limit,
                   residue, tracked, asked, closing>>

\* Mutant: the SET goes through the pool, to whichever session it picks.
SetDone_AnyClient(c) ==
    /\ stage[c] = "setting"
    /\ stage' = [stage EXCEPT ![c] = "running"]
    /\ \E s \in out : limit' = [limit EXCEPT ![s] = c]
    /\ UNCHANGED <<pool, aborted, shared, client, kind, idle, out, residue,
                   tracked, asked, closing>>

\* The SET is answered; the statement is built and sent.
SetDone(c) ==
    /\ stage[c] = "setting"
    /\ stage' = [stage EXCEPT ![c] = "running"]
    /\ limit' = [limit EXCEPT ![client[c]] = c]
    /\ UNCHANGED <<pool, aborted, shared, client, kind, idle, out, residue,
                   tracked, asked, closing>>

SetFails(c) ==
    /\ stage[c] = "setting"
    /\ kind[c] # "catalogue"
    /\ Cleanup(c, {})

\* The statement returns, fails, is cancelled or overruns its statement_timeout.
\* Any statement may leave a setting behind; a CALL or a DO a transaction too.
StatementEnds(c) ==
    /\ stage[c] = "running"
    /\ kind[c] # "catalogue"
    /\ \E left \in SUBSET (IF kind[c] = "opener" THEN {"setting", "transaction"}
                                                 ELSE {"setting"}) :
        Cleanup(c, left)

\* The finally of run(): the session goes back as it is.  A catalogue statement
\* leaves nothing on it, but the SET stays.
DescribeEnds(c) ==
    /\ stage[c] \in {"setting", "running"}
    /\ kind[c] = "catalogue"
    /\ stage' = [stage EXCEPT ![c] = "done"]
    /\ GiveBack(client[c])
    /\ UNCHANGED <<pool, aborted, shared, client, kind, limit, residue, tracked,
                   asked, closing>>

\* Mutant: the RESET follows only a statement that was not rolled back.
RolledBack_IsEnough(c) ==
    /\ stage[c] = "rollback"
    /\ residue' = [residue EXCEPT ![client[c]] = @ \ {"transaction"}]
    /\ stage' = [stage EXCEPT ![c] = "done"]
    /\ GiveBack(client[c])
    /\ UNCHANGED <<pool, aborted, shared, client, kind, limit, tracked, asked,
                   closing>>

\* releaseClean(): the ROLLBACK is answered, the RESET ALL is sent.
RolledBack(c) ==
    /\ stage[c] = "rollback"
    /\ residue' = [residue EXCEPT ![client[c]] = @ \ {"transaction"}]
    /\ stage' = [stage EXCEPT ![c] = "reset"]
    /\ UNCHANGED <<pool, aborted, shared, client, kind, idle, out, limit,
                   tracked, asked, closing>>

\* The RESET ALL is answered and the session goes back.
ResetDone(c) ==
    LET s == client[c] IN
    /\ stage[c] = "reset"
    /\ limit' = [limit EXCEPT ![s] = NoClient]
    /\ residue' = [residue EXCEPT ![s] = @ \ {"setting"}]
    /\ stage' = [stage EXCEPT ![c] = "done"]
    /\ GiveBack(s)
    /\ UNCHANGED <<pool, aborted, shared, client, kind, tracked, asked,
                   closing>>

\* Mutant: a session that cannot be reset is dropped and not released.
CleanFails_Leaks(c) ==
    /\ stage[c] \in {"rollback", "reset"}
    /\ stage' = [stage EXCEPT ![c] = "done"]
    /\ UNCHANGED <<pool, aborted, shared, client, kind, idle, out, limit,
                   residue, tracked, asked, closing>>

\* A session that cannot be reset is destroyed.
CleanFails(c) ==
    /\ stage[c] \in {"rollback", "reset"}
    /\ stage' = [stage EXCEPT ![c] = "done"]
    /\ out' = out \ {client[c]}
    /\ Forget({client[c]})
    /\ UNCHANGED <<pool, aborted, shared, client, kind, idle, tracked, asked,
                   closing>>

-----------------------------------------------------------------------------
(* abort() and close(), as their callers combine them *)

\* abort(): a cancel request for every statement that has been sent.
Abort ==
    /\ aborted' = TRUE
    /\ asked' = asked \cup {c \in tracked : stage[c] = "running"}

\* close() up to its await: the idle sessions end, the lent ones end when they
\* are released.
End ==
    /\ pool' = "ended"
    /\ idle' = {}
    /\ Forget(idle)
    /\ tracked' = {}

\* index.js abandon(): abort() and, in the same breath, evict() with its close().
\* A close() after an abort() does not wait for the pool.
Abandon ==
    /\ pool = "open"
    /\ ~aborted
    /\ Abort
    /\ End
    /\ closing' = "settled"
    /\ UNCHANGED <<shared, stage, client, kind, out>>

\* close() by itself: the sweep, the bound, a failed check, the limit of a call
\* (whose abort() follows), the release of an adapter that is not cached.
Close ==
    /\ pool = "open"
    /\ End
    /\ closing' = IF aborted \/ out = {} THEN "settled" ELSE "waiting"
    /\ UNCHANGED <<aborted, shared, stage, client, kind, out, asked>>

\* abort() by itself: on an adapter that has been closed, by the limit of a call,
\* or on one that is not cached.
AbortOnly ==
    /\ ~aborted
    /\ pool = "ended" \/ ~shared
    /\ Abort
    /\ tracked' = {}
    /\ UNCHANGED <<pool, shared, stage, client, kind, idle, out, limit,
                   residue, closing>>

\* pg-pool resolves end() once every session has been released.
PoolEnded ==
    /\ closing = "waiting"
    /\ out = {}
    /\ closing' = "settled"
    /\ UNCHANGED <<pool, aborted, shared, stage, client, kind, idle, out,
                   limit, residue, tracked, asked>>

-----------------------------------------------------------------------------
PgInit ==
    /\ pool = "open"
    /\ aborted = FALSE
    /\ shared \in BOOLEAN
    /\ stage = [c \in PgCalls |-> "none"]
    /\ client = [c \in PgCalls |-> NoClient]
    /\ kind = [c \in PgCalls |-> "statement"]
    /\ idle = {}
    /\ out = {}
    /\ limit = [s \in Clients |-> NoClient]
    /\ residue = [s \in Clients |-> {}]
    /\ tracked = {}
    /\ asked = {}
    /\ closing = "no"

PgCall(c) == \/ Execute(c) \/ Describe(c) \/ Connected(c) \/ NotConnected(c)
             \/ SetDone(c) \/ SetFails(c) \/ StatementEnds(c) \/ DescribeEnds(c)
             \/ RolledBack(c) \/ ResetDone(c) \/ CleanFails(c)

PgNext == \/ \E c \in PgCalls : PgCall(c)
          \/ Abandon \/ Close \/ AbortOnly \/ PoolEnded

PgSpec == PgInit /\ [][PgNext]_pgVars

\* The server answers SET, ROLLBACK and RESET ALL or the socket fails, a
\* statement ends because its statement_timeout is set, and the pool keeps its
\* promise.
PgAnswers ==
    /\ WF_pgVars(PoolEnded)
    /\ \A c \in PgCalls :
        WF_pgVars(\/ SetDone(c) \/ SetFails(c) \/ StatementEnds(c)
                  \/ DescribeEnds(c) \/ RolledBack(c) \/ ResetDone(c)
                  \/ CleanFails(c))

-----------------------------------------------------------------------------
(* Properties *)

\* A session a call has just borrowed carries nothing the statements before it left:
\* no setting, no open transaction, whatever failed, was aborted or could not be
\* reset meanwhile.
SessionsAreClean ==
    \A c \in PgCalls : stage[c] = "setting" => residue[client[c]] = {}

\* A statement runs under the statement_timeout of its own call.
TimeoutIsOwn ==
    \A c \in PgCalls : stage[c] = "running" => limit[client[c]] = c

\* The pool's loans are exactly the sessions of the calls in progress, one each:
\* none is lost on an error path, none is lent twice.
LoansAreExact ==
    /\ out = {client[c] : c \in Borrowers}
    /\ \A c, d \in Borrowers : client[c] = client[d] => c = d

\* close() settles.
CloseEnds == closing = "waiting" ~> closing = "settled"

-----------------------------------------------------------------------------
(* The inductive invariant behind the safety properties above *)

\* Whatever waits in an open pool, or has not been opened yet, is clean, unless the
\* one call of an adapter nobody shares returned it as it was after an abort.
RestingAreClean ==
    pool = "open" =>
        /\ aborted => ~shared
        /\ \A s \in Clients \ out :
              \/ residue[s] = {}
              \/ aborted /\ \E c \in PgCalls : stage[c] = "done"
                                              /\ kind[c] # "catalogue"

\* What a call may have left on its session when the reset begins.
ResidueIsKnown ==
    \A c \in PgCalls :
        /\ stage[c] = "running" => residue[client[c]] = {}
        /\ stage[c] = "reset" => "transaction" \notin residue[client[c]]

\* An execute() on an adapter that is not cached has no other call beside it.
AloneIsAlone ==
    ~shared => \A c, d \in PgCalls :
                  stage[c] # "none" /\ stage[d] # "none" /\ kind[c] # "catalogue"
                  => c = d

\* No session both waits in the pool and is lent.
IdleIsNotLent == idle \cap out = {}

PgInv ==
    /\ PgTypeOK
    /\ IdleIsNotLent
    /\ SessionsAreClean
    /\ TimeoutIsOwn
    /\ LoansAreExact
    /\ RestingAreClean
    /\ ResidueIsKnown
    /\ AloneIsAlone

-----------------------------------------------------------------------------
(* What the repository says and the code does not keep *)

\* "no caller can leave behind a `SET`, a `search_path`, a `role` or an open
\* transaction for the next borrower": describe() leaves its statement_timeout.
NoTimeoutInherited ==
    \A c \in PgCalls : stage[c] = "setting" => limit[client[c]] = NoClient

\* "Tracked before the statement is built, with no await in between, so no abort
\* can land in the window where the statement is about to run".
NothingStartsAborted ==
    [][\A c \in PgCalls :
          kind[c] # "catalogue" /\ stage[c] # "running" /\ stage'[c] = "running"
          => ~aborted]_pgVars
=============================================================================
