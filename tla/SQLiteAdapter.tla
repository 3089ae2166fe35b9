---------------------------- MODULE SQLiteAdapter ----------------------------
(***************************************************************************)
(* src/adapters/sqlite.js: one handle that several calls share, and a      *)
(* driver that answers through callbacks, late, or never.  Every promise   *)
(* the adapter makes (connect, a statement, close) is therefore bounded by *)
(* a timer of its own; what the driver does after the timer is not the     *)
(* promise's business any more, but it still happens to the handle.        *)
(***************************************************************************)
EXTENDS FiniteSets

CONSTANT LiteCalls    \* the statements run on the handle, health checks too

VARIABLES
    db,          \* this.db is set
    file,        \* the driver's handle
    connecting,  \* the promise of connect()
    openSettled, \* the promise of the open itself has its outcome
    openFailed,  \* this.openFailed
    faulted,     \* this.faulted
    interrupted, \* this.aborted
    promise,     \* the promise run() made for each statement
    driver,      \* the statement in the driver
    inFlight,    \* this.inFlight: one rejector per statement
    closePromise,\* the promise of close()
    fatal        \* history: the adapter was told that its handle is finished

openVars == <<connecting, openSettled, openFailed>>
callVars == <<promise, driver, inFlight>>
liteVars == <<db, file, openVars, faulted, interrupted, callVars, closePromise,
              fatal>>

LiteTypeOK ==
    /\ db \in BOOLEAN
    /\ file \in {"opening", "open", "failed", "closed"}
    /\ connecting \in {"waiting", "resolved", "rejected"}
    /\ openSettled \in BOOLEAN
    /\ openFailed \in BOOLEAN
    /\ faulted \in BOOLEAN
    /\ interrupted \in BOOLEAN
    /\ promise \in [LiteCalls -> {"none", "waiting", "settled"}]
    /\ driver \in [LiteCalls -> {"none", "running", "over"}]
    /\ inFlight \subseteq {c \in LiteCalls : driver[c] # "none"}
    /\ closePromise \in {"no", "waiting", "settled"}
    /\ fatal \in BOOLEAN

-----------------------------------------------------------------------------
(* Helpers *)

\* A promise keeps its first outcome.
Settle(p, outcome) == IF p = "waiting" THEN outcome ELSE p

\* Reject the statements in C, through their own rejectors.
Reject(C) == [c \in LiteCalls |-> IF c \in C THEN "settled" ELSE promise[c]]

\* recordFault(): only a code that no later statement survives is latched.
Codes == {"fatal", "ordinary"}

RecordFault(code) ==
    /\ faulted' = (faulted \/ code = "fatal")
    /\ fatal' = (fatal \/ code = "fatal")

\* isHealthy() up to its round trip.
LooksHealthy == db /\ ~interrupted /\ ~faulted /\ file = "open"

-----------------------------------------------------------------------------
(* connect() *)

\* The open callback without an error; the guard may have given up before.
OpenSucceeds ==
    /\ file = "opening"
    /\ file' = "open"
    /\ openSettled' = TRUE
    /\ connecting' = IF openSettled THEN connecting
                                    ELSE Settle(connecting, "resolved")
    /\ UNCHANGED <<db, openFailed, faulted, interrupted, callVars,
                   closePromise, fatal>>

\* The open callback with an error, which an 'error' event may have announced.
OpenFails ==
    /\ file = "opening"
    /\ file' = "failed"
    /\ openSettled' = TRUE
    /\ IF openSettled
       THEN UNCHANGED <<connecting, openFailed, faulted, fatal>>
       ELSE /\ openFailed' = TRUE
            /\ connecting' = Settle(connecting, "rejected")
            /\ \E code \in Codes : RecordFault(code)
    /\ UNCHANGED <<db, interrupted, callVars, closePromise>>

\* The open guard.
OpenGuard ==
    /\ connecting = "waiting"
    /\ connecting' = "rejected"
    /\ openFailed' = TRUE
    /\ UNCHANGED <<db, file, openSettled, faulted, interrupted, callVars,
                   closePromise, fatal>>

\* Mutant: an event latches nothing.
ErrorEvent_NoLatch ==
    /\ file = "open"
    /\ fatal' = TRUE
    /\ promise' = Reject(inFlight)
    /\ inFlight' = {}
    /\ UNCHANGED <<db, file, openVars, faulted, interrupted, driver,
                   closePromise>>

\* The handle's 'error' event.  "Cannot open" says that it never was; an open that
\* still waits has failed; every statement on the handle is answered.
ErrorEvent ==
    /\ file \in {"opening", "open"}
    /\ \E code \in Codes : RecordFault(code)
    /\ \/ UNCHANGED <<file, openFailed>>
       \/ file = "opening" /\ file' = "failed" /\ openFailed' = TRUE
    /\ openSettled' = TRUE
    /\ connecting' = IF openSettled THEN connecting
                                    ELSE Settle(connecting, "rejected")
    /\ promise' = Reject(inFlight)
    /\ inFlight' = {}
    /\ UNCHANGED <<db, interrupted, driver, closePromise>>

-----------------------------------------------------------------------------
(* run() *)

\* Mutant: one rejector for the whole adapter.
Listed_OneSlot(c) == {c}
Listed(c) == inFlight \cup {c}

\* A statement, or the round trip of isHealthy(), is handed to the driver and its
\* timer is set.  Without a handle there is nothing to hand it to.
Run(c) ==
    /\ promise[c] = "none"
    /\ connecting = "resolved"
    /\ IF db
       THEN /\ promise' = [promise EXCEPT ![c] = "waiting"]
            /\ driver' = [driver EXCEPT ![c] = "running"]
            /\ inFlight' = Listed(c)
       ELSE /\ promise' = [promise EXCEPT ![c] = "settled"]
            /\ UNCHANGED <<driver, inFlight>>
    /\ UNCHANGED <<db, file, openVars, faulted, interrupted, closePromise,
                   fatal>>

\* The driver's callback; execute() latches the code of an error it is told of.
\* When the promise is settled already nobody is told anything.
Callback(c) ==
    /\ driver[c] = "running"
    /\ file = "open"
    /\ driver' = [driver EXCEPT ![c] = "over"]
    /\ promise' = Reject({c})
    /\ inFlight' = inFlight \ {c}
    /\ \/ UNCHANGED <<faulted, fatal>>
       \/ promise[c] = "waiting" /\ \E code \in Codes : RecordFault(code)
    /\ UNCHANGED <<db, file, openVars, interrupted, closePromise>>

\* callbackWithTimeout()'s timer: the promise is rejected, the statement stays in
\* the driver.
Timer(c) ==
    /\ promise[c] = "waiting"
    /\ promise' = Reject({c})
    /\ inFlight' = inFlight \ {c}
    /\ UNCHANGED <<db, file, openVars, faulted, interrupted, driver,
                   closePromise, fatal>>

-----------------------------------------------------------------------------
(* abort() and close() *)

\* The driver interrupts what it runs: its callbacks come soon.
Interrupt ==
    /\ db
    /\ connecting # "waiting"
    /\ ~interrupted
    /\ interrupted' = TRUE
    /\ UNCHANGED <<db, file, openVars, faulted, callVars, closePromise, fatal>>

\* close() up to its await.  A handle that never opened has nothing to close.
LiteClose ==
    /\ db
    /\ connecting # "waiting"
    /\ db' = FALSE
    /\ faulted' = FALSE
    /\ promise' = Reject(inFlight)
    /\ inFlight' = {}
    /\ closePromise' = IF openFailed THEN "settled" ELSE "waiting"
    /\ UNCHANGED <<file, openVars, interrupted, driver, fatal>>

\* The driver closes the handle behind the statements it still runs.
FileClosed ==
    /\ ~db
    /\ file = "open"
    /\ ~openFailed
    /\ \A c \in LiteCalls : driver[c] # "running"
    /\ file' = "closed"
    /\ closePromise' = "settled"
    /\ UNCHANGED <<db, openVars, faulted, interrupted, callVars, fatal>>

\* Mutant: the timer of close() is cleared with those of the statements.
CloseTimer_OnlyIfIdle ==
    /\ closePromise = "waiting"
    /\ \A c \in LiteCalls : driver[c] # "running"
    /\ closePromise' = "settled"
    /\ UNCHANGED <<db, file, openVars, faulted, interrupted, callVars, fatal>>

\* The five seconds of close() are over; the driver is not told.
CloseTimer ==
    /\ closePromise = "waiting"
    /\ closePromise' = "settled"
    /\ UNCHANGED <<db, file, openVars, faulted, interrupted, callVars, fatal>>

-----------------------------------------------------------------------------
LiteInit ==
    /\ db = TRUE
    /\ file = "opening"
    /\ connecting = "waiting"
    /\ openSettled = FALSE
    /\ openFailed = FALSE
    /\ faulted = FALSE
    /\ interrupted = FALSE
    /\ promise = [c \in LiteCalls |-> "none"]
    /\ driver = [c \in LiteCalls |-> "none"]
    /\ inFlight = {}
    /\ closePromise = "no"
    /\ fatal = FALSE

LiteNext ==
    \/ OpenSucceeds \/ OpenFails \/ OpenGuard \/ ErrorEvent
    \/ \E c \in LiteCalls : Run(c) \/ Callback(c) \/ Timer(c)
    \/ Interrupt \/ LiteClose \/ FileClosed \/ CloseTimer

LiteSpec == LiteInit /\ [][LiteNext]_liteVars

\* The timers fire; the driver may never call back.
LiteTimers ==
    /\ WF_liteVars(OpenGuard)
    /\ WF_liteVars(CloseTimer)
    /\ \A c \in LiteCalls : WF_liteVars(Timer(c))

-----------------------------------------------------------------------------
(* Properties *)

\* The list of rejectors is the list of the statements that wait: an 'error' event
\* and a close() answer all of them, each through its own, and nobody waits for a
\* handle that is gone.
ListedIsWaiting == inFlight = {c \in LiteCalls : promise[c] = "waiting"}

\* A handle the adapter was told is finished is never called healthy again.
FaultyIsUnhealthy == fatal => ~LooksHealthy

\* Both: nobody is left waiting by a handle that is gone, and nobody is given a finished one.
SQLiteListsAndFaults == ListedIsWaiting /\ FaultyIsUnhealthy

\* connect(), close() and every statement settle though the driver never answers: whatever
\* waits now (the calls are finitely many), a time comes when nothing does.
LiteSettles ==
    []<>(/\ connecting # "waiting"
         /\ closePromise # "waiting"
         /\ \A c \in LiteCalls : promise[c] # "waiting")
=============================================================================
