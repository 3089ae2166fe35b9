-------------------------------- MODULE Server --------------------------------
(***************************************************************************)
(* The life of the server process: the requests src/index.js serves, the   *)
(* progress frames it sends meanwhile, and every way it can come to an     *)
(* end.  SIGINT, SIGTERM and beforeExit are handled by                     *)
(* core/connection-cache.js installShutdownHandlers(), a closed transport, *)
(* a dead one and the two fatal events by src/index.js; all of them end up *)
(* in the same closeAll().                                                 *)
(*                                                                         *)
(* A request is served on a connection of its own, named after it; how     *)
(* requests share connections is ConnectionCache's subject.                *)
(***************************************************************************)
EXTENDS Naturals, FiniteSets

CONSTANTS
    Requests,    \* the tools/call requests of a session
    Schemas,     \* those that describe a database: db_schema, db_health
    Forbidden,   \* those whose target the connection policy refuses
    Watched,     \* those that asked for progress and may take long enough
    MaxFrames    \* bound on the repeated progress frames of one request

ASSUME ServerAssumption ==
    /\ IsFiniteSet(Requests)
    /\ Schemas \subseteq Requests
    /\ Forbidden \subseteq Requests
    /\ Watched \subseteq Requests
    /\ MaxFrames \in Nat \ {0}

VARIABLES
    verdict,      \* describe(): the verdicts still pending, which nobody awaits
    phase,        \* where the operation behind a request is
    answered,     \* requests the client has an answer to, or has given up
    timer,        \* requests whose progress interval is armed
    frames,       \* progress: the repeated frames sent for a request
    conn,         \* the connection of a request; "open" is open and cached
    reaping,      \* the cache's sweep timer runs
    injected,     \* deps.process was given to createServer()
    shuttingDown, \* closeAndExit() has been entered
    closing,      \* shutdown() has been entered
    armed,        \* the once() listeners that have not been used
    signals,      \* history: the signals the process has received
    takes,        \* the connections each closeAll() still awaits, by its caller
    fatal,        \* history: a fatal event or a dead transport
    gone,         \* the client has closed the server's stdin
    proc          \* "up" or "ended"

requestVars == <<verdict, phase, answered, timer, frames>>
endVars == <<injected, shuttingDown, closing, armed, signals, takes, fatal,
             gone, proc>>
serverVars == <<requestVars, conn, reaping, endVars>>

Signals == {"SIGINT", "SIGTERM"}
Once == Signals \cup {"beforeExit"}
Enders == Once \cup {"fatal"}

ServerTypeOK ==
    /\ verdict \subseteq Schemas
    /\ phase \in [Requests -> {"none", "gates", "opening", "using", "over"}]
    /\ answered \subseteq Requests
    /\ timer \subseteq Requests
    /\ frames \in [Requests -> 0..MaxFrames]
    /\ conn \in [Requests -> {"none", "open", "closing", "closed"}]
    /\ reaping \in BOOLEAN
    /\ injected \in BOOLEAN
    /\ shuttingDown \in BOOLEAN
    /\ closing \in BOOLEAN
    /\ armed \subseteq Once
    /\ signals \subseteq Signals
    /\ takes \in [Enders -> SUBSET Requests]
    /\ \A e \in Enders : \A r \in takes[e] : conn[r] \in {"closing", "closed"}
    /\ fatal \in BOOLEAN
    /\ gone \in BOOLEAN
    /\ proc \in {"up", "ended"}

-----------------------------------------------------------------------------
(* Helpers *)

OpenConns == {r \in Requests : conn[r] = "open"}

\* dispose() on the connections in C.
Dispose_Forgets(C) == conn      \* mutant: the map is emptied and nothing closed
Dispose(C) == [r \in Requests |-> IF r \in C THEN "closing" ELSE conn[r]]

\* closeAll() on behalf of one of the enders: the sweep stops, the map is
\* emptied, and the caller awaits the close of what was in it.
CloseAllFor(e) ==
    /\ reaping' = FALSE
    /\ conn' = Dispose(OpenConns)
    /\ takes' = [takes EXCEPT ![e] = OpenConns]

\* Everything this closeAll() took has been closed, or has failed to close.
Settled_Unawaited(e) == TRUE        \* mutant: closeAll() is not awaited
Settled_EmptyCache(e) ==            \* mutant: waits until the cache is empty
    \A r \in Requests : conn[r] \notin {"open", "closing"}
Settled(e) == \A r \in takes[e] : conn[r] = "closed"

\* The client has its answer: the interval is cleared first.
Answer_KeepsTimer(r) ==         \* mutant: no stop() in the finally
    /\ answered' = answered \cup {r}
    /\ UNCHANGED timer
Answer(r) ==
    /\ answered' = answered \cup {r}
    /\ timer' = timer \ {r}

-----------------------------------------------------------------------------
(* Requests *)

\* The target is resolved, the interval armed if the client asked for progress
\* and the call may last, and the registry takes over.  run() awaits the verdict
\* of the connection policy; describe() calls the same async function and goes
\* on to its connection.
Receive(r) ==
    /\ ~gone
    /\ phase[r] = "none"
    /\ timer' = timer \cup ({r} \cap Watched)
    /\ verdict' = verdict \cup ({r} \cap Schemas)
    /\ phase' = [phase EXCEPT ![r] = IF r \in Schemas THEN "opening"
                                                      ELSE "gates"]
    /\ UNCHANGED <<answered, frames, conn, reaping, endVars>>

\* The target cannot be resolved, or run() refuses the statement before it asks
\* for a connection.
Refuse(r) ==
    /\ \/ phase[r] = "none" /\ ~gone
       \/ phase[r] = "gates"
    /\ phase' = [phase EXCEPT ![r] = "over"]
    /\ Answer(r)
    /\ UNCHANGED <<verdict, frames, conn, reaping, endVars>>

\* The gates let the statement through to withConnection().
Pass(r) ==
    /\ phase[r] = "gates"
    /\ r \notin Forbidden
    /\ phase' = [phase EXCEPT ![r] = "opening"]
    /\ UNCHANGED <<verdict, answered, timer, frames, conn,
                   reaping, endVars>>

\* The verdict of a describe() arrives, and is not looked at when it is good.
\* A bad one is a rejection nobody handles: see PolicyRejects.
PolicyAllows(r) ==
    /\ r \in verdict
    /\ r \notin Forbidden
    /\ verdict' = verdict \ {r}
    /\ UNCHANGED <<phase, answered, timer, frames, conn,
                   reaping, endVars>>

\* connect() resolves, or rejects.
Opened(r) ==
    /\ phase[r] = "opening"
    /\ phase' = [phase EXCEPT ![r] = "using"]
    /\ conn' = [conn EXCEPT ![r] = "open"]
    /\ UNCHANGED <<verdict, answered, timer, frames, reaping,
                   endVars>>

NotOpened(r) ==
    /\ phase[r] = "opening"
    /\ phase' = [phase EXCEPT ![r] = "over"]
    /\ Answer(r)
    /\ UNCHANGED <<verdict, frames, conn, reaping, endVars>>

\* Mutant: a call the client has given up never releases its connection.
Finish_UnlessAnswered(r) ==
    /\ phase[r] = "using"
    /\ r \notin answered
    /\ phase' = [phase EXCEPT ![r] = "over"]
    /\ Answer(r)
    /\ UNCHANGED <<verdict, frames, conn, reaping, endVars>>

\* The statement returns or fails; its connection stays in the cache.
Finish(r) ==
    /\ phase[r] = "using"
    /\ phase' = [phase EXCEPT ![r] = "over"]
    /\ Answer(r)
    /\ UNCHANGED <<verdict, frames, conn, reaping, endVars>>

\* The client cancels, or the call's hard limit strikes: the connection leaves
\* the cache if it is there, and the operation goes on by itself.
GiveUp(r) ==
    /\ phase[r] \notin {"none", "over"}
    /\ r \notin answered
    /\ Answer(r)
    /\ conn' = Dispose({r} \cap OpenConns)
    /\ UNCHANGED <<verdict, phase, frames, reaping, endVars>>

\* The interval's own frame.
Frame(r) ==
    /\ r \in timer
    /\ frames[r] < MaxFrames
    /\ frames' = [frames EXCEPT ![r] = @ + 1]
    /\ UNCHANGED <<verdict, phase, answered, timer, conn,
                   reaping, endVars>>

-----------------------------------------------------------------------------
(* Connections *)

\* A connection nobody uses has been idle long enough.
Sweep(r) ==
    /\ reaping
    /\ conn[r] = "open"
    /\ phase[r] = "over"
    /\ conn' = Dispose({r})
    /\ UNCHANGED <<requestVars, reaping, endVars>>

\* A driver's close() settles.
Closed(r) ==
    /\ conn[r] = "closing"
    /\ conn' = [conn EXCEPT ![r] = "closed"]
    /\ UNCHANGED <<requestVars, reaping, endVars>>

-----------------------------------------------------------------------------
(* The ends *)

\* closeAndExit(1): the first caller closes everything, the others return.
CloseAndExit ==
    /\ fatal' = TRUE
    /\ shuttingDown' = TRUE
    /\ IF shuttingDown THEN UNCHANGED <<conn, reaping, takes>>
                       ELSE CloseAllFor("fatal")
    /\ UNCHANGED <<injected, closing, armed, signals, gone, proc>>

\* An uncaught exception, an unhandled rejection from a driver, or a transport
\* error that says the pipe is dead.
FatalEvent ==
    /\ ~fatal
    /\ CloseAndExit
    /\ UNCHANGED requestVars

\* The rejection of a describe() whose policy verdict nobody awaits.
PolicyRejects(r) ==
    /\ r \in verdict
    /\ r \in Forbidden
    /\ verdict' = verdict \ {r}
    /\ CloseAndExit
    /\ UNCHANGED <<phase, answered, timer, frames>>

\* The closeAll() of closeAndExit() is over.  The exit goes to the process that
\* was injected; without one there is nothing to call and the server goes on.
FatalExit ==
    /\ shuttingDown
    /\ Settled("fatal")
    /\ injected
    /\ proc' = "ended"
    /\ UNCHANGED <<requestVars, conn, reaping, injected, shuttingDown, closing,
                   armed, signals, takes, fatal, gone>>

\* server.onclose: the transport is closed; nobody awaits the closeAll().
OnClose ==
    /\ gone
    /\ reaping \/ OpenConns # {}
    /\ reaping' = FALSE
    /\ conn' = Dispose(OpenConns)
    /\ UNCHANGED <<requestVars, endVars>>

\* shutdown(signal): the work is done once, whoever comes first.
Shutdown(e) ==
    /\ closing' = TRUE
    /\ IF closing THEN UNCHANGED <<conn, reaping, takes>> ELSE CloseAllFor(e)

\* Mutant: the guard of shutdown() covers the exit as well.
Signal_GuardCoversExit(s) ==
    /\ s \in armed
    /\ armed' = IF closing THEN armed ELSE armed \ {s}
    /\ signals' = signals \cup {s}
    /\ Shutdown(s)
    /\ UNCHANGED <<requestVars, injected, shuttingDown, fatal, gone, proc>>

\* The first SIGINT or the first SIGTERM.  once() has taken the listener away.
Signal(s) ==
    /\ s \in armed
    /\ armed' = armed \ {s}
    /\ signals' = signals \cup {s}
    /\ Shutdown(s)
    /\ UNCHANGED <<requestVars, injected, shuttingDown, fatal, gone, proc>>

\* shutdown(signal) has returned: exit(0).  A shutdown() that found another one
\* at work returned at once, with nothing to await.
SignalExit(s) ==
    /\ s \in signals \ armed
    /\ Settled(s)
    /\ proc' = "ended"
    /\ UNCHANGED <<requestVars, conn, reaping, injected, shuttingDown, closing,
                   armed, signals, takes, fatal, gone>>

\* The same signal again: without a listener it ends the process.
SignalAgain(s) ==
    /\ s \in signals
    /\ proc' = "ended"
    /\ UNCHANGED <<requestVars, conn, reaping, injected, shuttingDown, closing,
                   armed, signals, takes, fatal, gone>>

\* The client closes stdin, which keeps the event loop alive no longer.
ClientLeaves ==
    /\ ~gone
    /\ gone' = TRUE
    /\ UNCHANGED <<requestVars, conn, reaping, injected, shuttingDown, closing,
                   armed, signals, takes, fatal, proc>>

\* Nothing keeps the event loop alive but, perhaps, open connections; an SQLite
\* handle does not.
NothingToDo ==
    /\ gone
    /\ verdict = {}
    /\ \A r \in Requests : phase[r] \in {"none", "over"} /\ conn[r] # "closing"

BeforeExit ==
    /\ NothingToDo
    /\ "beforeExit" \in armed
    /\ armed' = armed \ {"beforeExit"}
    /\ Shutdown("beforeExit")
    /\ UNCHANGED <<requestVars, injected, shuttingDown, signals, fatal, gone,
                   proc>>

\* Node ends a process whose event loop is empty.
LoopEmpty ==
    /\ NothingToDo
    /\ OpenConns = {}
    /\ proc' = "ended"
    /\ UNCHANGED <<requestVars, conn, reaping, injected, shuttingDown, closing,
                   armed, signals, takes, fatal, gone>>

-----------------------------------------------------------------------------
ServerInit ==
    /\ verdict = {}
    /\ phase = [r \in Requests |-> "none"]
    /\ answered = {}
    /\ timer = {}
    /\ frames = [r \in Requests |-> 0]
    /\ conn = [r \in Requests |-> "none"]
    /\ reaping = TRUE
    /\ injected \in BOOLEAN
    /\ shuttingDown = FALSE
    /\ closing = FALSE
    /\ armed = Once
    /\ signals = {}
    /\ takes = [e \in Enders |-> {}]
    /\ fatal = FALSE
    /\ gone = FALSE
    /\ proc = "up"

Serve(r) == \/ Receive(r) \/ Refuse(r) \/ Pass(r) \/ PolicyAllows(r)
            \/ Opened(r) \/ NotOpened(r) \/ Finish(r) \/ GiveUp(r) \/ Frame(r)
            \/ Sweep(r) \/ Closed(r) \/ PolicyRejects(r)

End == \/ FatalEvent \/ FatalExit \/ OnClose \/ ClientLeaves
       \/ BeforeExit \/ LoopEmpty
       \/ \E s \in Signals : Signal(s) \/ SignalExit(s) \/ SignalAgain(s)

Ended ==
    /\ proc = "ended"
    /\ UNCHANGED serverVars

ServerNext ==
    \/ proc = "up" /\ ((\E r \in Requests : Serve(r)) \/ End)
    \/ Ended

ServerSpec == ServerInit /\ [][ServerNext]_serverVars

Up(A) == proc = "up" /\ A

\* The event loop runs what is ready, the sweep's timer fires and the node
\* process ends when it may.
LoopRuns ==
    /\ WF_serverVars(Up(FatalExit))
    /\ \A s \in Signals : WF_serverVars(Up(SignalExit(s)))
    /\ WF_serverVars(Up(LoopEmpty))
    /\ \A r \in Requests : /\ WF_serverVars(Up(Sweep(r)))
                           /\ WF_serverVars(Up(Refuse(r) /\ phase[r] = "gates"))
                           /\ WF_serverVars(Up(PolicyAllows(r)))
                           /\ WF_serverVars(Up(PolicyRejects(r)))

\* The drivers answer: each has a timer of its own on connect and on statements.
DriversAnswer ==
    \A r \in Requests : /\ WF_serverVars(Up(Opened(r) \/ NotOpened(r)))
                        /\ WF_serverVars(Up(Finish(r)))

\* A driver's close() settles.  The server has no timer on it.
ClosesSettle == \A r \in Requests : WF_serverVars(Up(Closed(r)))

FairServerSpec == ServerSpec /\ LoopRuns /\ DriversAnswer

-----------------------------------------------------------------------------
(* Properties *)

\* The first signal of a process does not end it before every connection that was in the cache
\* when it came has been closed: it takes them all, whatever was shut down before it, nothing
\* that comes later changes what it awaits, and it exits when they are closed.
FirstExitIsClean ==
    [][\A s \in Signals :
         LET first == signals = {} /\ "beforeExit" \in armed
             alone == signals = {s} /\ "beforeExit" \in armed
         IN  /\ first /\ Signal(s) => takes'[s] = OpenConns
             /\ takes'[s] # takes[s] => s \notin signals
             /\ alone /\ SignalExit(s) => \A r \in takes[s] : conn[r] = "closed"]_serverVars

\* A progress frame never follows the answer, however long the operation of a
\* call that was given up goes on.
FramesStop ==
    [][\A r \in Requests : frames'[r] # frames[r] => r \notin answered]_serverVars

\* What is asked to end ends: by one signal, or by a fatal event when the process was injected,
\* with drivers whose close() settles; and by two different signals whatever the drivers do,
\* even when the first is still waiting for a close() that never settles.
EndsWhenAsked ==
    /\ ClosesSettle => (signals # {} ~> proc = "ended")
    /\ ClosesSettle => (fatal /\ injected ~> proc = "ended")
    /\ (signals = Signals) ~> (proc = "ended")

\* A process whose client has left ends by itself, once the sweep has closed the
\* connections that keep it alive: nothing it still runs holds one for ever.
ClientGoneEnds ==
    ClosesSettle => (gone ~> proc = "ended" \/ ~reaping)

-----------------------------------------------------------------------------
(* The inductive invariant behind the type invariant and FramesStop *)

\* Nobody is told anything before the request has been received, and an armed
\* interval belongs to a request that still waits.
TimersWait ==
    /\ timer \cap answered = {}
    /\ \A r \in answered : phase[r] # "none"

\* A request whose operation has not opened its connection has none.
OpenedOnce ==
    \A r \in Requests : phase[r] \in {"none", "gates", "opening"}
                         => conn[r] = "none"

ServerInv == ServerTypeOK /\ TimersWait /\ OpenedOnce

\* shutdown() has been entered by a signal or by beforeExit, and a signal that has come has no
\* listener left.
ShutdownWasAsked ==
    /\ closing => signals # {} \/ "beforeExit" \notin armed
    /\ signals \cap armed = {}

-----------------------------------------------------------------------------
(* What the repository says and the code does not keep *)

\* "These two stop the process deliberately rather than limping on".
FatalEnds == ClosesSettle => (fatal ~> proc = "ended")

\* "The check always runs, before any socket is opened": a target the policy
\* refuses is never connected to.
RefusedOpensNothing == \A r \in Forbidden : conn[r] = "none"
=============================================================================
