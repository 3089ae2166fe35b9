----------------------------- MODULE ServerProofs -----------------------------
(***************************************************************************)
(* Proofs about Server, for any finite set of requests.                    *)
(***************************************************************************)
EXTENDS Server, TLAPS

\* closeAll() takes what is in the cache, and takes nothing twice: what an earlier
\* one awaits is closing or closed already.
LEMMA CloseAllTypes ==
    ASSUME ServerTypeOK, OpenedOnce, NEW e \in Enders, CloseAllFor(e)
    PROVE  /\ reaping' \in BOOLEAN
           /\ conn' \in [Requests -> {"none", "open", "closing", "closed"}]
           /\ takes' \in [Enders -> SUBSET Requests]
           /\ \A d \in Enders : \A r \in takes'[d] :
                  conn'[r] \in {"closing", "closed"}
           /\ \A r \in Requests : conn[r] = "none" => conn'[r] = "none"
  BY DEF ServerTypeOK, CloseAllFor, Dispose, OpenConns

\* Every step keeps the invariant.
LEMMA ServerStep == ServerInv /\ [ServerNext]_serverVars => ServerInv'
<1> SUFFICES ASSUME ServerInv, [ServerNext]_serverVars
             PROVE  ServerInv'
  OBVIOUS
<1> USE DEF ServerInv
<1>1. ASSUME NEW r \in Requests, Serve(r), ~PolicyRejects(r)
      PROVE  ServerInv'
  <2>1. CASE Receive(r)
    BY <2>1, ServerAssumption
       DEF Receive, ServerTypeOK, TimersWait, OpenedOnce, endVars
  <2>2. CASE Refuse(r)
    BY <2>2 DEF Refuse, Answer, ServerTypeOK, TimersWait, OpenedOnce, endVars
  <2>3. CASE Pass(r)
    BY <2>3 DEF Pass, ServerTypeOK, TimersWait, OpenedOnce, endVars
  <2>4. CASE PolicyAllows(r)
    BY <2>4 DEF PolicyAllows, ServerTypeOK, TimersWait, OpenedOnce, endVars
  <2>5. CASE Opened(r)
    BY <2>5 DEF Opened, ServerTypeOK, TimersWait, OpenedOnce, endVars
  <2>6. CASE NotOpened(r)
    BY <2>6 DEF NotOpened, Answer, ServerTypeOK, TimersWait, OpenedOnce, endVars
  <2>7. CASE Finish(r)
    BY <2>7 DEF Finish, Answer, ServerTypeOK, TimersWait, OpenedOnce, endVars
  <2>8. CASE GiveUp(r)
    BY <2>8 DEF GiveUp, Answer, Dispose, OpenConns, ServerTypeOK, TimersWait,
                OpenedOnce, endVars
  <2>9. CASE Frame(r)
    BY <2>9, ServerAssumption
       DEF Frame, ServerTypeOK, TimersWait, OpenedOnce, endVars
  <2>10. CASE Sweep(r)
    BY <2>10 DEF Sweep, Dispose, ServerTypeOK, TimersWait, OpenedOnce,
                 requestVars, endVars
  <2>11. CASE Closed(r)
    BY <2>11 DEF Closed, ServerTypeOK, TimersWait, OpenedOnce, requestVars,
                 endVars
  <2> QED
    BY <1>1, <2>1, <2>2, <2>3, <2>4, <2>5, <2>6, <2>7, <2>8, <2>9, <2>10, <2>11
       DEF Serve
<1>2. ASSUME CloseAndExit, UNCHANGED <<phase, answered, timer, frames>>,
             verdict' \subseteq verdict
      PROVE  ServerInv'
  <2>1. CASE shuttingDown
    BY <1>2, <2>1 DEF CloseAndExit, ServerTypeOK, TimersWait, OpenedOnce
  <2>2. CASE ~shuttingDown
    <3>1. CloseAllFor("fatal")
      BY <1>2, <2>2 DEF CloseAndExit
    <3>2. ServerTypeOK' /\ OpenedOnce'
      BY <1>2, <3>1, CloseAllTypes
         DEF CloseAndExit, ServerTypeOK, OpenedOnce, Enders
    <3> QED
      BY <1>2, <3>2 DEF TimersWait
  <2> QED
    BY <2>1, <2>2
<1>3. ASSUME NEW e \in Once, Shutdown(e), armed' \subseteq armed,
             signals' \subseteq Signals,
             UNCHANGED <<requestVars, injected, shuttingDown, fatal, gone, proc>>
      PROVE  ServerInv'
  <2>1. CASE closing
    BY <1>3, <2>1
       DEF Shutdown, ServerTypeOK, TimersWait, OpenedOnce, requestVars
  <2>2. CASE ~closing
    <3>1. CloseAllFor(e)
      BY <1>3, <2>2 DEF Shutdown
    <3>2. ServerTypeOK' /\ OpenedOnce'
      BY <1>3, <3>1, CloseAllTypes
         DEF Shutdown, ServerTypeOK, OpenedOnce, Enders, requestVars
    <3> QED
      BY <1>3, <3>2 DEF TimersWait, requestVars
  <2> QED
    BY <2>1, <2>2
<1>4. ASSUME UNCHANGED <<requestVars, conn, takes, injected, shuttingDown,
                         closing, armed, signals, fatal>>,
             reaping' \in BOOLEAN, gone' \in BOOLEAN,
             proc' \in {"up", "ended"}
      PROVE  ServerInv'
  BY <1>4 DEF ServerTypeOK, TimersWait, OpenedOnce, requestVars
<1>5. ASSUME End
      PROVE  ServerInv'
  <2>1. CASE FatalEvent
    BY <2>1, <1>2 DEF FatalEvent, requestVars
  <2>2. CASE FatalExit \/ ClientLeaves \/ LoopEmpty
             \/ \E s \in Signals : SignalExit(s) \/ SignalAgain(s)
    BY <2>2, <1>4 DEF FatalExit, ClientLeaves, LoopEmpty, SignalExit,
                      SignalAgain, ServerTypeOK
  <2>3. CASE OnClose
    BY <2>3 DEF OnClose, Dispose, OpenConns, ServerTypeOK, TimersWait,
                OpenedOnce, requestVars, endVars
  <2>4. CASE BeforeExit
    BY <2>4, <1>3 DEF BeforeExit, Once, ServerTypeOK
  <2>5. CASE \E s \in Signals : Signal(s)
    BY <2>5, <1>3 DEF Signal, Once, ServerTypeOK
  <2> QED
    BY <1>5, <2>1, <2>2, <2>3, <2>4, <2>5 DEF End
<1>6. ASSUME NEW r \in Requests, PolicyRejects(r)
      PROVE  ServerInv'
  BY <1>6, <1>2 DEF PolicyRejects
<1>7. CASE UNCHANGED serverVars
  BY <1>7, <1>4 DEF serverVars, endVars, ServerTypeOK
<1> QED
  BY <1>1, <1>5, <1>6, <1>7 DEF ServerNext, Ended

LEMMA ServerBase == ServerInit => ServerInv
<1> SUFFICES ASSUME ServerInit
             PROVE  ServerInv
  OBVIOUS
<1>1. frames \in [Requests -> 0..MaxFrames]
  BY ServerAssumption DEF ServerInit
<1>2. /\ takes \in [Enders -> SUBSET Requests]
      /\ \A e \in Enders : takes[e] = {}
  BY DEF ServerInit
<1>3. TimersWait /\ OpenedOnce
  BY DEF ServerInit, TimersWait, OpenedOnce
<1>4. signals \subseteq Signals /\ armed \subseteq Once
  BY DEF ServerInit
<1>5. ServerTypeOK
  BY <1>1, <1>2, <1>4 DEF ServerInit, ServerTypeOK
<1> QED
  BY <1>3, <1>5 DEF ServerInv

THEOREM ServerInvCorrect == ServerSpec => []ServerInv
  BY ServerBase, ServerStep, PTL DEF ServerSpec

\* Types, and: what a closeAll() awaits is closing or closed, whichever of the
\* ends called it and whatever opened meanwhile.
THEOREM ServerTypeCorrect == ServerSpec => []ServerTypeOK
  BY ServerInvCorrect, PTL DEF ServerInv

\* No progress frame follows the answer.
THEOREM FramesStopCorrect == ServerSpec => FramesStop
<1>1. ServerInv /\ [ServerNext]_serverVars
      => [\A r \in Requests : frames'[r] # frames[r] => r \notin answered]_serverVars
  <2> SUFFICES ASSUME ServerInv, ServerNext, NEW r \in Requests,
                      frames'[r] # frames[r]
               PROVE  r \notin answered
    OBVIOUS
  <2>1. frames' # frames
    OBVIOUS
  <2>2. PICK q \in Requests : Frame(q)
    BY <2>1 DEF ServerNext, Serve, End, Ended, Receive, Refuse, Pass,
       PolicyAllows, Opened, NotOpened, Finish, GiveUp, Sweep, Closed,
       PolicyRejects, FatalEvent, FatalExit, OnClose, ClientLeaves, BeforeExit,
       LoopEmpty, Signal, SignalExit, SignalAgain, requestVars, serverVars
  <2>3. q = r
    BY <2>2 DEF Frame, ServerInv, ServerTypeOK
  <2> QED
    BY <2>2, <2>3 DEF Frame, ServerInv, TimersWait
<1> QED
  BY <1>1, ServerInvCorrect, PTL DEF ServerSpec, FramesStop

\* Only the three ends that call shutdown() change what they or a closeAll() take.
LEMMA ShutdownStep == ShutdownWasAsked /\ [ServerNext]_serverVars => ShutdownWasAsked'
<1> SUFFICES ASSUME ShutdownWasAsked, [ServerNext]_serverVars
             PROVE  ShutdownWasAsked'
  OBVIOUS
<1>1. CASE \E s \in Signals : Signal(s)
  BY <1>1 DEF Signal, Shutdown, ShutdownWasAsked
<1>2. CASE BeforeExit
  BY <1>2 DEF BeforeExit, Shutdown, ShutdownWasAsked, Signals
<1>3. CASE UNCHANGED <<closing, signals, armed>>
  BY <1>3 DEF ShutdownWasAsked
<1> QED
  BY <1>1, <1>2, <1>3
     DEF ServerNext, Serve, End, Ended, Receive, Refuse, Pass, PolicyAllows, Opened,
         NotOpened, Finish, GiveUp, Frame, Sweep, Closed, PolicyRejects, CloseAndExit,
         FatalEvent, FatalExit, OnClose, ClientLeaves, LoopEmpty, SignalExit, SignalAgain,
         endVars, serverVars

\* The first signal closes what was in the cache when it came, and its exit waits for all of
\* it: no fatal event, second signal or transport's close that comes between makes it forget.
THEOREM FirstExitIsCleanCorrect == ServerSpec => FirstExitIsClean
<1>1. ASSUME ServerInv, ShutdownWasAsked, ServerNext, NEW s \in Signals
      PROVE  /\ (signals = {} /\ "beforeExit" \in armed /\ Signal(s)) => takes'[s] = OpenConns
             /\ takes'[s] # takes[s] => s \notin signals
             /\ SignalExit(s) => \A r \in takes[s] : conn[r] = "closed"
  <2>1. ASSUME signals = {}, "beforeExit" \in armed, Signal(s)
        PROVE  takes'[s] = OpenConns
    <3>1. ~closing
      BY <1>1, <2>1 DEF ShutdownWasAsked
    <3> QED
      BY <1>1, <2>1, <3>1
         DEF Signal, Shutdown, CloseAllFor, ServerInv, ServerTypeOK, Enders, Once
  <2>2. ASSUME takes'[s] # takes[s], s \in signals
        PROVE  FALSE
    <3>1. s \notin armed /\ s \in Enders /\ s # "fatal" /\ s # "beforeExit"
      BY <1>1, <2>2 DEF ShutdownWasAsked, Enders, Once, Signals
    <3>2. PICK e \in Enders : CloseAllFor(e) /\ e # s
      <4>1. CASE \E t \in Signals : Signal(t)
        BY <2>2, <3>1, <4>1 DEF Signal, Shutdown, Enders, Once
      <4>2. CASE BeforeExit
        BY <2>2, <3>1, <4>2 DEF BeforeExit, Shutdown, Enders, Once
      <4>3. CASE CloseAndExit
        BY <2>2, <3>1, <4>3 DEF CloseAndExit, Enders
      <4>4. CASE UNCHANGED takes
        BY <2>2, <4>4
      <4> QED
        BY <1>1, <4>1, <4>2, <4>3, <4>4
           DEF ServerNext, Serve, End, Ended, Receive, Refuse, Pass, PolicyAllows, Opened,
               NotOpened, Finish, GiveUp, Frame, Sweep, Closed, PolicyRejects, FatalEvent,
               FatalExit, OnClose, ClientLeaves, LoopEmpty, SignalExit, SignalAgain,
               endVars, serverVars
    <3> QED
      BY <1>1, <2>2, <3>1, <3>2 DEF CloseAllFor, ServerInv, ServerTypeOK
  <2>3. SignalExit(s) => \A r \in takes[s] : conn[r] = "closed"
    BY DEF SignalExit, Settled
  <2> QED
    BY <2>1, <2>2, <2>3
<1>2. ServerInit => ShutdownWasAsked
  BY DEF ServerInit, ShutdownWasAsked
<1>3. ServerInv /\ ShutdownWasAsked /\ [ServerNext]_serverVars
      => [\A s \in Signals :
            LET first == signals = {} /\ "beforeExit" \in armed
                alone == signals = {s} /\ "beforeExit" \in armed
            IN  /\ first /\ Signal(s) => takes'[s] = OpenConns
                /\ takes'[s] # takes[s] => s \notin signals
                /\ alone /\ SignalExit(s) => \A r \in takes[s] : conn[r] = "closed"]_serverVars
  BY <1>1
<1> QED
  BY <1>2, <1>3, ShutdownStep, ServerInvCorrect, PTL DEF ServerSpec, FirstExitIsClean
=============================================================================
