------------------------------ MODULE AdapterProofs ------------------------------
(***************************************************************************)
(* The five adapters, for any number of calls, sessions, sockets,          *)
(* documents and members and every cap; then the adapters and the schema   *)
(* reports as the runs compose them.  (The reports are in DescribeProofs.) *)
(***************************************************************************)
EXTENDS MCAdapters, DescribeProofs

-----------------------------------------------------------------------------
(* PostgreSQL: the sessions *)

\* Every call in progress has a session of its own that the pool has lent.
LEMMA Lending ==
    ASSUME PgTypeOK, LoansAreExact,
           NEW c \in PgCalls, stage[c] \in Lent
    PROVE  /\ client[c] \in Clients
           /\ client[c] \in out
           /\ \A d \in PgCalls : stage[d] \in Lent /\ d # c
                                 => client[d] # client[c]
  BY DEF PgTypeOK, LoansAreExact, Borrowers

\* A new adapter: nothing lent, nothing left behind.
LEMMA PgBase == PgInit => PgInv
  <1> SUFFICES ASSUME PgInit PROVE PgInv
    OBVIOUS
  <1>1. PgTypeOK
    BY DEF PgInit, PgTypeOK, Lent, Kinds
  <1>2. SessionsAreClean /\ TimeoutIsOwn /\ ResidueIsKnown /\ AloneIsAlone
    BY DEF PgInit, SessionsAreClean, TimeoutIsOwn, ResidueIsKnown, AloneIsAlone
  <1>3. Borrowers = {}
    BY DEF PgInit, Borrowers, Lent
  <1>4. LoansAreExact
    BY <1>3 DEF PgInit, LoansAreExact
  <1>5. RestingAreClean /\ IdleIsNotLent
    BY DEF PgInit, RestingAreClean, IdleIsNotLent
  <1> QED
    BY <1>1, <1>2, <1>4, <1>5 DEF PgInv

\* Every step of a call, of abort() and of close() keeps the invariant.  <1>7 is the
\* finally of execute(), <1>11 a session that is given
\* back or destroyed, <1>15 whatever ends
\* the pool.
LEMMA PgStep == PgInv /\ [PgNext]_pgVars => PgInv'
  <1> SUFFICES ASSUME PgInv, [PgNext]_pgVars PROVE PgInv'
    OBVIOUS
  <1> USE PgAssumption DEF PgInv, Lent, Kinds
  <1>1. ASSUME NEW c \in PgCalls, NEW k \in Kinds, Start(c, k),
               \/ shared
               \/ \A d \in PgCalls :
                     stage[d] = "none" \/ (kind[d] = "catalogue" /\ k = "catalogue")
        PROVE  PgInv'
    <2>1. PgTypeOK'
      BY <1>1 DEF Start, PgTypeOK
    <2>2. Borrowers' = Borrowers
      BY <1>1 DEF Start, PgTypeOK, Borrowers
    <2>3. LoansAreExact'
      BY <1>1, <2>2 DEF Start, LoansAreExact
    <2>4. (SessionsAreClean /\ TimeoutIsOwn /\ ResidueIsKnown)'
      BY <1>1 DEF Start, PgTypeOK, SessionsAreClean, TimeoutIsOwn, ResidueIsKnown
    <2>5. (RestingAreClean /\ IdleIsNotLent)'
      BY <1>1 DEF Start, PgTypeOK, RestingAreClean, IdleIsNotLent
    <2>6. AloneIsAlone'
      BY <1>1 DEF Start, PgTypeOK, AloneIsAlone
    <2> QED
      BY <2>1, <2>3, <2>4, <2>5, <2>6
  <1>2. ASSUME NEW c \in PgCalls, Execute(c) PROVE PgInv'
    BY <1>1, <1>2 DEF Execute
  <1>3. ASSUME NEW c \in PgCalls, Describe(c) PROVE PgInv'
    BY <1>1, <1>3 DEF Describe
  <1>4. ASSUME NEW c \in PgCalls, Connected(c) PROVE PgInv'
    <2> PICK s \in Clients \ out :
             /\ client' = [client EXCEPT ![c] = s]
             /\ out' = out \cup {s}
             /\ idle' = idle \ {s}
      BY <1>4 DEF Connected
    <2>1. PgTypeOK'
      BY <1>4 DEF Connected, PgTypeOK
    <2>2. Borrowers' = Borrowers \cup {c} /\ c \notin Borrowers
      BY <1>4 DEF Connected, PgTypeOK, Borrowers
    <2>3. /\ client'[c] = s
          /\ \A d \in Borrowers : client'[d] = client[d] /\ client[d] # s
      BY <1>4, <2>2 DEF Connected, PgTypeOK, LoansAreExact, Borrowers
    <2>4. LoansAreExact'
      BY <2>2, <2>3 DEF LoansAreExact
    <2>5. residue[s] = {}
      <3>1. CASE shared
        BY <1>4, <3>1 DEF Connected, RestingAreClean
      <3>2. CASE ~shared
        <4>1. \A d \in PgCalls : ~(stage[d] = "done" /\ kind[d] # "catalogue")
          BY <1>4, <3>2 DEF Connected, AloneIsAlone
        <4> QED
          BY <1>4, <4>1 DEF Connected, RestingAreClean
      <3> QED
        BY <3>1, <3>2
    <2>6. SessionsAreClean'
      BY <1>4, <2>3, <2>5 DEF Connected, PgTypeOK, SessionsAreClean, Borrowers
    <2>7. (TimeoutIsOwn /\ ResidueIsKnown)'
      BY <1>4, <2>3 DEF Connected, PgTypeOK, TimeoutIsOwn, ResidueIsKnown, Borrowers
    <2>8. (RestingAreClean /\ IdleIsNotLent)'
      BY <1>4 DEF Connected, PgTypeOK, RestingAreClean, IdleIsNotLent
    <2>9. AloneIsAlone'
      BY <1>4 DEF Connected, PgTypeOK, AloneIsAlone
    <2> QED
      BY <2>1, <2>4, <2>6, <2>7, <2>8, <2>9
  <1>5. ASSUME NEW c \in PgCalls, NotConnected(c) PROVE PgInv'
    <2>1. PgTypeOK'
      BY <1>5 DEF NotConnected, PgTypeOK
    <2>2. Borrowers' = Borrowers
      BY <1>5 DEF NotConnected, PgTypeOK, Borrowers
    <2>3. LoansAreExact'
      BY <1>5, <2>2 DEF NotConnected, LoansAreExact
    <2>4. (SessionsAreClean /\ TimeoutIsOwn /\ ResidueIsKnown)'
      BY <1>5 DEF NotConnected, PgTypeOK, SessionsAreClean, TimeoutIsOwn, ResidueIsKnown
    <2>5. (RestingAreClean /\ IdleIsNotLent /\ AloneIsAlone)'
      BY <1>5 DEF NotConnected, PgTypeOK, RestingAreClean, AloneIsAlone,
                  IdleIsNotLent
    <2> QED
      BY <2>1, <2>3, <2>4, <2>5
  <1>6. ASSUME NEW c \in PgCalls, SetDone(c) PROVE PgInv'
    <2>1. PgTypeOK'
      BY <1>6 DEF SetDone, PgTypeOK
    <2>2. Borrowers' = Borrowers
      BY <1>6 DEF SetDone, PgTypeOK, Borrowers
    <2>3. LoansAreExact'
      BY <1>6, <2>2 DEF SetDone, LoansAreExact
    <2>4. /\ client[c] \in Clients \cap out
          /\ \A d \in PgCalls : stage[d] \in Lent /\ d # c
                                => client[d] # client[c]
      BY <1>6, Lending DEF SetDone
    <2>5. (SessionsAreClean /\ TimeoutIsOwn)'
      BY <1>6, <2>4 DEF SetDone, PgTypeOK, SessionsAreClean, TimeoutIsOwn
    <2>6. ResidueIsKnown'
      BY <1>6 DEF SetDone, PgTypeOK, SessionsAreClean, ResidueIsKnown
    <2>7. (RestingAreClean /\ IdleIsNotLent)'
      BY <1>6, <2>4 DEF SetDone, PgTypeOK, RestingAreClean, IdleIsNotLent
    <2>8. AloneIsAlone'
      BY <1>6 DEF SetDone, PgTypeOK, AloneIsAlone
    <2> QED
      BY <2>1, <2>3, <2>5, <2>6, <2>7, <2>8
  <1>7. ASSUME NEW c \in PgCalls, stage[c] \in {"setting", "running"},
               NEW left \in SUBSET {"setting", "transaction"},
               "transaction" \in left => kind[c] = "opener" /\ stage[c] = "running",
               kind[c] # "catalogue",
               Cleanup(c, left)
        PROVE  PgInv'
    <2>2. /\ client[c] \in Clients \cap out
          /\ \A d \in PgCalls : stage[d] \in Lent /\ d # c
                                => client[d] # client[c]
      BY <1>7, Lending
    <2>1. PgTypeOK'
      <3>1. residue' \in [Clients -> SUBSET {"setting", "transaction"}]
        BY <1>7, <2>2 DEF Cleanup, PgTypeOK
      <3>2. stage' \in [PgCalls -> {"none", "waiting", "done"} \cup Lent]
        BY <1>7 DEF Cleanup, PgTypeOK
      <3>3. idle' \subseteq Clients /\ out' \subseteq Clients
        BY <1>7, <2>2 DEF Cleanup, GiveBack, PgTypeOK
      <3> QED
        BY <1>7, <3>1, <3>2, <3>3 DEF Cleanup, PgTypeOK
    <2>3. LoansAreExact'
      <3>1. CASE aborted
        <4>1. Borrowers' = Borrowers \ {c}
          BY <1>7, <3>1 DEF Cleanup, PgTypeOK, Borrowers
        <4> QED
          BY <1>7, <2>2, <3>1, <4>1 DEF Cleanup, GiveBack, LoansAreExact, Borrowers
      <3>2. CASE ~aborted
        <4>1. Borrowers' = Borrowers
          BY <1>7, <3>2 DEF Cleanup, PgTypeOK, Borrowers
        <4> QED
          BY <1>7, <3>2, <4>1 DEF Cleanup, LoansAreExact
      <3> QED
        BY <3>1, <3>2
    <2>4. (SessionsAreClean /\ TimeoutIsOwn)'
      BY <1>7, <2>2 DEF Cleanup, PgTypeOK, SessionsAreClean, TimeoutIsOwn
    <2>5. ResidueIsKnown'
      BY <1>7, <2>2 DEF Cleanup, PgTypeOK, SessionsAreClean, ResidueIsKnown
    <2>6. RestingAreClean'
      <3>1. CASE aborted
        <4>1. stage'[c] = "done" /\ aborted'
          BY <1>7, <3>1 DEF Cleanup, PgTypeOK
        <4> QED
          BY <1>7, <3>1, <4>1 DEF Cleanup, GiveBack, PgTypeOK, RestingAreClean
      <3>2. CASE ~aborted
        BY <1>7, <2>2, <3>2 DEF Cleanup, PgTypeOK, RestingAreClean
      <3> QED
        BY <3>1, <3>2
    <2>7. (AloneIsAlone /\ IdleIsNotLent)'
      BY <1>7 DEF Cleanup, GiveBack, PgTypeOK, AloneIsAlone, IdleIsNotLent
    <2> QED
      BY <2>1, <2>3, <2>4, <2>5, <2>6, <2>7
  <1>8. ASSUME NEW c \in PgCalls, SetFails(c) PROVE PgInv'
    BY <1>7, <1>8 DEF SetFails
  <1>9. ASSUME NEW c \in PgCalls, StatementEnds(c) PROVE PgInv'
    <2> PICK left \in SUBSET (IF kind[c] = "opener"
                              THEN {"setting", "transaction"} ELSE {"setting"}) : Cleanup(c, left)
      BY <1>9 DEF StatementEnds
    <2> QED
      BY <1>7, <1>9 DEF StatementEnds
  <1>10. ASSUME NEW c \in PgCalls, RolledBack(c) PROVE PgInv'
    <2>1. PgTypeOK'
      BY <1>10 DEF RolledBack, PgTypeOK
    <2>2. Borrowers' = Borrowers
      BY <1>10 DEF RolledBack, PgTypeOK, Borrowers
    <2>3. LoansAreExact'
      BY <1>10, <2>2 DEF RolledBack, LoansAreExact
    <2>4. /\ client[c] \in Clients \cap out
          /\ \A d \in PgCalls : stage[d] \in Lent /\ d # c
                                => client[d] # client[c]
      BY <1>10, Lending DEF RolledBack
    <2>5. (SessionsAreClean /\ TimeoutIsOwn)'
      BY <1>10, <2>4 DEF RolledBack, PgTypeOK, SessionsAreClean, TimeoutIsOwn
    <2>6. ResidueIsKnown'
      BY <1>10, <2>4 DEF RolledBack, PgTypeOK, ResidueIsKnown
    <2>7. (RestingAreClean /\ IdleIsNotLent /\ AloneIsAlone)'
      BY <1>10, <2>4 DEF RolledBack, PgTypeOK, RestingAreClean, AloneIsAlone,
                        IdleIsNotLent
    <2> QED
      BY <2>1, <2>3, <2>5, <2>6, <2>7
  <1>11. ASSUME NEW c \in PgCalls, stage[c] \in Lent,
               stage' = [stage EXCEPT ![c] = "done"],
               out' = out \ {client[c]},
               idle' \in {idle, idle \cup {client[c]}},
               \A s \in Clients : s # client[c] =>
                   limit'[s] = limit[s] /\ residue'[s] = residue[s],
               limit' \in [Clients -> PgCalls \cup {NoClient}],
               residue' \in [Clients -> SUBSET {"setting", "transaction"}],
               residue'[client[c]] = {},
               UNCHANGED <<pool, aborted, shared, client, kind, tracked,
                           asked, closing>>
        PROVE  PgInv'
    <2>1. /\ client[c] \in Clients \cap out
          /\ \A d \in PgCalls : stage[d] \in Lent /\ d # c
                                => client[d] # client[c]
      BY <1>11, Lending
    <2>2. PgTypeOK'
      BY <1>11, <2>1 DEF PgTypeOK
    <2>3. Borrowers' = Borrowers \ {c} /\ c \in Borrowers
      BY <1>11 DEF PgTypeOK, Borrowers
    <2>4. LoansAreExact'
      BY <1>11, <2>1, <2>3 DEF LoansAreExact, Borrowers
    <2>5. (SessionsAreClean /\ TimeoutIsOwn /\ ResidueIsKnown)'
      <3>1. \A d \in PgCalls : stage'[d] \in Lent =>
              /\ d # c /\ stage'[d] = stage[d]
              /\ client'[d] = client[d] /\ client[d] \in Clients
              /\ client[d] # client[c]
        BY <1>11, <2>1, Lending DEF PgTypeOK
      <3>2. \A d \in PgCalls : stage'[d] \in Lent =>
              /\ limit'[client'[d]] = limit[client[d]]
              /\ residue'[client'[d]] = residue[client[d]]
        BY <1>11, <3>1
      <3>3. SessionsAreClean'
        BY <3>1, <3>2 DEF SessionsAreClean
      <3>4. TimeoutIsOwn'
        BY <3>1, <3>2 DEF TimeoutIsOwn
      <3>5. ResidueIsKnown'
        BY <3>1, <3>2 DEF ResidueIsKnown
      <3> QED
        BY <3>3, <3>4, <3>5
    <2>6. RestingAreClean'
      BY <1>11, <2>1 DEF PgTypeOK, RestingAreClean
    <2>7. (AloneIsAlone /\ IdleIsNotLent)'
      BY <1>11 DEF PgTypeOK, AloneIsAlone, IdleIsNotLent
    <2> QED
      BY <2>2, <2>4, <2>5, <2>6, <2>7
  <1>12. ASSUME NEW c \in PgCalls, ResetDone(c) PROVE PgInv'
    <2>1. client[c] \in Clients
      BY <1>12, Lending DEF ResetDone
    <2>2. residue[client[c]] \ {"setting"} = {}
      BY <1>12, <2>1 DEF ResetDone, PgTypeOK, ResidueIsKnown
    <2>3. residue'[client[c]] = {}
      BY <1>12, <2>1, <2>2 DEF ResetDone, PgTypeOK
    <2> QED
      BY <1>11, <1>12, <2>1, <2>3 DEF ResetDone, GiveBack, PgTypeOK
  <1>13. ASSUME NEW c \in PgCalls, CleanFails(c) PROVE PgInv'
    <2>1. client[c] \in Clients
      BY <1>13, Lending DEF CleanFails
    <2>2. residue'[client[c]] = {}
      BY <1>13, <2>1 DEF CleanFails, Forget, PgTypeOK
    <2> QED
      BY <1>11, <1>13, <2>1, <2>2 DEF CleanFails, Forget, PgTypeOK
  <1>14. ASSUME NEW c \in PgCalls, DescribeEnds(c) PROVE PgInv'
    <2>1. client[c] \in Clients
      BY <1>14, Lending DEF DescribeEnds
    <2>2. residue[client[c]] = {}
      BY <1>14 DEF DescribeEnds, SessionsAreClean, ResidueIsKnown
    <2> QED
      BY <1>11, <1>14, <2>1, <2>2 DEF DescribeEnds, GiveBack, PgTypeOK
  <1>15. ASSUME UNCHANGED <<shared, stage, client, kind, out>>,
                pool' = "ended",
                idle' = {},
                limit' \in [Clients -> PgCalls \cup {NoClient}],
                residue' \in [Clients -> SUBSET {"setting", "transaction"}],
                \A s \in out : limit'[s] = limit[s] /\ residue'[s] = residue[s],
                PgTypeOK'
         PROVE  PgInv'
    <2>1. \A c \in PgCalls : stage[c] \in Lent => client[c] \in out
      BY Lending
    <2>2. Borrowers' = Borrowers
      BY <1>15 DEF Borrowers
    <2>3. LoansAreExact'
      BY <1>15, <2>2 DEF LoansAreExact
    <2>4. (SessionsAreClean /\ TimeoutIsOwn /\ ResidueIsKnown)'
      BY <1>15, <2>1 DEF SessionsAreClean, TimeoutIsOwn, ResidueIsKnown
    <2>5. (RestingAreClean /\ AloneIsAlone)'
      BY <1>15 DEF RestingAreClean, AloneIsAlone
    <2>6. IdleIsNotLent'
      BY <1>15 DEF IdleIsNotLent
    <2> QED
      BY <1>15, <2>3, <2>4, <2>5, <2>6
  <1>16. ASSUME End, UNCHANGED out
         PROVE  /\ pool' = "ended" /\ idle' = {} /\ tracked' = {}
                /\ limit' \in [Clients -> PgCalls \cup {NoClient}]
                /\ residue' \in [Clients -> SUBSET {"setting", "transaction"}]
                /\ \A s \in out : limit'[s] = limit[s] /\ residue'[s] = residue[s]
    BY <1>16 DEF End, Forget, PgTypeOK, IdleIsNotLent
  <1>17. ASSUME Abandon PROVE PgInv'
    <2>1. End /\ UNCHANGED out
      BY <1>17 DEF Abandon
    <2>2. asked' \subseteq PgCalls
      BY <1>17 DEF Abandon, Abort, PgTypeOK
    <2>3. PgTypeOK'
      BY <1>16, <1>17, <2>1, <2>2 DEF Abandon, Abort, PgTypeOK
    <2> QED
      BY <1>15, <1>16, <1>17, <2>1, <2>3 DEF Abandon
  <1>18. ASSUME Close PROVE PgInv'
    <2>1. End /\ UNCHANGED out
      BY <1>18 DEF Close
    <2>2. PgTypeOK'
      BY <1>16, <1>18, <2>1 DEF Close, PgTypeOK
    <2> QED
      BY <1>15, <1>16, <1>18, <2>1, <2>2 DEF Close
  <1>19. ASSUME UNCHANGED <<pool, shared, stage, client, kind, idle, out, limit,
                            residue>>,
                \/ aborted' = aborted
                \/ aborted' /\ (pool = "ended" \/ ~shared),
                PgTypeOK'
         PROVE  PgInv'
    <2>1. Borrowers' = Borrowers
      BY <1>19 DEF Borrowers
    <2>2. (LoansAreExact /\ IdleIsNotLent)'
      BY <1>19, <2>1 DEF LoansAreExact, IdleIsNotLent
    <2>3. (SessionsAreClean /\ TimeoutIsOwn /\ ResidueIsKnown /\ AloneIsAlone)'
      BY <1>19 DEF SessionsAreClean, TimeoutIsOwn, ResidueIsKnown, AloneIsAlone
    <2>4. RestingAreClean'
      BY <1>19 DEF RestingAreClean
    <2> QED
      BY <1>19, <2>2, <2>3, <2>4
  <1>20. CASE AbortOnly
    <2>1. PgTypeOK'
      BY <1>20 DEF AbortOnly, Abort, PgTypeOK
    <2> QED
      BY <1>19, <1>20, <2>1 DEF AbortOnly, Abort
  <1>21. CASE PoolEnded
    <2>1. PgTypeOK'
      BY <1>21 DEF PoolEnded, PgTypeOK
    <2> QED
      BY <1>19, <1>21, <2>1 DEF PoolEnded
  <1>22. CASE UNCHANGED pgVars
    <2>1. PgTypeOK'
      BY <1>22 DEF pgVars, PgTypeOK
    <2> QED
      BY <1>19, <1>22, <2>1 DEF pgVars
  <1> QED
    BY <1>2, <1>3, <1>4, <1>5, <1>6, <1>8, <1>9, <1>10,
       <1>12, <1>13, <1>14, <1>17, <1>18, <1>20, <1>21, <1>22
    DEF PgNext, PgCall

\* PgInv holds in every state of every behaviour.
THEOREM PgInvCorrect == PgSpec => []PgInv
  BY PgBase, PgStep, PTL DEF PgSpec

\* Every variable keeps its type.
THEOREM PgTypeCorrect == PgSpec => []PgTypeOK
  <1>1. PgInv => PgTypeOK
    BY DEF PgInv
  <1> QED
    BY <1>1, PgInvCorrect, PTL

\* execute() and releaseClean(): a session is handed on with nothing the statements
\* before it left, whatever failed or was aborted meanwhile.
THEOREM SessionsAreCleanCorrect == PgSpec => []SessionsAreClean
  <1>1. PgInv => SessionsAreClean
    BY DEF PgInv
  <1> QED
    BY <1>1, PgInvCorrect, PTL

\* execute() and run(): a statement runs under the statement_timeout of its own call.
THEOREM TimeoutIsOwnCorrect == PgSpec => []TimeoutIsOwn
  <1>1. PgInv => TimeoutIsOwn
    BY DEF PgInv
  <1> QED
    BY <1>1, PgInvCorrect, PTL

\* The finally of execute() and of run(): every session borrowed is given back or destroyed, once.
THEOREM LoansAreExactCorrect == PgSpec => []LoansAreExact
  <1>1. PgInv => LoansAreExact
    BY DEF PgInv
  <1> QED
    BY <1>1, PgInvCorrect, PTL

-----------------------------------------------------------------------------
(* MySQL: the sockets *)

\* The calls that have a socket of their own.
Holding(c) == phase[c] \in {"dialing", "running"}

\* A socket in use is lent to one call: one that runs has an open socket that nobody else has
\* and the pool does not offer, one that dials has a socket that is not open yet.
SocketsAreLentOnce ==
    /\ \A c \in MyCalls : phase[c] = "running" => conn[c] \in up \ free
    /\ \A c \in MyCalls : phase[c] = "dialing" => conn[c] \in Sockets \ up
    /\ \A c, d \in MyCalls : (Holding(c) /\ Holding(d) /\ conn[c] = conn[d]) => c = d

\* An abort leaves an open pool no socket to lend.
AbortedIsEmpty == (myAborted /\ myPool = "open") => up = {}

MyInv == MyTypeOK /\ SocketsAreKnown /\ SocketsAreLentOnce /\ AbortedIsEmpty

LEMMA ExecuteStep ==
  ASSUME MyInv, NEW c \in MyCalls, MyExecute(c) \/ DialFails(c)
  PROVE  MyInv'
  BY DEF MyInv, MyTypeOK, SocketsAreKnown, SocketsAreLentOnce, Holding, AbortedIsEmpty, MyExecute,
     DialFails

LEMMA TakeStep ==
  ASSUME MyInv, NEW c \in MyCalls, Take(c)
  PROVE  MyInv'
  BY DEF MyInv, MyTypeOK, SocketsAreKnown, SocketsAreLentOnce, Holding, AbortedIsEmpty, Take

LEMMA DialStep ==
  ASSUME MyInv, NEW c \in MyCalls, Dial(c)
  PROVE  MyInv'
  BY DEF MyInv, MyTypeOK, SocketsAreKnown, SocketsAreLentOnce, Holding, AbortedIsEmpty, Dial, Dialed

LEMMA DialUpStep ==
  ASSUME MyInv, NEW c \in MyCalls, DialUp(c)
  PROVE  MyInv'
  BY DEF MyInv, MyTypeOK, SocketsAreKnown, SocketsAreLentOnce, Holding, AbortedIsEmpty, DialUp

LEMMA EndsStep ==
  ASSUME MyInv, NEW c \in MyCalls, MyEnds(c)
  PROVE  MyInv'
  BY DEF MyInv, MyTypeOK, SocketsAreKnown, SocketsAreLentOnce, Holding, AbortedIsEmpty, MyEnds

\* Sockets that are lost take their calls with them, and no other.
LEMMA LoseKeepsLoans ==
  ASSUME MyInv, NEW S \in SUBSET Sockets, conn' = conn, up' = up \ S, free' \subseteq free \ S,
         phase' = Failed(S)
  PROVE  /\ phase' \in [MyCalls -> {"none", "queued", "dialing", "running", "done"}]
         /\ up' \subseteq Sockets /\ free' \subseteq up' /\ SocketsAreLentOnce'
<1>1. \A c \in MyCalls : /\ phase'[c] = "running" => phase[c] = "running" /\ conn[c] \notin S
                         /\ phase'[c] = "dialing" => phase[c] = "dialing"
  BY DEF Failed, MyInv, MyTypeOK
<1>2. phase' \in [MyCalls -> {"none", "queued", "dialing", "running", "done"}]
  BY DEF Failed, MyInv, MyTypeOK
<1>3. SocketsAreLentOnce'
  BY <1>1 DEF MyInv, MyTypeOK, SocketsAreLentOnce, Holding
<1> QED BY <1>2, <1>3 DEF MyInv, MyTypeOK

LEMMA LossStep ==
  ASSUME MyInv, (\E s \in Sockets : SocketLost(s)) \/ MyAbandon \/ MyClose \/ MyAbortOnly
  PROVE  MyInv'
<1> USE DEF MyInv, MyTypeOK, SocketsAreKnown, AbortedIsEmpty
<1>1. ASSUME NEW s \in Sockets, SocketLost(s) PROVE MyInv'
  BY <1>1, LoseKeepsLoans DEF SocketLost, Lose
<1>2. CASE MyAbandon
  <2>1. phase' = Failed(sockets \cup free) /\ up' = up \ (sockets \cup free)
    BY <1>2 DEF MyAbandon, Failed
  <2> QED BY <1>2, <2>1, LoseKeepsLoans DEF MyAbandon
<1>3. CASE MyClose
  BY <1>3, LoseKeepsLoans DEF MyClose, Lose
<1>4. CASE MyAbortOnly
  BY <1>4, LoseKeepsLoans DEF MyAbortOnly, Lose
<1> QED BY <1>1, <1>2, <1>3, <1>4

LEMMA MyStep == MyInv /\ [MyNext]_myVars => MyInv'
<1> SUFFICES ASSUME MyInv, [MyNext]_myVars PROVE MyInv'
  OBVIOUS
<1>1. CASE UNCHANGED myVars
  BY <1>1 DEF MyInv, MyTypeOK, SocketsAreKnown, SocketsAreLentOnce, Holding, AbortedIsEmpty, myVars
<1> QED BY <1>1, ExecuteStep, TakeStep, DialStep, DialUpStep, EndsStep, LossStep DEF MyNext

LEMMA MyBegins == MyInit => MyInv
  BY DEF MyInit, MyInv, MyTypeOK, SocketsAreKnown, SocketsAreLentOnce, Holding, AbortedIsEmpty

LEMMA MyInvariant == MySpec => []MyInv
  BY MyBegins, MyStep, PTL DEF MySpec

\* An open pool's sockets are those the adapter knows (the 'connection' listener of mysql.js),
\* for any number of calls and sockets: abort() reaches every statement, and the set does not
\* keep what has ended.
THEOREM SocketsAreKnownCorrect == MySpec => []SocketsAreKnown
<1>1. MyInv => SocketsAreKnown
  BY DEF MyInv
<1> QED BY <1>1, MyInvariant, PTL

\* No socket is lent twice, and none that is lent waits in the pool as well.
THEOREM SocketsAreLentOnceCorrect == MySpec => []SocketsAreLentOnce
<1>1. MyInv => SocketsAreLentOnce
  BY DEF MyInv
<1> QED BY <1>1, MyInvariant, PTL

\* An aborted adapter starts no statement: of what it could be sent on, the sockets that were
\* open are gone and the one being dialed is destroyed by the listener (connect(), mysql.js).
THEOREM NothingStartsAbortedCorrect == MySpec => MyNothingStartsAborted
<1> DEFINE A == \A c \in MyCalls : phase[c] # "running" /\ phase'[c] = "running" => ~myAborted
<1>1. MyInv /\ [MyNext]_myVars => [A]_myVars
  <2> SUFFICES ASSUME MyInv, MyNext, NEW c \in MyCalls,
                      phase[c] # "running", phase'[c] = "running"
               PROVE  ~myAborted
    OBVIOUS
  <2>1. ASSUME NEW d \in MyCalls, MyExecute(d) \/ Dial(d) \/ DialFails(d) \/ MyEnds(d) PROVE FALSE
    BY <2>1 DEF MyExecute, Dial, DialFails, MyEnds, MyInv, MyTypeOK
  <2>2. ASSUME (\E s \in Sockets : SocketLost(s)) \/ MyAbandon \/ MyClose \/ MyAbortOnly PROVE FALSE
    BY <2>2 DEF SocketLost, MyAbandon, MyClose, MyAbortOnly, Lose, Failed, MyInv, MyTypeOK
  <2>3. ASSUME NEW d \in MyCalls, Take(d) PROVE ~myAborted
    BY <2>3 DEF Take, MyInv, MyTypeOK, AbortedIsEmpty
  <2>4. ASSUME NEW d \in MyCalls, DialUp(d) PROVE ~myAborted
    BY <2>4 DEF DialUp, MyInv, MyTypeOK
  <2> QED BY <2>1, <2>2, <2>3, <2>4 DEF MyNext
<1> QED BY <1>1, MyInvariant, PTL DEF MySpec, MyNothingStartsAborted

-----------------------------------------------------------------------------
(* SQLite: the handle and those who wait for it *)

\* A finished handle is latched as faulted for as long as the adapter has one: close() takes
\* the latch back, and the handle with it.
LatchHolds == fatal => faulted \/ ~db

LiteInv == LiteTypeOK /\ ListedIsWaiting /\ LatchHolds

\* The list of rejectors is used and taken back as a whole, or call by call.
LEMMA RejectTakesBack ==
  ASSUME LiteTypeOK, ListedIsWaiting, NEW C \in SUBSET LiteCalls,
         promise' = Reject(C), inFlight' = inFlight \ C, driver' = driver
  PROVE  /\ promise' \in [LiteCalls -> {"none", "waiting", "settled"}]
         /\ inFlight' \subseteq {c \in LiteCalls : driver'[c] # "none"}
         /\ ListedIsWaiting'
<1>1. \A c \in LiteCalls : promise'[c] = IF c \in C THEN "settled" ELSE promise[c]
  BY DEF Reject
<1>2. promise' \in [LiteCalls -> {"none", "waiting", "settled"}]
  BY DEF Reject, LiteTypeOK
<1>3. inFlight' = {c \in LiteCalls : promise'[c] = "waiting"}
  BY <1>1 DEF ListedIsWaiting
<1> QED BY <1>2, <1>3 DEF LiteTypeOK, ListedIsWaiting

LEMMA OpenStep ==
  ASSUME LiteInv, OpenSucceeds \/ OpenFails \/ OpenGuard \/ Interrupt \/ CloseTimer \/ FileClosed
  PROVE  LiteInv'
<1>1. callVars' = callVars
  BY DEF OpenSucceeds, OpenFails, OpenGuard, Interrupt, CloseTimer, FileClosed
<1>2. LiteTypeOK'
  <2> USE <1>1 DEF LiteInv, LiteTypeOK, openVars, callVars
  <2>1. CASE OpenSucceeds
    BY <2>1 DEF OpenSucceeds, Settle
  <2>2. CASE OpenFails
    BY <2>2 DEF OpenFails, Settle, RecordFault
  <2>3. CASE OpenGuard \/ Interrupt
    BY <2>3 DEF OpenGuard, Interrupt
  <2>4. CASE CloseTimer \/ FileClosed
    BY <2>4 DEF CloseTimer, FileClosed
  <2> QED BY <2>1, <2>2, <2>3, <2>4
<1>3. ListedIsWaiting'
  BY <1>1 DEF LiteInv, ListedIsWaiting, callVars
<1>4. LatchHolds'
  BY DEF LiteInv, LatchHolds, OpenSucceeds, OpenFails, OpenGuard, Interrupt, CloseTimer,
     FileClosed, RecordFault
<1> QED BY <1>2, <1>3, <1>4 DEF LiteInv

LEMMA ErrorEventStep ==
  ASSUME LiteInv, ErrorEvent
  PROVE  LiteInv'
<1>1. inFlight \in SUBSET LiteCalls /\ inFlight \ inFlight = {}
  BY DEF LiteInv, LiteTypeOK
<1>2. /\ promise' \in [LiteCalls -> {"none", "waiting", "settled"}]
      /\ inFlight' \subseteq {c \in LiteCalls : driver'[c] # "none"}
      /\ ListedIsWaiting'
  BY <1>1, RejectTakesBack DEF LiteInv, ErrorEvent
<1>3. LiteTypeOK'
  BY <1>2 DEF LiteInv, LiteTypeOK, ErrorEvent, Settle, RecordFault
<1>4. LatchHolds'
  BY DEF LiteInv, LatchHolds, ErrorEvent, RecordFault
<1> QED BY <1>2, <1>3, <1>4 DEF LiteInv

LEMMA RunStep ==
  ASSUME LiteInv, NEW c \in LiteCalls, Run(c)
  PROVE  LiteInv'
<1>1. LatchHolds'
  BY DEF LiteInv, LatchHolds, Run
<1>2. CASE db
  <2>1. /\ promise' = [promise EXCEPT ![c] = "waiting"]
        /\ driver' = [driver EXCEPT ![c] = "running"]
        /\ inFlight' = inFlight \cup {c}
    BY <1>2 DEF Run, Listed
  <2>2. LiteTypeOK'
    BY <2>1 DEF LiteInv, LiteTypeOK, Run, openVars
  <2>3. \A d \in LiteCalls : promise'[d] = IF d = c THEN "waiting" ELSE promise[d]
    BY <2>1 DEF LiteInv, LiteTypeOK
  <2>4. ListedIsWaiting'
    BY <2>1, <2>3 DEF LiteInv, ListedIsWaiting
  <2> QED BY <1>1, <2>2, <2>4 DEF LiteInv
<1>3. CASE ~db
  <2>1. promise' = [promise EXCEPT ![c] = "settled"] /\ driver' = driver /\ inFlight' = inFlight
    BY <1>3 DEF Run
  <2>2. LiteTypeOK'
    BY <2>1 DEF LiteInv, LiteTypeOK, Run, openVars
  <2>3. promise[c] = "none" /\ \A d \in LiteCalls : promise'[d] = IF d = c THEN "settled" ELSE promise[d]
    BY <2>1 DEF LiteInv, LiteTypeOK, Run
  <2>4. ListedIsWaiting'
    BY <2>1, <2>3 DEF LiteInv, ListedIsWaiting
  <2> QED BY <1>1, <2>2, <2>4 DEF LiteInv
<1> QED BY <1>2, <1>3

LEMMA CallbackStep ==
  ASSUME LiteInv, NEW c \in LiteCalls, Callback(c)
  PROVE  LiteInv'
<1>1. \A d \in LiteCalls : promise'[d] = IF d = c THEN "settled" ELSE promise[d]
  BY DEF Callback, Reject
<1>2. ListedIsWaiting'
  BY <1>1 DEF LiteInv, ListedIsWaiting, Callback
<1>3. promise' \in [LiteCalls -> {"none", "waiting", "settled"}]
  BY DEF LiteInv, LiteTypeOK, Callback, Reject
<1>4. driver' \in [LiteCalls -> {"none", "running", "over"}]
      /\ inFlight' \subseteq {d \in LiteCalls : driver'[d] # "none"}
  BY DEF LiteInv, LiteTypeOK, Callback
<1>5. LiteTypeOK'
  BY <1>3, <1>4 DEF LiteInv, LiteTypeOK, Callback, RecordFault, openVars
<1>6. LatchHolds'
  BY DEF LiteInv, LatchHolds, Callback, RecordFault
<1> QED BY <1>2, <1>5, <1>6 DEF LiteInv

LEMMA TimerStep ==
  ASSUME LiteInv, NEW c \in LiteCalls, Timer(c)
  PROVE  LiteInv'
<1>1. /\ promise' \in [LiteCalls -> {"none", "waiting", "settled"}]
      /\ inFlight' \subseteq {d \in LiteCalls : driver'[d] # "none"}
      /\ ListedIsWaiting'
  BY RejectTakesBack DEF LiteInv, Timer
<1>2. LiteTypeOK'
  BY <1>1 DEF LiteInv, LiteTypeOK, Timer, openVars
<1>3. LatchHolds'
  BY DEF LiteInv, LatchHolds, Timer
<1> QED BY <1>1, <1>2, <1>3 DEF LiteInv

LEMMA CloseStep ==
  ASSUME LiteInv, LiteClose
  PROVE  LiteInv'
<1>1. inFlight \in SUBSET LiteCalls /\ inFlight \ inFlight = {}
  BY DEF LiteInv, LiteTypeOK
<1>2. /\ promise' \in [LiteCalls -> {"none", "waiting", "settled"}]
      /\ inFlight' \subseteq {c \in LiteCalls : driver'[c] # "none"}
      /\ ListedIsWaiting'
  BY <1>1, RejectTakesBack DEF LiteInv, LiteClose
<1>3. LiteTypeOK'
  BY <1>2 DEF LiteInv, LiteTypeOK, LiteClose, openVars
<1>4. LatchHolds'
  BY DEF LatchHolds, LiteClose
<1> QED BY <1>2, <1>3, <1>4 DEF LiteInv

LEMMA LiteStep == LiteInv /\ [LiteNext]_liteVars => LiteInv'
<1> SUFFICES ASSUME LiteInv, [LiteNext]_liteVars PROVE LiteInv'
  OBVIOUS
<1>1. CASE UNCHANGED liteVars
  BY <1>1 DEF LiteInv, LiteTypeOK, ListedIsWaiting, LatchHolds, liteVars, openVars, callVars
<1>2. CASE LiteNext
  BY <1>2, OpenStep, ErrorEventStep, RunStep, CallbackStep, TimerStep, CloseStep DEF LiteNext
<1> QED BY <1>1, <1>2

LEMMA LiteInvariant == LiteSpec => []LiteInv
<1>1. LiteInit => LiteInv
  BY DEF LiteInit, LiteInv, LiteTypeOK, ListedIsWaiting, LatchHolds
<1> QED BY <1>1, LiteStep, PTL DEF LiteSpec

\* The handle, the list of rejectors and the promises have their types.
THEOREM LiteTypeCorrect == LiteSpec => []LiteTypeOK
  BY LiteInvariant, PTL DEF LiteInv

\* Every statement that waits has its own rejector in the list, and no other has (run() and
\* the 'error' event of sqlite.js); a handle the adapter was told is finished is never called
\* healthy again (recordFault(), isHealthy()), through close() and whatever the driver reports
\* later: for any number of statements on the handle.
THEOREM ListsAndFaultsCorrect == LiteSpec => []SQLiteListsAndFaults
<1>1. LiteInv => SQLiteListsAndFaults
  BY DEF LiteInv, LatchHolds, FaultyIsUnhealthy, LooksHealthy, SQLiteListsAndFaults
<1> QED BY <1>1, LiteInvariant, PTL

-----------------------------------------------------------------------------
(* MongoDB: the documents of a page *)

\* The documents between the two ends of a request's window are those it asks for.  (An
\* aggregation with a limit and an offset asks for another page: see ReadsThePage.)
IsPage(request) == ~(request.action = "aggregate" /\ request.limit > 0 /\ request.offset > 0)

LEMMA WindowIsPage ==
  ASSUME NEW request \in MongoRequests
  PROVE  LET w == Window(request)
         IN  /\ w.at \in 0 .. Documents /\ w.end \in 0 .. Documents /\ w.at <= w.end
             /\ IsPage(request) => w.end - w.at = Asked(request)
             /\ IsPage(request) /\ w.at < w.end => w.at = request.offset
  BY MongoAssumption, MongoRequestsAssumption
     DEF Window, IsPage, Asked, FindLimit, Capped, Least

\* Where the cursor of a read stands.  It has handed out the first documents of the window, in
\* order and not more than the cap.
Position(r) ==
    LET w == Window(r.request)
        cap == r.request.maxRows
    IN  /\ r.request \in MongoRequests
        /\ r.end = w.end
        /\ r.rows \in Seq(Nat)
        /\ \A i \in DOMAIN r.rows : r.rows[i] = w.at + i
        /\ w.at + Len(r.rows) <= w.end
        /\ cap > 0 => Len(r.rows) <= cap
        /\ r.at \in 0 .. Documents

\* ... and before it is closed the cap has left a document out, or none is left.
Whole(r) ==
    LET w == Window(r.request)
        cap == r.request.maxRows
        size == w.end - w.at
    IN  IF r.truncated THEN cap > 0 /\ Len(r.rows) = cap /\ cap < size
        ELSE Len(r.rows) = size

MongoPhases == {"none", "reading", "closing", "throwing", "done", "failed", "answered"}
MongoReads == [phase : MongoPhases, request : MongoRequests \cup {NoRequest},
               at : 0 .. Documents, end : 0 .. Documents,
               rows : Seq(Nat), truncated : BOOLEAN, cursor : BOOLEAN]

ReadInv(r) ==
    /\ r \in MongoReads
    /\ r.phase = "none" => r = NoRead
    /\ r.phase \in {"reading", "closing", "done"} => Position(r)
    /\ r.phase = "reading" => ~r.truncated /\ r.at = Window(r.request).at + Len(r.rows)
    /\ r.phase \in {"closing", "done"} => Whole(r)
    /\ r.phase \in {"done", "failed"} => ~r.cursor

MongoInv ==
    /\ mclient \in {"none", "held"}
    /\ topology \in {"new", "connecting", "open", "closed"}
    /\ pinned \in BOOLEAN
    /\ DOMAIN read = MongoCalls
    /\ \A c \in MongoCalls : ReadInv(read[c])

\* Setting one field of a read.
LEMMA SetReadPhase ==
  ASSUME NEW r \in MongoReads, NEW v \in MongoPhases
  PROVE  LET s == [r EXCEPT !.phase = v]
         IN  /\ s \in MongoReads /\ s.phase = v
             /\ s.request = r.request /\ s.at = r.at /\ s.end = r.end
             /\ s.rows = r.rows /\ s.truncated = r.truncated /\ s.cursor = r.cursor
  BY DEF MongoReads

LEMMA SetReadRequest ==
  ASSUME NEW r \in MongoReads, NEW v \in MongoRequests
  PROVE  LET s == [r EXCEPT !.request = v]
         IN  /\ s \in MongoReads /\ s.request = v
             /\ s.phase = r.phase /\ s.at = r.at /\ s.end = r.end
             /\ s.rows = r.rows /\ s.truncated = r.truncated /\ s.cursor = r.cursor
  BY DEF MongoReads

LEMMA SetReadAt ==
  ASSUME NEW r \in MongoReads, NEW v \in 0 .. Documents
  PROVE  LET s == [r EXCEPT !.at = v]
         IN  /\ s \in MongoReads /\ s.at = v
             /\ s.phase = r.phase /\ s.request = r.request /\ s.end = r.end
             /\ s.rows = r.rows /\ s.truncated = r.truncated /\ s.cursor = r.cursor
  BY DEF MongoReads

LEMMA SetReadEnd ==
  ASSUME NEW r \in MongoReads, NEW v \in 0 .. Documents
  PROVE  LET s == [r EXCEPT !.end = v]
         IN  /\ s \in MongoReads /\ s.end = v
             /\ s.phase = r.phase /\ s.request = r.request /\ s.at = r.at
             /\ s.rows = r.rows /\ s.truncated = r.truncated /\ s.cursor = r.cursor
  BY DEF MongoReads

LEMMA SetReadRows ==
  ASSUME NEW r \in MongoReads, NEW v \in Seq(Nat)
  PROVE  LET s == [r EXCEPT !.rows = v]
         IN  /\ s \in MongoReads /\ s.rows = v
             /\ s.phase = r.phase /\ s.request = r.request /\ s.at = r.at
             /\ s.end = r.end /\ s.truncated = r.truncated /\ s.cursor = r.cursor
  BY DEF MongoReads

LEMMA SetReadTruncated ==
  ASSUME NEW r \in MongoReads, NEW v \in BOOLEAN
  PROVE  LET s == [r EXCEPT !.truncated = v]
         IN  /\ s \in MongoReads /\ s.truncated = v
             /\ s.phase = r.phase /\ s.request = r.request /\ s.at = r.at
             /\ s.end = r.end /\ s.rows = r.rows /\ s.cursor = r.cursor
  BY DEF MongoReads

LEMMA SetReadCursor ==
  ASSUME NEW r \in MongoReads, NEW v \in BOOLEAN
  PROVE  LET s == [r EXCEPT !.cursor = v]
         IN  /\ s \in MongoReads /\ s.cursor = v
             /\ s.phase = r.phase /\ s.request = r.request /\ s.at = r.at
             /\ s.end = r.end /\ s.rows = r.rows /\ s.truncated = r.truncated
  BY DEF MongoReads

LEMMA OneReadChanges ==
  ASSUME MongoInv, NEW c \in MongoCalls, NEW r, ReadInv(r), read' = [read EXCEPT ![c] = r],
         UNCHANGED <<mclient, topology, pinned>>
  PROVE  MongoInv'
  BY DEF MongoInv

LEMMA NoReadIsRead == NoRead \in MongoReads /\ ReadInv(NoRead)
<1>1. /\ NoRead.phase = "none" /\ NoRead.request = NoRequest /\ NoRead.at = 0 /\ NoRead.end = 0
      /\ NoRead.rows = <<>> /\ NoRead.truncated = FALSE /\ NoRead.cursor = FALSE
  BY DEF NoRead
<1>2. NoRead \in MongoReads
  BY MongoAssumption DEF NoRead, MongoReads, MongoPhases
<1> QED BY <1>1, <1>2 DEF ReadInv

LEMMA MongoExecuteReads ==
  ASSUME MongoInv, NEW c \in MongoCalls, NEW request \in MongoRequests, MongoExecute(c, request)
  PROVE  MongoInv'
<1> DEFINE w == Window(request)
           failed == [NoRead EXCEPT !.phase = "failed"]
           refused == [failed EXCEPT !.request = request]
           r1 == [NoRead EXCEPT !.phase = "reading"]
           r2 == [r1 EXCEPT !.request = request]
           r3 == [r2 EXCEPT !.cursor = TRUE]
           r4 == [r3 EXCEPT !.at = w.at]
           begun == [r4 EXCEPT !.end = w.end]
<1>1. read[c] = NoRead
  BY DEF MongoExecute, MongoInv, ReadInv
<1>2. /\ read' = [read EXCEPT ![c] = IF ~request.valid \/ ~pinned THEN refused ELSE begun]
      /\ UNCHANGED <<mclient, topology, pinned>>
  BY <1>1 DEF MongoExecute
<1>3. ReadInv(refused)
  <2>1. failed \in MongoReads /\ failed.phase = "failed" /\ ~failed.cursor
    BY NoReadIsRead, SetReadPhase DEF MongoPhases, NoRead
  <2>2. refused \in MongoReads /\ refused.phase = "failed" /\ ~refused.cursor
    <3> HIDE DEF failed
    <3> QED BY <2>1, SetReadRequest
  <2> HIDE DEF refused
  <2> QED BY <2>2 DEF ReadInv
<1>4. w.at \in 0 .. Documents /\ w.end \in 0 .. Documents /\ w.at <= w.end
  BY WindowIsPage
<1>5. request.maxRows \in Nat
  BY MongoRequestsAssumption
<1>6. r1 \in MongoReads /\ r1.phase = "reading" /\ r1.rows = <<>> /\ ~r1.truncated
  BY NoReadIsRead, SetReadPhase DEF MongoPhases, NoRead
<1>7. r2 \in MongoReads /\ r2.phase = "reading" /\ r2.request = request /\ r2.rows = <<>> /\ ~r2.truncated
  <2> HIDE DEF r1
  <2> QED BY <1>6, SetReadRequest
<1>8. r3 \in MongoReads /\ r3.phase = "reading" /\ r3.request = request /\ r3.rows = <<>> /\ ~r3.truncated
  <2> HIDE DEF r2
  <2> QED BY <1>7, SetReadCursor
<1>9. /\ r4 \in MongoReads /\ r4.phase = "reading" /\ r4.request = request /\ r4.rows = <<>>
      /\ ~r4.truncated /\ r4.at = w.at
  <2> HIDE DEF r3, w
  <2> QED BY <1>4, <1>8, SetReadAt
<1>10. /\ begun \in MongoReads /\ begun.phase = "reading" /\ begun.request = request
       /\ begun.rows = <<>> /\ ~begun.truncated /\ begun.at = w.at /\ begun.end = w.end
  <2> HIDE DEF r4, w
  <2> QED BY <1>4, <1>9, SetReadEnd
<1>11. ReadInv(begun)
  <2> HIDE DEF begun
  <2> QED BY <1>4, <1>5, <1>10 DEF ReadInv, Position
<1> HIDE DEF begun, refused
<1> QED BY <1>2, <1>3, <1>11, OneReadChanges

LEMMA NextReads ==
  ASSUME MongoInv, NEW c \in MongoCalls, MongoNext(c)
  PROVE  MongoInv'
<1> DEFINE r == read[c]
           w == Window(r.request)
           cap == r.request.maxRows
           full == cap > 0 /\ Len(r.rows) = cap
           over == [r EXCEPT !.phase = "closing"]
           marked == [over EXCEPT !.truncated = TRUE]
           cut == [marked EXCEPT !.at = r.at + 1]
           extended == [r EXCEPT !.rows = Append(r.rows, r.at + 1)]
           longer == [extended EXCEPT !.at = r.at + 1]
<1>1. /\ r \in MongoReads /\ r.phase = "reading" /\ ReadInv(r) /\ Position(r) /\ ~r.truncated
      /\ r.at = w.at + Len(r.rows)
  BY DEF MongoNext, MongoInv, ReadInv
<1>2. /\ read' = [read EXCEPT ![c] = IF r.at = r.end THEN over ELSE IF full THEN cut ELSE longer]
      /\ UNCHANGED <<mclient, topology, pinned>>
  BY DEF MongoNext
<1>3. /\ w.at \in 0 .. Documents /\ w.end \in 0 .. Documents /\ cap \in Nat /\ r.end = w.end
      /\ Documents \in Nat /\ Len(r.rows) \in Nat /\ r.at <= w.end /\ r.rows \in Seq(Nat)
      /\ r.at \in Nat
  BY <1>1, WindowIsPage, MongoRequestsAssumption, MongoAssumption DEF Position
<1> HIDE DEF r
<1>4. /\ over \in MongoReads /\ over.phase = "closing" /\ over.request = r.request
      /\ over.at = r.at /\ over.end = r.end /\ over.rows = r.rows /\ over.truncated = r.truncated
  BY <1>1, SetReadPhase DEF MongoPhases
<1>5. CASE r.at = r.end
  <2>1. ReadInv(over)
    <3> HIDE DEF over
    <3> QED BY <1>1, <1>3, <1>4, <1>5 DEF ReadInv, Position, Whole
  <2> QED BY <1>2, <1>5, <2>1, OneReadChanges
<1>6. CASE r.at # r.end /\ full
  <2>1. /\ marked \in MongoReads /\ marked.phase = "closing" /\ marked.request = r.request
        /\ marked.end = r.end /\ marked.rows = r.rows /\ marked.truncated = TRUE
    <3> HIDE DEF over
    <3> QED BY <1>4, SetReadTruncated
  <2>2. r.at + 1 \in 0 .. Documents
    BY <1>1, <1>3, <1>6
  <2>3. /\ cut \in MongoReads /\ cut.phase = "closing" /\ cut.request = r.request
        /\ cut.end = r.end /\ cut.rows = r.rows /\ cut.truncated = TRUE /\ cut.at = r.at + 1
    <3> HIDE DEF marked
    <3> QED BY <2>1, <2>2, SetReadAt
  <2>4. ReadInv(cut)
    <3> HIDE DEF cut
    <3> QED BY <1>1, <1>3, <1>6, <2>2, <2>3 DEF ReadInv, Position, Whole
  <2> QED BY <1>2, <1>6, <2>4, OneReadChanges
<1>7. CASE r.at # r.end /\ ~full
  <2>1. r.at + 1 \in 0 .. Documents
    BY <1>1, <1>3, <1>7
  <2> DEFINE rows == Append(r.rows, r.at + 1)
  <2>2. /\ rows \in Seq(Nat) /\ Len(rows) = Len(r.rows) + 1
        /\ \A i \in DOMAIN rows : rows[i] = w.at + i
    <3>1. /\ rows \in Seq(Nat) /\ Len(rows) = Len(r.rows) + 1
          /\ \A i \in 1 .. Len(r.rows) : rows[i] = r.rows[i]
          /\ rows[Len(r.rows) + 1] = r.at + 1
      BY <1>3
    <3>2. \A i \in 1 .. Len(r.rows) : r.rows[i] = w.at + i
      BY <1>1, <1>3 DEF Position
    <3>3. DOMAIN rows = 1 .. Len(r.rows) + 1
      BY <3>1
    <3>4. w.at \in Nat /\ r.at = w.at + Len(r.rows)
      BY <1>1, <1>3
    <3>5. ASSUME NEW i \in DOMAIN rows PROVE rows[i] = w.at + i
      <4> HIDE DEF rows, w
      <4>1. i \in 1 .. Len(r.rows) \/ i = Len(r.rows) + 1
        BY <1>3, <3>3, <3>5
      <4>2. CASE i \in 1 .. Len(r.rows)
        BY <3>1, <3>2, <4>2
      <4>3. CASE i = Len(r.rows) + 1
        <5>1. r.at + 1 = w.at + (Len(r.rows) + 1)
          BY <1>3, <3>4
        <5> QED BY <3>1, <4>3, <5>1
      <4> QED BY <4>1, <4>2, <4>3
    <3> HIDE DEF rows, w
    <3> QED BY <3>1, <3>5
  <2>3. /\ extended \in MongoReads /\ extended.phase = "reading" /\ extended.request = r.request
        /\ extended.end = r.end /\ extended.rows = rows /\ extended.truncated = r.truncated
    <3> HIDE DEF rows
    <3>1. extended = [r EXCEPT !.rows = rows]
      BY DEF rows
    <3> HIDE DEF extended
    <3> QED BY <1>1, <2>2, <3>1, SetReadRows
  <2>4. /\ longer \in MongoReads /\ longer.phase = "reading" /\ longer.request = r.request
        /\ longer.end = r.end /\ longer.rows = rows /\ longer.truncated = r.truncated
        /\ longer.at = r.at + 1
    <3> HIDE DEF extended, rows
    <3> QED BY <2>1, <2>3, SetReadAt
  <2>5. r.request \in MongoRequests /\ w.at + Len(r.rows) < w.end /\ (cap > 0 => Len(r.rows) < cap)
    BY <1>1, <1>3, <1>7 DEF Position
  <2>6. Position(longer)
    <3> HIDE DEF longer, rows
    <3> QED BY <1>3, <2>1, <2>2, <2>4, <2>5 DEF Position
  <2>7. ReadInv(longer)
    <3>1. longer.at = w.at + Len(rows)
      BY <1>1, <1>3, <2>2, <2>4
    <3> HIDE DEF longer, rows
    <3> QED BY <1>1, <2>4, <2>6, <3>1, <2>2 DEF ReadInv
  <2> QED BY <1>2, <1>7, <2>7, OneReadChanges
<1> QED BY <1>5, <1>6, <1>7

LEMMA OtherReads ==
  ASSUME MongoInv, NEW c \in MongoCalls, MongoReadFails(c) \/ MongoCursorClosed(c) \/ MongoAnswers(c)
  PROVE  MongoInv'
<1> DEFINE r == read[c]
           failing == [r EXCEPT !.phase = "throwing"]
           answered == [r EXCEPT !.phase = "answered"]
           shut == [r EXCEPT !.cursor = FALSE]
           last == [shut EXCEPT !.phase = IF r.phase = "closing" THEN "done" ELSE "failed"]
<1>1. r \in MongoReads /\ ReadInv(r)
  BY DEF MongoInv, ReadInv
<1>2. CASE MongoReadFails(c)
  <2>1. read' = [read EXCEPT ![c] = failing]
    BY <1>2 DEF MongoReadFails
  <2>2. failing \in MongoReads /\ failing.phase = "throwing"
    <3> HIDE DEF r
    <3> QED BY <1>1, SetReadPhase DEF MongoPhases
  <2>3. ReadInv(failing)
    <3> HIDE DEF failing
    <3> QED BY <2>2 DEF ReadInv
  <2> QED BY <1>2, <2>1, <2>3, OneReadChanges DEF MongoReadFails
<1>3. CASE MongoAnswers(c)
  <2>1. read' = [read EXCEPT ![c] = answered]
    BY <1>3 DEF MongoAnswers
  <2>2. answered \in MongoReads /\ answered.phase = "answered"
    <3> HIDE DEF r
    <3> QED BY <1>1, SetReadPhase DEF MongoPhases
  <2>3. ReadInv(answered)
    <3> HIDE DEF answered
    <3> QED BY <2>2 DEF ReadInv
  <2> QED BY <1>3, <2>1, <2>3, OneReadChanges DEF MongoAnswers
<1>4. CASE MongoCursorClosed(c)
  <2>1. read' = [read EXCEPT ![c] = last]
    BY <1>4 DEF MongoCursorClosed, MongoInv
  <2>2. /\ shut \in MongoReads /\ ~shut.cursor /\ shut.request = r.request /\ shut.at = r.at
        /\ shut.end = r.end /\ shut.rows = r.rows /\ shut.truncated = r.truncated
    <3> HIDE DEF r
    <3> QED BY <1>1, SetReadCursor
  <2>3. /\ last \in MongoReads /\ ~last.cursor /\ last.request = r.request /\ last.at = r.at
        /\ last.end = r.end /\ last.rows = r.rows /\ last.truncated = r.truncated
        /\ last.phase = IF r.phase = "closing" THEN "done" ELSE "failed"
    <3> DEFINE p == IF r.phase = "closing" THEN "done" ELSE "failed"
    <3>1. p \in MongoPhases
      BY DEF MongoPhases
    <3> HIDE DEF shut, p, r
    <3>2. /\ [shut EXCEPT !.phase = p] \in MongoReads /\ [shut EXCEPT !.phase = p].phase = p
          /\ [shut EXCEPT !.phase = p].cursor = shut.cursor
          /\ [shut EXCEPT !.phase = p].request = shut.request /\ [shut EXCEPT !.phase = p].at = shut.at
          /\ [shut EXCEPT !.phase = p].end = shut.end /\ [shut EXCEPT !.phase = p].rows = shut.rows
          /\ [shut EXCEPT !.phase = p].truncated = shut.truncated
      BY <2>2, <3>1, SetReadPhase
    <3> QED BY <2>2, <3>2 DEF p
  <2>4. ReadInv(last)
    <3> HIDE DEF last, r
    <3> QED BY <1>1, <2>3 DEF ReadInv, Position, Whole
  <2> HIDE DEF last
  <2> QED BY <1>4, <2>1, <2>4, OneReadChanges DEF MongoCursorClosed
<1> QED BY <1>2, <1>3, <1>4

LEMMA MongoKeepsInv == MongoInv /\ [MongoStep]_mongoVars => MongoInv'
<1> SUFFICES ASSUME MongoInv, [MongoStep]_mongoVars PROVE MongoInv'
  OBVIOUS
<1>1. CASE UNCHANGED mongoVars
  BY <1>1 DEF MongoInv, mongoVars
<1>2. CASE MongoConnect \/ MongoConnected \/ MongoConnectFails \/ MongoAbort \/ MongoClose \/ MongoLost
  BY <1>2 DEF MongoConnect, MongoConnected, MongoConnectFails, MongoAbort, MongoClose, MongoLost, MongoInv
<1> QED BY <1>1, <1>2, MongoExecuteReads, NextReads, OtherReads DEF MongoStep

LEMMA MongoBegins == MongoInit => MongoInv
  BY NoReadIsRead DEF MongoInit, MongoInv

LEMMA MongoInvariant == MongoSpec => []MongoInv
  BY MongoBegins, MongoKeepsInv, PTL DEF MongoSpec

LEMMA InvIsPages == MongoInv => MongoReadsArePages
<1> SUFFICES ASSUME MongoInv, NEW c \in MongoCalls PROVE ReadsThePage(c)
  BY DEF MongoReadsArePages, MongoInv, ReadInv
<1> DEFINE r == read[c]
<1>1. ReadInv(r)
  BY DEF MongoInv
<1> HIDE DEF r
<1>2. ASSUME r.phase = "done", IsPage(r.request)
      PROVE  LET cap == r.request.maxRows
                 capped == cap > 0 /\ cap < Asked(r.request)
             IN  /\ Len(r.rows) = IF capped THEN cap ELSE Asked(r.request)
                 /\ \A i \in DOMAIN r.rows : r.rows[i] = r.request.offset + i
                 /\ r.truncated = capped
  <2>1. Position(r) /\ Whole(r)
    BY <1>1, <1>2 DEF ReadInv
  <2> DEFINE w == Window(r.request)
  <2>2. /\ w.at \in 0 .. Documents /\ w.end \in 0 .. Documents /\ w.at <= w.end
        /\ w.end - w.at = Asked(r.request) /\ (w.at < w.end => w.at = r.request.offset)
        /\ r.request.maxRows \in Nat /\ r.rows \in Seq(Nat) /\ Len(r.rows) \in Nat
    BY <1>2, <2>1, WindowIsPage, MongoRequestsAssumption DEF Position
  <2>3. /\ w.at + Len(r.rows) <= w.end /\ DOMAIN r.rows = 1 .. Len(r.rows)
        /\ \A i \in DOMAIN r.rows : r.rows[i] = w.at + i
        /\ r.request.maxRows > 0 => Len(r.rows) <= r.request.maxRows
    BY <2>1, <2>2 DEF Position
  <2>4. IF r.truncated THEN /\ r.request.maxRows > 0 /\ Len(r.rows) = r.request.maxRows
                            /\ r.request.maxRows < w.end - w.at
        ELSE Len(r.rows) = w.end - w.at
    BY <2>1 DEF Whole
  <2>7. r.truncated \in BOOLEAN
    BY <1>1 DEF ReadInv, MongoReads
  <2> HIDE DEF w
  <2>5. \A i \in DOMAIN r.rows : w.at < w.end
    BY <2>2, <2>3, MongoAssumption
  <2>6. Asked(r.request) \in Nat
    BY <2>2, MongoAssumption
  <2> QED BY <2>2, <2>3, <2>4, <2>5, <2>6, <2>7
<1> QED BY <1>2 DEF ReadsThePage, r, IsPage

\* A find or an aggregation returns the documents of the page asked for, in order, up to the
\* cap, and says truncated exactly when the cap left one out; its cursor is closed by then.
THEOREM MongoReadsArePagesCorrect == MongoSpec => []MongoReadsArePages
BY MongoInvariant, InvIsPages, PTL

-----------------------------------------------------------------------------
(* Redis: what a collection's answer tells *)

Phases == {"none", "sent", "paging", "node", "describing", "described", "done", "failed"}

Replies == [phase : Phases, paged : BOOLEAN, cap : Nat,
            rows : Seq(1 .. Members), truncated : BOOLEAN]

\* What an answer that is done tells.
Tells(r) ==
    LET whole == RowSet(r) = 1 .. Members
    IN  /\ r.cap > 0 => Len(r.rows) <= r.cap
        /\ r.truncated \/ whole
        /\ ~r.paged => r.truncated # whole

\* A reply on its way: only a paged command pages, and it never goes past its cap.
Reads(r) ==
    /\ r \in Replies
    /\ r.phase = "none" => r.rows = <<>>
    /\ r.phase = "paging" => r.paged /\ Len(r.rows) <= r.cap
    /\ r.phase = "sent" => ~r.paged
    /\ r.phase = "done" => Tells(r)

ReadsInv ==
    /\ DOMAIN reply = RedisCalls
    /\ \A c \in RedisCalls : Reads(reply[c])

LEMMA NothingReads == Reads(NoReply)
  BY RedisAssumption DEF Reads, Replies, Phases, NoReply, Tells

\* A call's reply changes to one that reads, and the others stay.
LEMMA OneReplyChanges ==
  ASSUME ReadsInv, NEW c \in RedisCalls, NEW r, Reads(r), reply' = [reply EXCEPT ![c] = r]
  PROVE  ReadsInv'
<1>1. DOMAIN reply' = RedisCalls
  BY DEF ReadsInv
<1>2. ASSUME NEW d \in RedisCalls PROVE Reads(reply'[d])
  BY DEF ReadsInv
<1> QED BY <1>1, <1>2 DEF ReadsInv

\* Setting one field of a reply.
LEMMA SetPhase ==
  ASSUME NEW r \in Replies, NEW p \in Phases
  PROVE  LET s == [r EXCEPT !.phase = p]
         IN  s \in Replies /\ s.phase = p /\ s.paged = r.paged /\ s.cap = r.cap
             /\ s.rows = r.rows /\ s.truncated = r.truncated
  BY DEF Replies

LEMMA SetPaged ==
  ASSUME NEW r \in Replies, NEW b \in BOOLEAN
  PROVE  LET s == [r EXCEPT !.paged = b]
         IN  s \in Replies /\ s.paged = b /\ s.rows = r.rows
  BY DEF Replies

LEMMA SetCap ==
  ASSUME NEW r \in Replies, NEW n \in Nat
  PROVE  LET s == [r EXCEPT !.cap = n]
         IN  s \in Replies /\ s.paged = r.paged /\ s.rows = r.rows /\ s.cap = n
  BY DEF Replies

LEMMA SetTruncated ==
  ASSUME NEW r \in Replies, NEW b \in BOOLEAN
  PROVE  LET s == [r EXCEPT !.truncated = b]
         IN  s \in Replies /\ s.paged = r.paged /\ s.rows = r.rows /\ s.cap = r.cap
             /\ s.truncated = b /\ s.phase = r.phase
  BY DEF Replies

LEMMA SetRows ==
  ASSUME NEW r \in Replies, NEW rows \in Seq(1 .. Members)
  PROVE  LET s == [r EXCEPT !.rows = rows]
         IN  s \in Replies /\ s.paged = r.paged /\ s.rows = rows /\ s.cap = r.cap
             /\ s.truncated = r.truncated /\ s.phase = r.phase
  BY DEF Replies

LEMMA CapIsNat ==
  ASSUME NEW command, NEW maxRows \in Caps PROVE CapOf(command, maxRows) \in Nat
  BY RedisAssumption DEF CapOf

\* The steps that only move a call to a phase in which nothing has been read.
LEMMA PhaseReads ==
  ASSUME NEW r, Reads(r), NEW p \in {"node", "describing", "described", "failed"}
  PROVE  Reads([r EXCEPT !.phase = p])
  BY DEF Reads, Replies, Phases

LEMMA ExecuteReads ==
  ASSUME ReadsInv, NEW c \in RedisCalls, NEW command, NEW maxRows \in Caps,
         RedisExecute(c, command, maxRows)
  PROVE  ReadsInv'
<1> DEFINE r == IF command = "SELECT" THEN [NoReply EXCEPT !.phase = "failed"]
                ELSE [reply[c] EXCEPT !.paged = command \in Paged,
                         !.cap = CapOf(command, maxRows),
                         !.phase = IF command \in Paged THEN "paging" ELSE "sent"]
<1>1. reply' = [reply EXCEPT ![c] = r]
  BY DEF RedisExecute
<1>2. reply[c] \in Replies /\ reply[c].rows = <<>>
  BY DEF RedisExecute, ReadsInv, Reads
<1>3. CASE command = "SELECT"
  <2>1. Reads([NoReply EXCEPT !.phase = "failed"])
    BY NothingReads, PhaseReads
  <2>2. reply' = [reply EXCEPT ![c] = [NoReply EXCEPT !.phase = "failed"]]
    BY <1>1, <1>3
  <2> QED BY <2>1, <2>2, OneReplyChanges
<1>4. CASE command # "SELECT"
  <2> DEFINE paged == command \in Paged
             p == IF paged THEN "paging" ELSE "sent"
             r1 == [reply[c] EXCEPT !.paged = paged]
             r2 == [r1 EXCEPT !.cap = CapOf(command, maxRows)]
             r3 == [r2 EXCEPT !.phase = p]
  <2>1. r1 \in Replies /\ r1.paged = paged /\ r1.rows = <<>>
    <3>1. paged \in BOOLEAN
      OBVIOUS
    <3> QED BY <1>2, <3>1, SetPaged
  <2>2. r2 \in Replies /\ r2.paged = paged /\ r2.rows = <<>> /\ r2.cap \in Nat
    <3> HIDE DEF r1
    <3> QED BY <2>1, CapIsNat, SetCap
  <2>3. r3 \in Replies /\ r3.phase = p /\ r3.paged = paged /\ r3.rows = <<>> /\ r3.cap \in Nat
    <3>1. p \in Phases
      BY DEF Phases
    <3> HIDE DEF r2
    <3> QED BY <2>2, <3>1, SetPhase
  <2>4. Reads(r3)
    <3> HIDE DEF r3
    <3>1. CASE paged
      <4>1. r3.phase = "paging" /\ r3.paged = TRUE
        BY <2>3, <3>1
      <4>2. Len(r3.rows) = 0 /\ 0 <= r3.cap
        BY <2>3
      <4> QED BY <2>3, <4>1, <4>2 DEF Reads
    <3>2. CASE ~paged
      <4>0. paged = FALSE
        BY <3>2
      <4>1. r3.phase = "sent" /\ ~r3.paged
        BY <2>3, <3>2, <4>0
      <4> QED BY <2>3, <4>1 DEF Reads
    <3> QED BY <3>1, <3>2
  <2>5. reply' = [reply EXCEPT ![c] = r3]
    BY <1>1, <1>4
  <2> HIDE DEF r3
  <2> QED BY <2>4, <2>5, OneReplyChanges
<1> QED BY <1>3, <1>4

LEMMA ItemReads ==
  ASSUME ReadsInv, NEW c \in RedisCalls, NEW m \in 1 .. Members, RedisItem(c, m)
  PROVE  ReadsInv'
<1> DEFINE r == reply[c]
           longer == [r EXCEPT !.rows = Append(r.rows, m)]
           cut == [r EXCEPT !.truncated = TRUE, !.phase = "done"]
<1>1. r \in Replies /\ r.phase = "paging" /\ r.paged /\ Len(r.rows) <= r.cap
  BY DEF RedisItem, ReadsInv, Reads
<1>2. reply' = [reply EXCEPT ![c] = IF Len(r.rows) >= r.cap THEN cut ELSE longer]
  BY DEF RedisItem
<1>3. CASE Len(r.rows) >= r.cap
  <2>1. cut \in Replies /\ cut.phase = "done" /\ cut.paged /\ cut.truncated
        /\ cut.cap = r.cap /\ cut.rows = r.rows
    <3> DEFINE r1 == [r EXCEPT !.truncated = TRUE]
    <3>1. r1 \in Replies /\ r1.truncated = TRUE /\ r1.paged = r.paged
          /\ r1.cap = r.cap /\ r1.rows = r.rows
      <4> HIDE DEF r
      <4> QED BY <1>1, SetTruncated
    <3>2. cut = [r1 EXCEPT !.phase = "done"]
      OBVIOUS
    <3> HIDE DEF r1, cut, r
    <3> QED BY <1>1, <3>1, <3>2, SetPhase DEF Phases
  <2>2. Reads(cut)
    <3> HIDE DEF cut, r
    <3> QED BY <1>1, <2>1 DEF Reads, Tells
  <2> QED BY <1>2, <1>3, <2>2, OneReplyChanges
<1>4. CASE ~(Len(r.rows) >= r.cap)
  <2>1. longer \in Replies /\ longer.phase = "paging" /\ longer.paged
        /\ longer.cap = r.cap /\ Len(longer.rows) = Len(r.rows) + 1
    <3>1. r.rows \in Seq(1 .. Members)
      BY <1>1 DEF Replies
    <3>2. Append(r.rows, m) \in Seq(1 .. Members)
          /\ Len(Append(r.rows, m)) = Len(r.rows) + 1
      BY <3>1
    <3> HIDE DEF r
    <3> QED BY <1>1, <3>2, SetRows
  <2>2. Len(r.rows) \in Nat /\ r.cap \in Nat
    BY <1>1 DEF Replies
  <2>3. Reads(longer)
    <3> HIDE DEF longer, r
    <3> QED BY <1>4, <2>1, <2>2 DEF Reads
  <2> QED BY <1>2, <1>4, <2>3, OneReplyChanges
<1> QED BY <1>3, <1>4

LEMMA ScannedReads ==
  ASSUME ReadsInv, NEW c \in RedisCalls, RedisScanned(c)
  PROVE  ReadsInv'
<1> DEFINE r == reply[c]
           ended == [r EXCEPT !.phase = "done"]
<1>1. r \in Replies /\ r.paged /\ Len(r.rows) <= r.cap /\ RowSet(r) = 1 .. Members
  BY DEF RedisScanned, ReadsInv, Reads
<1>2. reply' = [reply EXCEPT ![c] = ended]
  BY DEF RedisScanned
<1>3. ended \in Replies /\ ended.phase = "done" /\ ended.paged /\ ended.cap = r.cap
      /\ ended.rows = r.rows
  BY <1>1 DEF Replies, Phases
<1>4. Reads(ended)
  BY <1>1, <1>3 DEF Reads, Tells, RowSet
<1> QED BY <1>2, <1>4, OneReplyChanges

LEMMA ReplyReads ==
  ASSUME ReadsInv, NEW c \in RedisCalls, RedisReply(c)
  PROVE  ReadsInv'
<1> DEFINE r == reply[c]
           cut == r.cap > 0 /\ Members > r.cap
           n == IF cut THEN r.cap ELSE Members
           given == [r EXCEPT !.phase = "done", !.truncated = cut,
                              !.rows = [i \in 1 .. n |-> i]]
<1>1. r \in Replies /\ ~r.paged
  BY DEF RedisReply, ReadsInv, Reads
<1>2. reply' = [reply EXCEPT ![c] = given]
  BY DEF RedisReply
<1>3. r.cap \in Nat /\ n \in Nat /\ n <= Members /\ Members \in Nat
  BY <1>1, RedisAssumption DEF Replies
<1>5. [i \in 1 .. n |-> i] \in Seq(1 .. Members) /\ Len([i \in 1 .. n |-> i]) = n
  <2> HIDE DEF n
  <2> QED BY <1>3
<1>4. /\ given \in Replies
      /\ given.phase = "done" /\ ~given.paged /\ given.cap = r.cap /\ given.truncated = cut
      /\ given.rows = [i \in 1 .. n |-> i]
  <2> DEFINE r1 == [r EXCEPT !.phase = "done"]
             r2 == [r1 EXCEPT !.truncated = cut]
  <2>1. r1 \in Replies /\ r1.phase = "done" /\ ~r1.paged /\ r1.cap = r.cap
    <3> HIDE DEF r
    <3> QED BY <1>1, SetPhase DEF Phases
  <2>2. r2 \in Replies /\ r2.phase = "done" /\ ~r2.paged /\ r2.cap = r.cap /\ r2.truncated = cut
    <3>1. cut \in BOOLEAN
      OBVIOUS
    <3> HIDE DEF r1, cut
    <3> QED BY <2>1, <3>1, SetTruncated
  <2>3. given = [r2 EXCEPT !.rows = [i \in 1 .. n |-> i]]
    OBVIOUS
  <2> HIDE DEF given, r2, n, cut, r
  <2> QED BY <1>5, <2>2, <2>3, SetRows
<1>7. RowSet(given) = 1 .. n
  <2>1. DOMAIN given.rows = 1 .. n /\ \A i \in 1 .. n : given.rows[i] = i
    <3> HIDE DEF given, n
    <3> QED BY <1>4
  <2> HIDE DEF given, n
  <2> QED BY <2>1 DEF RowSet
<1>8. cut <=> n # Members
  BY <1>3
<1>9. (1 .. n = 1 .. Members) <=> (n = Members)
  <2> HIDE DEF n
  <2> QED BY <1>3
<1>10. Reads(given)
  <2>1. r.cap > 0 => n <= r.cap
    BY <1>3
  <2>2. given.cap > 0 => Len(given.rows) <= given.cap
    <3> HIDE DEF given, n, r
    <3> QED BY <1>4, <1>5, <2>1
  <2>3. (RowSet(given) = 1 .. Members) <=> ~cut
    <3> HIDE DEF given, n, cut, r
    <3> QED BY <1>7, <1>8, <1>9
  <2>4. given.truncated = cut /\ cut \in BOOLEAN /\ given \in Replies
        /\ given.phase = "done" /\ ~given.paged
    BY <1>4
  <2> HIDE DEF given, n, cut, r
  <2> QED BY <2>2, <2>3, <2>4 DEF Reads, Tells
<1> QED BY <1>2, <1>10, OneReplyChanges

LEMMA StepReads == ReadsInv /\ [RedisNext]_redisVars => ReadsInv'
<1> SUFFICES ASSUME ReadsInv, [RedisNext]_redisVars PROVE ReadsInv'
  OBVIOUS
<1>1. ASSUME reply' = reply PROVE ReadsInv'
  BY <1>1 DEF ReadsInv
<1>2. CASE UNCHANGED redisVars
  BY <1>1, <1>2 DEF redisVars
<1>3. CASE RedisConnect \/ RedisConnected \/ NodeSettles \/ MastersChange
           \/ RedisAbort \/ RedisClose
  BY <1>1, <1>3 DEF RedisConnect, RedisConnected, NodeSettles, MastersChange,
     RedisAbort, RedisClose
<1>4. ASSUME NEW c \in RedisCalls, RedisFails(c) PROVE ReadsInv'
  <2>1. Reads([NoReply EXCEPT !.phase = "failed"])
    BY NothingReads, PhaseReads
  <2> QED BY <1>4, <2>1, OneReplyChanges DEF RedisFails
<1>5. ASSUME NEW c \in RedisCalls, RedisDescribe(c) PROVE ReadsInv'
  <2>1. Reads(reply[c])
    BY DEF ReadsInv
  <2>2. CASE cluster
    <3>1. reply' = [reply EXCEPT ![c] = [reply[c] EXCEPT !.phase = "node"]]
      BY <1>5, <2>2 DEF RedisDescribe
    <3> QED BY <2>1, <3>1, PhaseReads, OneReplyChanges
  <2>3. CASE ~cluster
    <3>1. reply' = [reply EXCEPT ![c] = [reply[c] EXCEPT !.phase = "describing"]]
      BY <1>5, <2>3 DEF RedisDescribe
    <3> QED BY <2>1, <3>1, PhaseReads, OneReplyChanges
  <2> QED BY <2>2, <2>3
<1>6. ASSUME NEW c \in RedisCalls, NodeGiven(c) PROVE ReadsInv'
  <2>1. Reads(reply[c])
    BY DEF ReadsInv
  <2>2. CASE node = "kept"
    <3>1. reply' = [reply EXCEPT ![c] = [reply[c] EXCEPT !.phase = "describing"]]
      BY <1>6, <2>2 DEF NodeGiven
    <3> QED BY <2>1, <3>1, PhaseReads, OneReplyChanges
  <2>3. CASE node # "kept"
    <3>1. reply' = [reply EXCEPT ![c] = [reply[c] EXCEPT !.phase = "failed"]]
      BY <1>6, <2>3 DEF NodeGiven
    <3> QED BY <2>1, <3>1, PhaseReads, OneReplyChanges
  <2> QED BY <2>2, <2>3
<1>7. ASSUME NEW c \in RedisCalls, Described(c) PROVE ReadsInv'
  <2>1. Reads(reply[c])
    BY DEF ReadsInv
  <2>2. reply' = [reply EXCEPT ![c] = [reply[c] EXCEPT !.phase = "described"]]
    BY <1>7 DEF Described
  <2> QED BY <2>1, <2>2, PhaseReads, OneReplyChanges
<1>8. ASSUME NEW c \in RedisCalls,
             \/ \E command \in Unbounded \cup {"KEYS", "SELECT"}, maxRows \in Caps :
                   RedisExecute(c, command, maxRows)
             \/ (\E m \in 1 .. Members : RedisItem(c, m)) \/ RedisScanned(c)
             \/ RedisReply(c) \/ RedisFails(c)
             \/ RedisDescribe(c) \/ NodeGiven(c) \/ Described(c)
      PROVE  ReadsInv'
  BY <1>4, <1>5, <1>6, <1>7, <1>8, ExecuteReads, ItemReads, ScannedReads, ReplyReads
<1> QED BY <1>2, <1>3, <1>8 DEF RedisNext

LEMMA RepliesTell == ReadsInv => RedisTellsWhatIsMissing
  BY DEF ReadsInv, Reads, Tells, RedisTellsWhatIsMissing

\* A collection's answer is within its cap, and complete or marked truncated (readPaged and
\* capReply, redis.js), whatever the scan repeats and in whatever order: of every collection,
\* every cap and any number of calls.
THEOREM RedisAnswersTell == RedisSpec => []RedisTellsWhatIsMissing
<1>1. RedisInit => ReadsInv
  BY NothingReads DEF RedisInit, ReadsInv
<1> QED BY <1>1, RepliesTell, StepReads, PTL DEF RedisSpec

-----------------------------------------------------------------------------
(* The adapters side by side *)

\* A step is a step of one part, and leaves the others as they are.
LEMMA StepOfOnePart ==
  ASSUME [MCNext]_<<dialect, pgVars, myVars, liteVars, mongoVars, redisVars, describeVars>>
  PROVE  /\ [PgNext]_pgVars /\ [MyNext]_myVars /\ [LiteNext]_liteVars
         /\ [MongoStep]_mongoVars /\ [RedisNext]_redisVars /\ [DescribeNext]_describeVars
BY DEF MCNext

\* A SQLite adapter that has no part is open, and as sound as one that is opening.
LEMMA PartsBegin ==
  ASSUME MCInit
  PROVE  PgInit /\ MyInit /\ LiteInv /\ MongoInit /\ RedisInit /\ DescribeInit
<1>1. LiteInit => LiteInv
  BY DEF LiteInit, LiteInv, LiteTypeOK, ListedIsWaiting, LatchHolds
<1>2. LiteRests => LiteInv
  BY DEF LiteRests, LiteInv, LiteTypeOK, ListedIsWaiting, LatchHolds
<1> QED BY <1>1, <1>2 DEF MCInit

\* What a Redis adapter's other variables may be.
RedisParts ==
    /\ {cluster, raborted, masters} \subseteq BOOLEAN
    /\ rclient \in {"none", "connecting", "ready", "lost"}
    /\ node \in {"none", "pending", "kept", "rejected"}

LEMMA RedisPartsStep ==
  ASSUME RedisParts, [RedisNext]_redisVars
  PROVE  RedisParts'
  BY DEF RedisParts, RedisNext, redisVars, RedisConnect, RedisConnected, NodeSettles, MastersChange,
     RedisAbort, RedisClose, RedisExecute, RedisItem, RedisScanned, RedisReply, RedisFails,
     RedisDescribe, NodeGiven, Described

\* The invariants of the parts hold together.
PartsInv == PgInv /\ MyInv /\ LiteInv /\ MongoInv /\ RedisParts /\ ReadsInv /\ PagesInv

LEMMA PartsInvariant == MCSpec => []PartsInv
<1>1. MCInit => PartsInv
  <2> SUFFICES ASSUME MCInit PROVE PartsInv
    OBVIOUS
  <2>1. PgInit /\ MyInit /\ LiteInv /\ MongoInit /\ RedisInit /\ DescribeInit
    BY PartsBegin
  <2>2. RedisParts /\ ReadsInv
    BY <2>1, NothingReads DEF RedisInit, RedisParts, ReadsInv
  <2>3. MyInv /\ MongoInv
    BY <2>1, MyBegins, MongoBegins
  <2> QED BY <2>1, <2>2, <2>3, PgBase, PagesInit DEF PartsInv
<1>2. PartsInv /\ [MCNext]_<<dialect, pgVars, myVars, liteVars, mongoVars, redisVars, describeVars>>
        => PartsInv'
  BY StepOfOnePart, PgStep, MyStep, LiteStep, MongoKeepsInv, RedisPartsStep, StepReads, PagesStep
     DEF PartsInv
<1> QED BY <1>1, <1>2, PTL DEF MCSpec

\* The variables of the five adapters and of the schema reports have their types, for any number
\* of calls, sockets and clients, any collections and catalogues, and every cap.
THEOREM AdaptersTypeCorrect == MCSpec => []AdaptersTypeOK
<1>1. ASSUME PartsInv PROVE AdaptersTypeOK
  <2>1. PgTypeOK /\ MyTypeOK /\ LiteTypeOK /\ DescribeTypeOK
    BY <1>1 DEF PartsInv, PgInv, MyInv, LiteInv, PagesInv
  <2>2. MongoTypeOK
    BY <1>1 DEF PartsInv, MongoInv, ReadInv, MongoReads, MongoPhases, MongoTypeOK
  <2>3. RedisTypeOK
    <3> SUFFICES ASSUME NEW c \in RedisCalls
                 PROVE  reply[c].phase \in Phases /\ RowSet(reply[c]) \subseteq 1 .. Members
                        /\ reply[c].truncated \in BOOLEAN
      BY <1>1 DEF PartsInv, RedisParts, RedisTypeOK, Phases
    <3>1. reply[c] \in Replies
      BY <1>1 DEF PartsInv, ReadsInv, Reads
    <3>2. reply[c].rows \in Seq(1 .. Members)
      BY <3>1 DEF Replies
    <3>3. RowSet(reply[c]) \subseteq 1 .. Members
      <4>1. DOMAIN reply[c].rows = 1 .. Len(reply[c].rows)
        BY <3>2
      <4> QED BY <3>2, <4>1, MemberOf DEF RowSet
    <3> QED BY <3>1, <3>3 DEF Replies
  <2> QED BY <2>1, <2>2, <2>3 DEF AdaptersTypeOK
<1> QED BY <1>1, PartsInvariant, PTL

\* A capped read says what it leaves out, and that it leaves out nothing else: a page of a MongoDB
\* find or aggregation, and a Redis collection, of any size and under every cap.
THEOREM ReadsTellCorrect == MCSpec => []ReadsTellWhatIsMissing
<1>1. PartsInv => ReadsTellWhatIsMissing
  BY InvIsPages, RepliesTell DEF PartsInv, ReadsTellWhatIsMissing
<1> QED BY <1>1, PartsInvariant, PTL

\* What is proved of each adapter holds of them as they are composed: sessions are handed on
\* clean, a statement runs under its own timeout, the pool's loans are exact, abort() knows every
\* socket and starts nothing on one, each SQLite statement is listed while it waits, and a walk
\* through a schema sees each object once.
THEOREM AdaptersAreCorrect ==
  MCSpec => /\ []SessionsAreClean /\ []TimeoutIsOwn /\ []LoansAreExact
            /\ []SocketsAreKnown /\ MyNothingStartsAborted
            /\ []SQLiteListsAndFaults /\ []PagesAreHonest
<1>1. PartsInv => /\ SessionsAreClean /\ TimeoutIsOwn /\ LoansAreExact /\ SocketsAreKnown
                  /\ SQLiteListsAndFaults /\ PagesAreHonest
  BY InvIsHonest DEF PartsInv, PgInv, MyInv, LiteInv, LatchHolds, FaultyIsUnhealthy, LooksHealthy,
     SQLiteListsAndFaults
<1>2. MCInit => MyInit
  BY DEF MCInit
<1>3. [MCNext]_<<dialect, pgVars, myVars, liteVars, mongoVars, redisVars, describeVars>>
        => [MyNext]_myVars
  BY StepOfOnePart
<1>4. MCSpec => MySpec
  BY <1>2, <1>3, PTL DEF MCSpec, MySpec
<1> QED BY <1>1, <1>4, PartsInvariant, NothingStartsAbortedCorrect, PTL
=============================================================================
