---------------------------- MODULE RequestsProofs ----------------------------
(***************************************************************************)
(* What reaches a database was permitted, and what was refused opened      *)
(* nothing: for any number of calls, any entries the config file may get   *)
(* while they are under way, and any settings.                             *)
(***************************************************************************)
EXTENDS Requests, SequenceTheorems, WellFoundedInduction, TLAPS

----------------------------------------------------------------------------
\* The gates.

LEMMA LeastIndex ==
  ASSUME NEW T, T \subseteq Nat, T # {}
  PROVE  \E i \in T : \A j \in T : i <= j
<1>1. PICK i \in T : \A j \in T : ~ (<<j, i>> \in OpToRel(<, Nat))
  BY NatLessThanWellFounded, WFMin
<1>2. ASSUME NEW j \in T PROVE i <= j
  <2>1. ~ (<<j, i>> \in {ss \in Nat \X Nat : ss[1] < ss[2]})
    BY <1>1 DEF OpToRel
  <2>2. i \in Nat /\ j \in Nat
    OBVIOUS
  <2> QED BY <2>1, <2>2
<1> QED BY <1>2

\* The first refusal has the kind of its gate; where there is none, no gate refuses.
LEMMA GatesPass ==
  ASSUME NEW gates, NEW n \in Nat, DOMAIN gates = 1 .. n,
         \A i \in 1 .. n : gates[i].kind \in {"validation", "policy"}
  PROVE  /\ FirstRefusal(gates) \in ErrorKinds
         /\ FirstRefusal(gates) = "none" => \A i \in 1 .. n : ~gates[i].refuses
<1> DEFINE refusing == {i \in DOMAIN gates : gates[i].refuses}
<1>1. CASE refusing = {}
  BY <1>1 DEF FirstRefusal, ErrorKinds
<1>2. CASE refusing # {}
  <2> DEFINE least == CHOOSE i \in refusing : \A j \in refusing : i <= j
  <2>1. \E i \in refusing : \A j \in refusing : i <= j
    <3>1. refusing \subseteq Nat
      OBVIOUS
    <3> HIDE DEF refusing
    <3> QED BY <1>2, <3>1, LeastIndex
  <2>2. least \in refusing
    <3> HIDE DEF refusing
    <3> QED BY <2>1
  <2>3. FirstRefusal(gates) = gates[least].kind
    BY <1>2 DEF FirstRefusal
  <2>4. least \in 1 .. n
    <3> HIDE DEF least
    <3> QED BY <2>2
  <2> HIDE DEF least
  <2> QED BY <2>3, <2>4 DEF ErrorKinds
<1> QED BY <1>1, <1>2

LEMMA TupleOf2 ==
  ASSUME NEW S, NEW a \in S, NEW b \in S
  PROVE  <<a, b>> \in Seq(S) /\ Len(<<a, b>>) = 2 /\ DOMAIN <<a, b>> = 1 .. 2
  OBVIOUS

LEMMA TupleOf4 ==
  ASSUME NEW S, NEW a \in S, NEW b \in S, NEW c \in S, NEW d \in S
  PROVE  <<a, b, c, d>> \in Seq(S) /\ Len(<<a, b, c, d>>) = 4
  OBVIOUS

\* What the gates of run() leave: one statement, no code, and a write only where the policy
\* lets it.
PassesEarly(stmt, policy) ==
    /\ ~stmt.blank /\ ~stmt.code /\ ~stmt.many
    /\ policy.readOnly => stmt.reads

LEMMA StatementGatesPass ==
  ASSUME NEW args, NEW uri, NEW policy
  PROVE  LET kind == FirstRefusal(StatementGates(args, uri, policy))
         IN  kind \in ErrorKinds /\ (kind = "none" => PassesEarly(args.statement, policy))
<1> DEFINE g1 == [refuses |-> uri.scheme \notin Routable, kind |-> "validation"]
           g2 == [refuses |-> ~args.wellFormed, kind |-> "validation"]
           g3 == [refuses |-> args.statement.blank, kind |-> "validation"]
           g4 == [refuses |-> ReadOnly(policy) /\ ~args.statement.reads, kind |-> "policy"]
           g5 == [refuses |-> args.statement.code, kind |-> "policy"]
           g6 == [refuses |-> args.statement.many, kind |-> "validation"]
           gates == StatementGates(args, uri, policy)
<1>1. gates = <<g1, g2>> \o <<g3, g4, g5, g6>>
  BY DEF StatementGates, ArgumentGates
<1>2. /\ g1.kind = "validation" /\ g2.kind = "validation" /\ g3.kind = "validation"
      /\ g4.kind = "policy" /\ g5.kind = "policy" /\ g6.kind = "validation"
  OBVIOUS
<1>3. /\ g3.refuses <=> args.statement.blank
      /\ g4.refuses <=> (policy.readOnly /\ ~args.statement.reads)
      /\ g5.refuses <=> args.statement.code
      /\ g6.refuses <=> args.statement.many
  BY DEF ReadOnly
<1> HIDE DEF g1, g2, g3, g4, g5, g6, gates
<1>5. /\ DOMAIN gates = 1 .. 6
      /\ gates[1] = g1 /\ gates[2] = g2 /\ gates[3] = g3
      /\ gates[4] = g4 /\ gates[5] = g5 /\ gates[6] = g6
  <2> DEFINE S == {g1, g2, g3, g4, g5, g6}
             s == <<g1, g2>>
             t == <<g3, g4, g5, g6>>
  <2>1. s \in Seq(S) /\ Len(s) = 2 /\ s[1] = g1 /\ s[2] = g2
    BY TupleOf2
  <2>2. t \in Seq(S) /\ Len(t) = 4 /\ t[1] = g3 /\ t[2] = g4 /\ t[3] = g5 /\ t[4] = g6
    BY TupleOf4
  <2>3. gates = s \o t
    BY <1>1
  <2> HIDE DEF s, t, S
  <2>4. /\ Len(s \o t) = 2 + 4 /\ s \o t \in Seq(S)
        /\ \A i \in 1 .. 2 + 4 : (s \o t)[i] = IF i <= 2 THEN s[i] ELSE t[i - 2]
    <3>1. s \in Seq(S) /\ t \in Seq(S)
      BY <2>1, <2>2
    <3>2. /\ Len(s \o t) = Len(s) + Len(t) /\ s \o t \in Seq(S)
          /\ \A i \in 1 .. Len(s) + Len(t) :
                (s \o t)[i] = IF i <= Len(s) THEN s[i] ELSE t[i - Len(s)]
      BY <3>1, ConcatProperties, Zenon
    <3>3. Len(s) = 2 /\ Len(t) = 4
      BY <2>1, <2>2
    <3> QED BY <3>2, <3>3, Zenon
  <2>5. (s \o t)[1] = s[1] /\ (s \o t)[2] = s[2]
    BY <2>4
  <2>7. DOMAIN (s \o t) = 1 .. 6
    BY <2>4
  <2>8. (s \o t)[3] = t[1] /\ (s \o t)[4] = t[2] /\ (s \o t)[5] = t[3] /\ (s \o t)[6] = t[4]
    BY <2>4
  <2> QED BY <2>1, <2>2, <2>3, <2>5, <2>7, <2>8
<1>6. \A i \in 1 .. 6 : gates[i].kind \in {"validation", "policy"}
  BY <1>2, <1>5
<1>7. /\ FirstRefusal(gates) \in ErrorKinds
      /\ FirstRefusal(gates) = "none" => \A i \in 1 .. 6 : ~gates[i].refuses
  BY <1>5, <1>6, GatesPass
<1>8. FirstRefusal(gates) = "none" =>
         ~g3.refuses /\ ~g4.refuses /\ ~g5.refuses /\ ~g6.refuses
  BY <1>5, <1>7
<1>9. FirstRefusal(gates) = "none" => PassesEarly(args.statement, policy)
  BY <1>3, <1>8 DEF PassesEarly
<1> QED BY <1>7, <1>9 DEF gates

\* What the gates after the connection policy leave: a schema change only with its opt-in, and
\* only the tables of the profile.
PassesLate(args, policy) ==
    /\ args.statement.destructive =>
          /\ ~policy.readOnly
          /\ \/ args.allowDestructive = "yes" \/ policy.allowDestructive
             \/ env.allowDestructive = "yes"
    /\ policy.tables = {} \/ args.statement.tables \subseteq policy.tables

LEMMA LateGatesPass ==
  ASSUME NEW args, NEW entry, NEW uri, NEW policy, NEW addresses
  PROVE  LET kind == FirstRefusal(LateGates(args, entry, uri, policy, addresses))
         IN  kind \in ErrorKinds /\ (kind = "none" => PassesLate(args, policy))
<1> DEFINE g1 == [refuses |-> ~Opens(entry, uri, addresses), kind |-> "policy"]
           g2 == [refuses |-> /\ args.statement.destructive
                              /\ \/ ReadOnly(policy)
                                 \/ /\ args.allowDestructive # "yes"
                                    /\ ~policy.allowDestructive
                                    /\ env.allowDestructive # "yes",
                  kind |-> "policy"]
           g3 == [refuses |-> policy.tables # {} /\ ~(args.statement.tables \subseteq policy.tables),
                  kind |-> "policy"]
           gates == LateGates(args, entry, uri, policy, addresses)
<1>1. gates = <<g1, g2, g3>>
  BY DEF LateGates
<1>2. g1.kind = "policy" /\ g2.kind = "policy" /\ g3.kind = "policy"
  OBVIOUS
<1>3. /\ g2.refuses <=> /\ args.statement.destructive
                        /\ \/ policy.readOnly
                           \/ /\ args.allowDestructive # "yes"
                              /\ ~policy.allowDestructive
                              /\ env.allowDestructive # "yes"
      /\ g3.refuses <=> policy.tables # {} /\ ~(args.statement.tables \subseteq policy.tables)
  BY DEF ReadOnly
<1> HIDE DEF g1, g2, g3, gates
<1>5. DOMAIN gates = 1 .. 3 /\ gates[1] = g1 /\ gates[2] = g2 /\ gates[3] = g3
  BY <1>1
<1>6. \A i \in 1 .. 3 : gates[i].kind \in {"validation", "policy"}
  BY <1>2, <1>5
<1>7. /\ FirstRefusal(gates) \in ErrorKinds
      /\ FirstRefusal(gates) = "none" => \A i \in 1 .. 3 : ~gates[i].refuses
  BY <1>5, <1>6, GatesPass
<1>8. FirstRefusal(gates) = "none" => ~g2.refuses /\ ~g3.refuses
  BY <1>5, <1>7
<1>9. FirstRefusal(gates) = "none" => PassesLate(args, policy)
  BY <1>3, <1>8 DEF PassesLate
<1> QED BY <1>7, <1>9 DEF gates

LEMMA ArgumentGatesKind ==
  ASSUME NEW args, NEW uri
  PROVE  FirstRefusal(ArgumentGates(args, uri)) \in ErrorKinds
<1> DEFINE gates == ArgumentGates(args, uri)
<1>1. DOMAIN gates = 1 .. 2
  BY DEF ArgumentGates
<1>2. gates[1].kind = "validation" /\ gates[2].kind = "validation"
  BY DEF ArgumentGates
<1> HIDE DEF gates
<1>3. \A i \in 1 .. 2 : gates[i].kind \in {"validation", "policy"}
  BY <1>2
<1>4. FirstRefusal(gates) \in ErrorKinds
  BY <1>1, <1>3, GatesPass
<1> QED BY <1>4 DEF gates

----------------------------------------------------------------------------
\* The invariant.

AnyEntry == Entries \cup {NoEntry}

Stores == [entry : AnyEntry, source : BOOLEAN, error : BOOLEAN]

Phases == {"idle", "naming", "resolving", "checking", "opening", "running", "done"}

CallTypes ==
    [phase : Phases, args : Requestable \cup {NoArgs}, snapshot : AnyEntry,
     first : Uris, uri : Uris, entry : AnyEntry, checking : BOOLEAN, ignored : BOOLEAN,
     opened : BOOLEAN, sent : BOOLEAN, failure : ErrorKinds, answered : BOOLEAN,
     seen : SUBSET AnyEntry]

\* The entry the call is judged by was in force while it was under way.
JudgedInForce(r) == r.entry \in IF r.args.named THEN r.seen ELSE {NoEntry}

Permitted(r) == JudgedInForce(r) /\ (r.args.tool = "query" => Permits(r.entry, r.args))

Unopened == {"idle", "naming", "resolving", "checking", "opening"}

\* How far a call is says what its gates have established.
Awaits(r) == r.phase \in {"naming", "resolving"} => r.args.named /\ store.entry \in r.seen

Checks(r) ==
    r.phase = "checking" =>
       /\ JudgedInForce(r) /\ r.args.tool = "query"
       /\ PassesEarly(r.args.statement, EvaluatePolicy(r.entry, r.args, env))

CallInv(r) ==
    /\ r \in CallTypes
    /\ r.phase \in Unopened => ~r.opened /\ ~r.sent
    /\ r.phase # "done" => r.failure = "none"
    /\ r.failure \in {"validation", "policy"} => ~r.opened
    /\ Awaits(r) /\ Checks(r)
    /\ r.phase \in {"opening", "running"} => Permitted(r)
    /\ r.sent => Permitted(r)

RequestInv ==
    /\ env \in Environments
    /\ config \in Configs
    /\ store \in Stores
    /\ DOMAIN call = Calls
    /\ \A c \in Calls : CallInv(call[c])

LEMMA OneCallChanges ==
  ASSUME RequestInv, NEW c \in Calls, NEW r, CallInv(r), Update(c, r),
         UNCHANGED <<env, config, store>>
  PROVE  RequestInv'
<1>1. DOMAIN call' = Calls
  BY DEF Update, RequestInv
<1>2. ASSUME NEW d \in Calls PROVE CallInv(call'[d])
  BY DEF Update, RequestInv
<1>3. ASSUME NEW s, CallInv(s) PROVE CallInv(s)'
  BY <1>3 DEF CallInv, Awaits, Checks, Permitted, JudgedInForce, Permits
<1> QED BY <1>1, <1>2, <1>3 DEF RequestInv

LEMMA IdleInv == CallInv(Idle)
<1>1. Idle \in CallTypes
  BY DEF Idle, CallTypes, Phases, AnyEntry, Uris, ErrorKinds, NoUri
<1> QED BY <1>1 DEF CallInv, Idle, Awaits, Checks, Unopened

LEMMA LoadedTypes ==
  ASSUME NEW kept \in Stores, NEW file \in Configs
  PROVE  Loaded(kept, file) \in Stores
<1>1. file.entry \in AnyEntry
  BY DEF Configs, MissingFile, BrokenFile, AnyEntry
<1>2. \/ file.state = "missing" \/ file.state = "broken" \/ file.state = "whole"
  BY DEF Configs, MissingFile, BrokenFile
<1>3. [kept EXCEPT !.entry = NoEntry, !.source = FALSE] \in Stores
  BY DEF Stores, AnyEntry
<1>4. [kept EXCEPT !.entry = file.entry, !.source = TRUE] \in Stores
  BY <1>1 DEF Stores
<1> QED BY <1>2, <1>3, <1>4 DEF Loaded

LEMMA InitInv == RequestInit => RequestInv
<1> SUFFICES ASSUME RequestInit PROVE RequestInv
  OBVIOUS
<1> DEFINE empty == [entry |-> NoEntry, source |-> FALSE, error |-> FALSE]
           loaded == Loaded(empty, config)
<1>1. empty \in Stores
  BY DEF Stores, AnyEntry
<1>2. loaded \in Stores
  <2> HIDE DEF empty
  <2> QED BY <1>1, LoadedTypes DEF RequestInit
<1>3. store = [loaded EXCEPT !.error = (config.state = "broken")]
  BY DEF RequestInit, Constructed
<1>4. store \in Stores
  <2> HIDE DEF loaded
  <2> QED BY <1>2, <1>3 DEF Stores
<1> QED BY <1>4, IdleInv DEF RequestInit, RequestInv

\* A call that ends with an error, which is a refusal only where nothing is open.
LEMMA FailInv ==
  ASSUME NEW r, CallInv(r), NEW kind \in ErrorKinds,
         kind \in {"validation", "policy"} => ~r.opened
  PROVE  CallInv(Fail(r, kind))
<1> DEFINE f == Fail(r, kind)
<1>1. /\ f \in CallTypes
      /\ f.phase = "done" /\ f.failure = kind /\ f.opened = r.opened /\ f.sent = r.sent
      /\ f.args = r.args /\ f.entry = r.entry /\ f.seen = r.seen
  BY DEF CallInv, Fail, CallTypes, Phases
<1> HIDE DEF f
<1>2. Permitted(r) => Permitted(f)
  BY <1>1 DEF Permitted, JudgedInForce
<1>3. Awaits(f) /\ Checks(f)
  BY <1>1 DEF Awaits, Checks
<1>4. CallInv(f)
  BY <1>1, <1>2, <1>3 DEF CallInv, Unopened
<1> QED BY <1>4 DEF f

\* profiles.resolve() is entered with an entry that is in force.
LEMMA BeginResolveInv ==
  ASSUME RequestInv, NEW r, CallInv(r), r.args.named, store.entry \in r.seen,
         ~r.opened, ~r.sent, r.failure = "none", NEW phase \in {"naming", "resolving"}
  PROVE  CallInv(BeginResolve(r, phase))
<1>1. CASE ~Present(store.entry)
  BY <1>1, FailInv DEF BeginResolve, ErrorKinds
<1>2. CASE Present(store.entry)
  <2> DEFINE b == [r EXCEPT !.phase = phase, !.snapshot = store.entry]
  <2>1. store.entry \in AnyEntry
    BY DEF RequestInv, Stores
  <2>2. /\ b \in CallTypes
        /\ b.phase = phase /\ b.failure = r.failure /\ b.opened = r.opened
        /\ b.sent = r.sent /\ b.args = r.args /\ b.seen = r.seen
    BY <2>1 DEF CallInv, CallTypes, Phases
  <2>3. BeginResolve(r, phase) = b
    BY <1>2 DEF BeginResolve
  <2> HIDE DEF b
  <2>4. Awaits(b) /\ Checks(b)
    BY <2>2 DEF Awaits, Checks
  <2>5. CallInv(b)
    BY <2>2, <2>4 DEF CallInv
  <2> QED BY <2>3, <2>5
<1> QED BY <1>1, <1>2

\* A policy that passed every gate permits the statement, in the words of Permits.
LEMMA PassedIsPermitted ==
  ASSUME NEW args, NEW entry,
         PassesEarly(args.statement, EvaluatePolicy(entry, args, env)),
         PassesLate(args, EvaluatePolicy(entry, args, env))
  PROVE  Permits(entry, args)
<1> DEFINE policy == EvaluatePolicy(entry, args, env)
<1>1. /\ policy.readOnly <=> Pick(args.readOnly, entry.readOnly, env.readOnly) # "no"
      /\ policy.allowDestructive <=>
            Pick(args.allowDestructive, entry.allowDestructive, env.allowDestructive) = "yes"
      /\ policy.tables = entry.tables
  BY DEF EvaluatePolicy
<1>2. policy.allowDestructive =>
         "yes" \in {args.allowDestructive, entry.allowDestructive, env.allowDestructive}
  BY <1>1 DEF Pick
<1> HIDE DEF policy
<1>3. PassesEarly(args.statement, policy) /\ PassesLate(args, policy)
  BY DEF policy
<1> QED BY <1>1, <1>2, <1>3 DEF PassesEarly, PassesLate, Permits

\* run() and describe() with a target whose entry is in force.
LEMMA GateInv ==
  ASSUME RequestInv, NEW r, CallInv(r), ~r.opened, ~r.sent, r.failure = "none",
         NEW uri \in Uris, NEW entry \in AnyEntry,
         entry \in IF r.args.named THEN r.seen ELSE {NoEntry}
  PROVE  CallInv(Gate(r, uri, entry))
<1> DEFINE policy == EvaluatePolicy(entry, r.args, env)
           aimed == [r EXCEPT !.uri = uri, !.entry = entry]
           query == r.args.tool = "query"
           early == FirstRefusal(StatementGates(r.args, uri, policy))
           wellAimed == FirstRefusal(ArgumentGates(r.args, uri))
           kind == IF query THEN early ELSE wellAimed
           next == [aimed EXCEPT !.phase = IF query THEN "checking" ELSE "opening",
                                 !.checking = ~query]
<1>1. /\ aimed \in CallTypes
      /\ aimed.phase = r.phase /\ aimed.failure = "none" /\ ~aimed.opened /\ ~aimed.sent
      /\ aimed.args = r.args /\ aimed.entry = entry /\ aimed.seen = r.seen
  BY DEF CallInv, CallTypes
<1>2. kind \in ErrorKinds
  <2>1. early \in ErrorKinds
    BY StatementGatesPass
  <2>2. wellAimed \in ErrorKinds
    BY ArgumentGatesKind
  <2> HIDE DEF early, wellAimed
  <2> QED BY <2>1, <2>2
<1>3. early = "none" => PassesEarly(r.args.statement, policy)
  BY StatementGatesPass
<1>4. Gate(r, uri, entry) = IF kind # "none" THEN Fail(aimed, kind) ELSE next
  BY DEF Gate
<1>5. /\ next \in CallTypes
      /\ next.phase = (IF query THEN "checking" ELSE "opening")
      /\ next.failure = "none" /\ ~next.opened /\ ~next.sent
      /\ next.args = r.args /\ next.entry = entry /\ next.seen = r.seen
  <2>1. query \in BOOLEAN
    OBVIOUS
  <2> HIDE DEF aimed, query
  <2> QED BY <1>1, <2>1 DEF CallTypes, Phases
<1>6. CASE kind # "none"
  <2> DEFINE f == Fail(aimed, kind)
  <2>1. /\ f \in CallTypes
        /\ f.phase = "done" /\ f.failure = kind /\ ~f.opened /\ ~f.sent
    <3> HIDE DEF aimed, kind
    <3> QED BY <1>1, <1>2 DEF Fail, CallTypes, Phases
  <2> HIDE DEF f
  <2>2. CallInv(f)
    BY <2>1 DEF CallInv, Awaits, Checks, Unopened
  <2> QED BY <1>4, <1>6, <2>2 DEF f
<1>7. CASE kind = "none"
  <2>1. JudgedInForce(next)
    <3> HIDE DEF next
    <3> QED BY <1>5 DEF JudgedInForce
  <2>2. CASE query
    <3>1. PassesEarly(r.args.statement, policy)
      BY <1>3, <1>7, <2>2
    <3>2. PassesEarly(next.args.statement, EvaluatePolicy(next.entry, next.args, env))
      <4>1. next.args = r.args /\ next.entry = entry
        BY <1>5
      <4> HIDE DEF next
      <4> QED BY <3>1, <4>1
    <3>3. next.phase = "checking" /\ next.args.tool = "query"
      BY <1>5, <2>2
    <3> HIDE DEF next
    <3>4. CallInv(next)
      BY <1>5, <2>1, <3>2, <3>3 DEF CallInv, Awaits, Checks, Unopened
    <3> QED BY <1>4, <1>7, <3>4
  <2>3. CASE ~query
    <3>1. next.phase = "opening" /\ next.args.tool # "query"
      BY <1>5, <2>3
    <3> HIDE DEF next
    <3>2. CallInv(next)
      BY <1>5, <2>1, <3>1 DEF CallInv, Awaits, Checks, Unopened, Permitted
    <3> QED BY <1>4, <1>7, <3>2
  <2> QED BY <2>2, <2>3
<1> QED BY <1>6, <1>7

----------------------------------------------------------------------------
\* Every step keeps the invariant.

LEMMA BeginKeeps ==
  ASSUME RequestInv, NEW c \in Calls, NEW args \in Requestable, Begin(c, args)
  PROVE  RequestInv'
<1> DEFINE record == [Idle EXCEPT !.args = args, !.seen = {store.entry}]
           aimed == [record EXCEPT !.first = args.uri]
           next == IF args.named = (args.uri # NoEntry.uri) THEN Fail(record, "validation")
                   ELSE IF args.named THEN BeginResolve(record, "naming")
                   ELSE IF ~env.adHoc THEN Fail(record, "policy")
                   ELSE Gate(aimed, args.uri, NoEntry)
<1>1. store.entry \in AnyEntry
  BY DEF RequestInv, Stores
<1>2. /\ record \in CallTypes
      /\ record.phase = "idle" /\ record.failure = "none" /\ ~record.opened /\ ~record.sent
      /\ record.args = args /\ record.seen = {store.entry}
  BY <1>1, IdleInv DEF CallInv, Idle, CallTypes
<1>3. args.uri \in Uris
  BY DEF Uris
<1>4. /\ aimed \in CallTypes
      /\ aimed.phase = "idle" /\ aimed.failure = "none" /\ ~aimed.opened /\ ~aimed.sent
      /\ aimed.args = args
  <2> HIDE DEF record
  <2> QED BY <1>2, <1>3 DEF CallTypes
<1> HIDE DEF record, aimed
<1>5. CallInv(record) /\ CallInv(aimed)
  BY <1>2, <1>4 DEF CallInv, Awaits, Checks, Unopened
<1>6. CASE args.named = (args.uri # NoEntry.uri)
  <2>1. CallInv(Fail(record, "validation"))
    BY <1>2, <1>5, FailInv DEF ErrorKinds
  <2>2. Update(c, Fail(record, "validation")) /\ UNCHANGED <<env, config, store>>
    BY <1>6 DEF Begin, record
  <2> QED BY <2>1, <2>2, OneCallChanges
<1>7. CASE args.named # (args.uri # NoEntry.uri) /\ args.named
  <2>1. CallInv(BeginResolve(record, "naming"))
    BY <1>2, <1>5, <1>7, BeginResolveInv
  <2>2. Update(c, BeginResolve(record, "naming")) /\ UNCHANGED <<env, config, store>>
    BY <1>7 DEF Begin, record
  <2> QED BY <2>1, <2>2, OneCallChanges
<1>8. CASE args.named # (args.uri # NoEntry.uri) /\ ~args.named /\ ~env.adHoc
  <2>1. CallInv(Fail(record, "policy"))
    BY <1>2, <1>5, FailInv DEF ErrorKinds
  <2>2. Update(c, Fail(record, "policy")) /\ UNCHANGED <<env, config, store>>
    BY <1>8 DEF Begin, record
  <2> QED BY <2>1, <2>2, OneCallChanges
<1>9. CASE args.named # (args.uri # NoEntry.uri) /\ ~args.named /\ env.adHoc
  <2>1. CallInv(Gate(aimed, args.uri, NoEntry))
    BY <1>3, <1>4, <1>5, <1>9, GateInv DEF AnyEntry
  <2>2. Update(c, Gate(aimed, args.uri, NoEntry)) /\ UNCHANGED <<env, config, store>>
    BY <1>9 DEF Begin, record, aimed
  <2> QED BY <2>1, <2>2, OneCallChanges
<1> QED BY <1>6, <1>7, <1>8, <1>9

LEMMA NamedKeeps ==
  ASSUME RequestInv, NEW c \in Calls, Named(c)
  PROVE  RequestInv'
<1> DEFINE r == call[c]
           named == [r EXCEPT !.first = r.snapshot.uri]
<1>1. /\ CallInv(r) /\ r.phase = "naming" /\ r.args.named /\ store.entry \in r.seen
      /\ ~r.opened /\ ~r.sent /\ r.failure = "none"
  BY DEF Named, RequestInv, CallInv, Awaits, Unopened
<1>2. CASE ~Present(store.entry)
  <2>1. CallInv(Fail(r, "database"))
    BY <1>1, FailInv DEF ErrorKinds
  <2>2. Update(c, Fail(r, "database")) /\ UNCHANGED <<env, config, store>>
    BY <1>2 DEF Named
  <2> HIDE DEF r
  <2> QED BY <2>1, <2>2, OneCallChanges
<1>3. CASE Present(store.entry)
  <2>1. r.snapshot.uri \in Uris
    <3>1. r.snapshot \in AnyEntry
      BY <1>1 DEF CallInv, CallTypes
    <3> HIDE DEF r
    <3> QED BY <3>1 DEF Uris, AnyEntry
  <2>2. /\ named \in CallTypes
        /\ named.phase = "naming" /\ named.args = r.args /\ named.seen = r.seen
        /\ ~named.opened /\ ~named.sent /\ named.failure = "none"
    <3> HIDE DEF r
    <3> QED BY <1>1, <2>1 DEF CallInv, CallTypes
  <2> HIDE DEF named, r
  <2>3. CallInv(named)
    BY <1>1, <2>2 DEF CallInv, Awaits, Checks, Unopened
  <2>4. CallInv(BeginResolve(named, "resolving"))
    BY <1>1, <2>2, <2>3, BeginResolveInv
  <2>5. Update(c, BeginResolve(named, "resolving")) /\ UNCHANGED <<env, config, store>>
    BY <1>3 DEF Named, r, named
  <2> QED BY <2>4, <2>5, OneCallChanges
<1> QED BY <1>2, <1>3

LEMMA TargetedKeeps ==
  ASSUME RequestInv, NEW c \in Calls, Targeted(c)
  PROVE  RequestInv'
<1> DEFINE r == call[c]
<1>1. /\ CallInv(r) /\ r.phase = "resolving" /\ r.args.named /\ store.entry \in r.seen
      /\ ~r.opened /\ ~r.sent /\ r.failure = "none"
  BY DEF Targeted, RequestInv, CallInv, Awaits, Unopened
<1>2. r.snapshot.uri \in Uris
  <2>1. r.snapshot \in AnyEntry
    BY <1>1 DEF CallInv, CallTypes
  <2> HIDE DEF r
  <2> QED BY <2>1 DEF Uris, AnyEntry
<1>3. store.entry \in AnyEntry
  BY DEF RequestInv, Stores
<1>4. CASE ~Present(store.entry)
  <2>1. CallInv(Fail(r, "database"))
    BY <1>1, FailInv DEF ErrorKinds
  <2>2. Update(c, Fail(r, "database")) /\ UNCHANGED <<env, config, store>>
    BY <1>4 DEF Targeted
  <2> HIDE DEF r
  <2> QED BY <2>1, <2>2, OneCallChanges
<1>5. CASE Present(store.entry)
  <2>1. Update(c, Gate(r, r.snapshot.uri, store.entry)) /\ UNCHANGED <<env, config, store>>
    BY <1>5 DEF Targeted
  <2> HIDE DEF r
  <2>2. CallInv(Gate(r, r.snapshot.uri, store.entry))
    BY <1>1, <1>2, <1>3, GateInv
  <2> QED BY <2>1, <2>2, OneCallChanges
<1> QED BY <1>4, <1>5

LEMMA CheckedKeeps ==
  ASSUME RequestInv, NEW c \in Calls, Checked(c)
  PROVE  RequestInv'
<1> DEFINE r == call[c]
           policy == EvaluatePolicy(r.entry, r.args, env)
           next == [r EXCEPT !.phase = "opening"]
<1>1. PICK addresses \in SUBSET {"public", "private"} :
        LET kind == FirstRefusal(LateGates(r.args, r.entry, r.uri, policy, addresses))
        IN  Update(c, IF kind # "none" THEN Fail(r, kind) ELSE next)
  BY DEF Checked, PolicyOf
<1> DEFINE kind == FirstRefusal(LateGates(r.args, r.entry, r.uri, policy, addresses))
<1>2. UNCHANGED <<env, config, store>>
  BY DEF Checked
<1>3. /\ CallInv(r) /\ r.phase = "checking" /\ JudgedInForce(r) /\ r.args.tool = "query"
      /\ PassesEarly(r.args.statement, policy)
      /\ ~r.opened /\ ~r.sent /\ r.failure = "none"
  BY DEF Checked, RequestInv, CallInv, Checks, Unopened
<1>4. kind \in ErrorKinds /\ (kind = "none" => PassesLate(r.args, policy))
  BY LateGatesPass
<1>5. Update(c, IF kind # "none" THEN Fail(r, kind) ELSE next)
  BY <1>1
<1> HIDE DEF r, kind
<1>6. CASE kind # "none"
  <2>1. CallInv(Fail(r, kind))
    BY <1>3, <1>4, FailInv
  <2> QED BY <1>2, <1>5, <1>6, <2>1, OneCallChanges
<1>7. CASE kind = "none"
  <2>1. Permits(r.entry, r.args)
    BY <1>3, <1>4, <1>7, PassedIsPermitted
  <2>2. /\ next \in CallTypes
        /\ next.phase = "opening" /\ next.args = r.args /\ next.seen = r.seen
        /\ next.entry = r.entry /\ ~next.opened /\ ~next.sent /\ next.failure = "none"
    BY <1>3 DEF CallInv, CallTypes, Phases
  <2> HIDE DEF next
  <2>3. Permitted(next)
    BY <1>3, <2>1, <2>2 DEF Permitted, JudgedInForce
  <2>4. CallInv(next)
    BY <2>2, <2>3 DEF CallInv, Awaits, Checks, Unopened
  <2> QED BY <1>2, <1>5, <1>7, <2>4, OneCallChanges
<1> QED BY <1>6, <1>7

\* A change the invariant does not speak of.
LEMMA SameInv ==
  ASSUME NEW r, CallInv(r), NEW s \in CallTypes,
         s.phase = r.phase, s.opened = r.opened, s.sent = r.sent, s.failure = r.failure,
         s.args = r.args, s.entry = r.entry, s.seen = r.seen
  PROVE  CallInv(s)
  BY DEF CallInv, Awaits, Checks, Permitted, JudgedInForce

LEMMA QuietKeeps ==
  ASSUME RequestInv, NEW c \in Calls, VerdictUnheard(c) \/ Cancel(c)
  PROVE  RequestInv'
<1> DEFINE r == call[c]
<1>1. CallInv(r) /\ r \in CallTypes
  BY DEF RequestInv, CallInv
<1>2. CASE VerdictUnheard(c)
  <2>1. PICK addresses \in SUBSET {"public", "private"} :
           Update(c, [r EXCEPT !.checking = FALSE,
                               !.ignored = ~Opens(r.entry, r.uri, addresses)])
    BY <1>2 DEF VerdictUnheard
  <2> DEFINE s == [r EXCEPT !.checking = FALSE, !.ignored = ~Opens(r.entry, r.uri, addresses)]
  <2>2. UNCHANGED <<env, config, store>> /\ Update(c, s)
    BY <1>2, <2>1 DEF VerdictUnheard
  <2>3. (~Opens(r.entry, r.uri, addresses)) \in BOOLEAN
    BY Zenon
  <2> HIDE DEF r
  <2>4. /\ s \in CallTypes
        /\ s.phase = r.phase /\ s.opened = r.opened /\ s.sent = r.sent
        /\ s.failure = r.failure /\ s.args = r.args /\ s.entry = r.entry /\ s.seen = r.seen
    BY <1>1, <2>3 DEF CallTypes
  <2> HIDE DEF s
  <2>5. CallInv(s)
    BY <1>1, <2>4, SameInv
  <2> QED BY <2>2, <2>5, OneCallChanges
<1>3. CASE Cancel(c)
  <2> DEFINE s == [r EXCEPT !.answered = TRUE]
  <2>1. UNCHANGED <<env, config, store>> /\ Update(c, s)
    BY <1>3 DEF Cancel
  <2> HIDE DEF r
  <2>2. /\ s \in CallTypes
        /\ s.phase = r.phase /\ s.opened = r.opened /\ s.sent = r.sent
        /\ s.failure = r.failure /\ s.args = r.args /\ s.entry = r.entry /\ s.seen = r.seen
    BY <1>1 DEF CallTypes
  <2> HIDE DEF s
  <2>3. CallInv(s)
    BY <1>1, <2>2, SameInv
  <2> QED BY <2>1, <2>3, OneCallChanges
<1> QED BY <1>2, <1>3

LEMMA RunInv ==
  ASSUME NEW r, CallInv(r), Permitted(r), NEW s \in CallTypes,
         s.phase \in {"running", "done"}, s.failure = "none",
         s.args = r.args, s.entry = r.entry, s.seen = r.seen
  PROVE  CallInv(s)
<1>1. Permitted(s)
  BY DEF Permitted, JudgedInForce
<1> QED BY <1>1 DEF CallInv, Awaits, Checks, Unopened

LEMMA RunKeeps ==
  ASSUME RequestInv, NEW c \in Calls, Open(c) \/ Send(c) \/ Finish(c)
  PROVE  RequestInv'
<1> DEFINE r == call[c]
           opened == [r EXCEPT !.phase = "running", !.opened = TRUE]
           sent == [r EXCEPT !.sent = TRUE]
           finished == [r EXCEPT !.phase = "done", !.answered = TRUE]
<1>1. CallInv(r) /\ r \in CallTypes /\ r.phase \in {"opening", "running"}
      /\ r.failure = "none" /\ Permitted(r)
  BY DEF RequestInv, CallInv, Open, Send, Finish
<1>2. UNCHANGED <<env, config, store>>
  BY DEF Open, Send, Finish
<1>3. CASE Open(c)
  <2>1. Update(c, opened)
    BY <1>3 DEF Open
  <2> HIDE DEF r
  <2>2. opened \in CallTypes /\ opened.phase = "running" /\ opened.failure = "none"
        /\ opened.args = r.args /\ opened.entry = r.entry /\ opened.seen = r.seen
    BY <1>1 DEF CallTypes, Phases
  <2> HIDE DEF opened
  <2>3. CallInv(opened)
    BY <1>1, <2>2, RunInv
  <2> QED BY <1>2, <2>1, <2>3, OneCallChanges
<1>4. CASE Send(c)
  <2>1. Update(c, sent) /\ r.phase = "running"
    BY <1>4 DEF Send
  <2> HIDE DEF r
  <2>2. sent \in CallTypes /\ sent.phase = "running" /\ sent.failure = "none"
        /\ sent.args = r.args /\ sent.entry = r.entry /\ sent.seen = r.seen
    BY <1>1, <2>1 DEF CallTypes
  <2> HIDE DEF sent
  <2>3. CallInv(sent)
    BY <1>1, <2>2, RunInv
  <2> QED BY <1>2, <2>1, <2>3, OneCallChanges
<1>5. CASE Finish(c)
  <2>1. Update(c, finished)
    BY <1>5 DEF Finish
  <2> HIDE DEF r
  <2>2. finished \in CallTypes /\ finished.phase = "done" /\ finished.failure = "none"
        /\ finished.args = r.args /\ finished.entry = r.entry /\ finished.seen = r.seen
    BY <1>1 DEF CallTypes, Phases
  <2> HIDE DEF finished
  <2>3. CallInv(finished)
    BY <1>1, <2>2, RunInv
  <2> QED BY <1>2, <2>1, <2>3, OneCallChanges
<1> QED BY <1>3, <1>4, <1>5

LEMMA FailingKeeps ==
  ASSUME RequestInv, NEW c \in Calls, CredentialFails(c) \/ DatabaseFails(c)
  PROVE  RequestInv'
<1>1. CallInv(call[c])
  BY DEF RequestInv
<1>2. CASE CredentialFails(c)
  <2>1. ~call[c].opened
    BY <1>1, <1>2 DEF CredentialFails, CallInv, Unopened
  <2>2. CallInv(Fail(call[c], "validation"))
    BY <1>1, <2>1, FailInv DEF ErrorKinds
  <2> QED BY <1>2, <2>2, OneCallChanges DEF CredentialFails
<1>3. CASE DatabaseFails(c)
  <2>1. PICK kind \in {"database", "timeout"} : Update(c, Fail(call[c], kind))
    BY <1>3 DEF DatabaseFails
  <2>2. CallInv(Fail(call[c], kind))
    BY <1>1, FailInv DEF ErrorKinds
  <2> QED BY <1>3, <2>1, <2>2, OneCallChanges DEF DatabaseFails
<1> QED BY <1>2, <1>3

\* A reload puts another entry in force, and the calls under way have seen it.
LEMMA ReloadKeeps ==
  ASSUME RequestInv, Reload
  PROVE  RequestInv'
<1>1. store' \in Stores /\ store'.entry \in AnyEntry
  <2>1. store' \in Stores
    BY LoadedTypes DEF Reload, RequestInv
  <2> QED BY <2>1 DEF Stores
<1>2. env' = env /\ config' = config /\ DOMAIN call' = Calls
  BY DEF Reload
<1>3. ASSUME NEW c \in Calls PROVE CallInv(call[c])'
  <2> DEFINE r == call[c]
             s == [r EXCEPT !.seen = @ \cup {store'.entry}]
  <2>1. CallInv(r) /\ r \in CallTypes
    BY DEF RequestInv, CallInv
  <2>2. CASE r.phase \in {"naming", "resolving"}
    <3>1. call'[c] = s
      BY <2>2 DEF Reload
    <3> HIDE DEF r
    <3>2. /\ s \in CallTypes
          /\ s.phase = r.phase /\ s.opened = r.opened /\ s.sent = r.sent
          /\ s.failure = r.failure /\ s.args = r.args
          /\ s.seen = r.seen \cup {store'.entry}
      BY <1>1, <2>1 DEF CallTypes
    <3> HIDE DEF s
    <3>3. r.args.named /\ ~r.opened /\ ~r.sent /\ r.failure = "none"
      BY <2>1, <2>2 DEF CallInv, Awaits, Unopened
    <3> QED BY <2>2, <3>1, <3>2, <3>3 DEF CallInv, Awaits, Checks, Unopened
  <2>3. CASE r.phase \notin {"naming", "resolving"}
    <3>1. call'[c] = r
      BY <2>3 DEF Reload
    <3> HIDE DEF r
    <3> QED BY <1>2, <2>1, <2>3, <3>1
            DEF CallInv, Awaits, Checks, Permitted, JudgedInForce, Permits
  <2> QED BY <2>2, <2>3
<1> QED BY <1>1, <1>2, <1>3 DEF RequestInv

LEMMA RestKeeps ==
  ASSUME RequestInv, UNCHANGED <<env, store, call>>, config' \in Configs
  PROVE  RequestInv'
  BY DEF RequestInv, CallInv, Awaits, Checks, Permitted, JudgedInForce, Permits

LEMMA StepInv == RequestInv /\ [RequestNext]_requestVars => RequestInv'
<1> SUFFICES ASSUME RequestInv, [RequestNext]_requestVars PROVE RequestInv'
  OBVIOUS
<1>1. CASE UNCHANGED requestVars
  BY <1>1, RestKeeps DEF requestVars, RequestInv
<1>2. CASE EditConfig
  BY <1>2, RestKeeps DEF EditConfig
<1>3. CASE Reload
  BY <1>3, ReloadKeeps
<1>4. ASSUME NEW c \in Calls,
             \/ \E args \in Requestable : Begin(c, args)
             \/ Named(c) \/ Targeted(c) \/ CredentialFails(c) \/ Checked(c)
             \/ VerdictUnheard(c) \/ Open(c) \/ Send(c) \/ Finish(c)
             \/ DatabaseFails(c) \/ Cancel(c)
      PROVE  RequestInv'
  BY <1>4, BeginKeeps, NamedKeeps, TargetedKeeps, CheckedKeeps, QuietKeeps, RunKeeps,
     FailingKeeps
<1> QED BY <1>1, <1>2, <1>3, <1>4 DEF RequestNext

LEMMA SpecInv == RequestSpec => []RequestInv
  BY InitInv, StepInv, PTL DEF RequestSpec

\* A statement that reaches the database was permitted, as a whole, by an entry in force
\* during the call (run() of registry.js), whatever is edited and reloaded between its awaits.
THEOREM RunsOnlyWhatIsPermittedCorrect == RequestSpec => []RunsOnlyWhatIsPermitted
<1>1. RequestInv => RunsOnlyWhatIsPermitted
  BY DEF RequestInv, CallInv, Permitted, JudgedInForce, RunsOnlyWhatIsPermitted, InForce
<1> QED BY <1>1, SpecInv, PTL

\* What ends as a validation or policy error has opened nothing (the gates of run() and
\* describe(), registry.js), however the steps of the calls interleave.
THEOREM RefusalsOpenedNothingCorrect == RequestSpec => []RefusalsOpenedNothing
<1>1. RequestInv => RefusalsOpenedNothing
  BY DEF RequestInv, CallInv, RefusalsOpenedNothing
<1> QED BY <1>1, SpecInv, PTL

\* The state of every call and of the profile store has its type.
THEOREM RequestTypeCorrect == RequestSpec => []RequestTypeOK
<1>1. RequestInv => RequestTypeOK
  BY DEF RequestInv, CallInv, CallTypes, Stores, AnyEntry, Phases, RequestTypeOK
<1> QED BY <1>1, SpecInv, PTL
=============================================================================
