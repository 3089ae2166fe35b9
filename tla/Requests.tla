------------------------------- MODULE Requests -------------------------------
(***************************************************************************)
(* One statement from tools/call to the connection: handleQuery and        *)
(* handleSchema of src/src/index.js, resolveTarget(), run() and describe() *)
(* of src/src/core/registry.js, and the ProfileStore both read, while the  *)
(* config file is edited and db_list reloads it.  A call waits where the   *)
(* code awaits: for a credential (twice, the handler resolves the target   *)
(* and run() resolves it again), for the resolver, for the connection.     *)
(***************************************************************************)
EXTENDS Policy, Sequences

CONSTANTS
    Calls,
    Entries,        \* the validated entries the profile may have in the file
    Requestable,    \* the arguments a call may have
    Environments,   \* the settings the server may be started with
    Routable        \* the schemes of ROUTES

ASSUME CallsAssumption == Calls # {}

VARIABLES
    env,        \* process.env, fixed at the start
    config,     \* the config file: missing, broken, or whole with the entry of the profile
    store,      \* ProfileStore: the entry kept, whether there was a file, and the registry's
                \* _profilesError
    call        \* call -> what is known of it

requestVars == <<env, config, store, call>>

NoUri == NoEntry.uri
Present(entry) == entry.name # "none"

----------------------------------------------------------------------------
\* The profile store.

MissingFile == [state |-> "missing", entry |-> NoEntry]
BrokenFile == [state |-> "broken", entry |-> NoEntry]
Configs == {MissingFile, BrokenFile}
           \cup {[state |-> "whole", entry |-> e] : e \in Entries \cup {NoEntry}}

\* load(): no file empties the store; a file that cannot be read or does not validate throws
\* before anything is assigned.
Loaded(kept, file) ==
    CASE file.state = "missing" -> [kept EXCEPT !.entry = NoEntry, !.source = FALSE]
      [] file.state = "broken" -> kept
      [] file.state = "whole" -> [kept EXCEPT !.entry = file.entry, !.source = TRUE]

\* The constructor loads once; an error is remembered, and _loaded is set already, so no later
\* load() reads the file again.
Constructed(file) ==
    [Loaded([entry |-> NoEntry, source |-> FALSE, error |-> FALSE], file)
        EXCEPT !.error = (file.state = "broken")]

\* A call still to be aimed at a database: nobody else reads the store.
Pending == {c \in Calls : call[c].phase \in {"idle", "naming", "resolving"}}

\* The operator saves another version of the file.  (Bound of the model, here and below:
\* only while some call can still tell the difference.)
EditConfig ==
    /\ Pending # {}
    /\ config' \in Configs \ {config}
    /\ UNCHANGED <<env, store, call>>

\* db_list: reload(), then list().  Whoever is in flight sees the new entries from here on.
Reload ==
    /\ Pending # {}
    /\ store' = Loaded(store, config)
    /\ call' = [c \in Calls |->
                 IF call[c].phase \in {"naming", "resolving"}
                 THEN [call[c] EXCEPT !.seen = @ \cup {store'.entry}]
                 ELSE call[c]]
    /\ UNCHANGED <<env, config>>

----------------------------------------------------------------------------
\* The gates of run() and describe(), in the order of the code.

ReadOnly(policy) == policy.readOnly

\* A gate is what it refuses and the kind of error it throws; the first one decides.
FirstRefusal(gates) ==
    LET refusing == {i \in DOMAIN gates : gates[i].refuses}
    IN  IF refusing = {} THEN "none"
        ELSE gates[CHOOSE i \in refusing : \A j \in refusing : i <= j].kind

ArgumentGates(args, uri) ==
    << [refuses |-> uri.scheme \notin Routable, kind |-> "validation"],
       [refuses |-> ~args.wellFormed, kind |-> "validation"] >>

\* run(), up to where it awaits the connection policy.
StatementGates(args, uri, policy) ==
    ArgumentGates(args, uri) \o
    << [refuses |-> args.statement.blank, kind |-> "validation"],
       [refuses |-> ReadOnly(policy) /\ ~args.statement.reads, kind |-> "policy"],
       [refuses |-> args.statement.code, kind |-> "policy"],
       [refuses |-> args.statement.many, kind |-> "validation"] >>

\* isConnectionPolicyStrict(): a profile, or any setting that restricts connections.
Strict(entry) == Present(entry) \/ ~env.adHoc \/ env.restricts

\* The lenient pass drops the private-address checks and nothing else; what it refuses is
\* logged once and let through.
Opens(entry, uri, addresses) ==
    IF Strict(entry)
    THEN ConnectionAllowed(uri, entry, env, addresses)
    ELSE TRUE

\* assertDestructiveAllowed() and assertSqlAllowlist(), after the answer.
LateGates(args, entry, uri, policy, addresses) ==
    << [refuses |-> ~Opens(entry, uri, addresses), kind |-> "policy"],
       [refuses |-> /\ args.statement.destructive
                    /\ \/ ReadOnly(policy)
                       \/ /\ args.allowDestructive # "yes"
                          /\ ~policy.allowDestructive
                          /\ env.allowDestructive # "yes",
        kind |-> "policy"],
       [refuses |-> policy.tables # {} /\ ~(args.statement.tables \subseteq policy.tables),
        kind |-> "policy"] >>

----------------------------------------------------------------------------
\* One call.

NoStatement == [blank |-> TRUE, reads |-> TRUE, code |-> FALSE, many |-> FALSE,
                destructive |-> FALSE, tables |-> {}]
NoArgs == [tool |-> "query", named |-> FALSE, uri |-> NoEntry.uri, wellFormed |-> TRUE,
           readOnly |-> "unset", allowDestructive |-> "unset", statement |-> NoStatement]

Idle == [phase |-> "idle", args |-> NoArgs, snapshot |-> NoEntry, first |-> NoUri,
         uri |-> NoUri, entry |-> NoEntry, checking |-> FALSE, ignored |-> FALSE,
         opened |-> FALSE, sent |-> FALSE, failure |-> "none", answered |-> FALSE, seen |-> {}]

PolicyOf(c) == EvaluatePolicy(call[c].entry, call[c].args, env)

Update(c, record) == call' = [call EXCEPT ![c] = record]

\* The call is over with this kind of error; an answer already given stays given.
Fail(record, kind) == [record EXCEPT !.phase = "done", !.failure = kind, !.answered = TRUE]

\* profiles.resolve(): the entry is read here, before the credential is waited for.
BeginResolve(record, phase) ==
    IF Present(store.entry)
    THEN [record EXCEPT !.phase = phase, !.snapshot = store.entry]
    ELSE Fail(record, "validation")

\* What run() and describe() do with a target: the gates that need no answer, and then the
\* connection policy.  describe() does not wait for it.
Gate(record, uri, entry) ==
    LET policy == EvaluatePolicy(entry, record.args, env)
        aimed == [record EXCEPT !.uri = uri, !.entry = entry]
        query == record.args.tool = "query"
        kind == IF query
                THEN FirstRefusal(StatementGates(record.args, uri, policy))
                ELSE FirstRefusal(ArgumentGates(record.args, uri))
    IN  IF kind # "none" THEN Fail(aimed, kind)
        ELSE [aimed EXCEPT !.phase = IF query THEN "checking" ELSE "opening",
                           !.checking = ~query]

\* The handler's resolveTarget(): exactly one of profile and uri, and a raw uri only where
\* ad-hoc ones are allowed.  A raw uri is not waited for, here or in run().
Begin(c, args) ==
    LET record == [Idle EXCEPT !.args = args, !.seen = {store.entry}]
    IN  /\ call[c].phase = "idle"
        /\ Update(c,
             IF args.named = (args.uri # NoEntry.uri) THEN Fail(record, "validation")
             ELSE IF args.named THEN BeginResolve(record, "naming")
             ELSE IF ~env.adHoc THEN Fail(record, "policy")
             ELSE Gate([record EXCEPT !.first = args.uri], args.uri, NoEntry))
        /\ UNCHANGED <<env, config, store>>

\* The first answer: the handler has what it logs and what a cancellation will abandon, and
\* run() starts over from the name.  An entry that a reload took away throws outside the
\* registry's own errors.
Named(c) ==
    /\ call[c].phase = "naming"
    /\ Update(c, IF ~Present(store.entry) THEN Fail(call[c], "database")
                 ELSE BeginResolve([call[c] EXCEPT !.first = call[c].snapshot.uri], "resolving"))
    /\ UNCHANGED <<env, config, store>>

\* The second answer: the connection string of the snapshot, the policy of the entry the store
\* has by now.
Targeted(c) ==
    /\ call[c].phase = "resolving"
    /\ Update(c, IF ~Present(store.entry) THEN Fail(call[c], "database")
                 ELSE Gate(call[c], call[c].snapshot.uri, store.entry))
    /\ UNCHANGED <<env, config, store>>

\* The variable is unset, the file unreadable, the command failed or ran out of its time.
CredentialFails(c) ==
    /\ call[c].phase \in {"naming", "resolving"}
    /\ call[c].snapshot.secret # "none"
    /\ Update(c, Fail(call[c], "validation"))
    /\ UNCHANGED <<env, config, store>>

\* The resolver answers, when it was asked: the gates that are left.
Checked(c) ==
    /\ call[c].phase = "checking"
    /\ \E addresses \in SUBSET {"public", "private"} :
         LET kind == FirstRefusal(LateGates(call[c].args, call[c].entry, call[c].uri,
                                            PolicyOf(c), addresses))
         IN  Update(c, IF kind # "none" THEN Fail(call[c], kind)
                       ELSE [call[c] EXCEPT !.phase = "opening"])
    /\ UNCHANGED <<env, config, store>>

\* The verdict describe() does not wait for: a refusal rejects a promise nobody holds.
VerdictUnheard(c) ==
    /\ call[c].checking
    /\ \E addresses \in SUBSET {"public", "private"} :
         Update(c, [call[c] EXCEPT !.checking = FALSE,
                                   !.ignored = ~Opens(call[c].entry, call[c].uri, addresses)])
    /\ UNCHANGED <<env, config, store>>

\* Open, while the verdict on the connection is still to come.
Open_BeforeVerdict(c) ==
    /\ call[c].phase \in {"checking", "opening"} /\ ~call[c].opened
    /\ Update(c, [call[c] EXCEPT !.opened = TRUE,
                                 !.phase = IF @ = "checking" THEN @ ELSE "running"])
    /\ UNCHANGED <<env, config, store>>

\* withConnection(): a connection to the resolved string, and the statement on it.
Open(c) ==
    /\ call[c].phase = "opening"
    /\ Update(c, [call[c] EXCEPT !.phase = "running", !.opened = TRUE])
    /\ UNCHANGED <<env, config, store>>

Send(c) ==
    /\ call[c].phase = "running" /\ ~call[c].sent
    /\ Update(c, [call[c] EXCEPT !.sent = TRUE])
    /\ UNCHANGED <<env, config, store>>

Finish(c) ==
    /\ call[c].phase = "running" /\ call[c].sent
    /\ Update(c, [call[c] EXCEPT !.phase = "done", !.answered = TRUE])
    /\ UNCHANGED <<env, config, store>>

\* DatabaseFails, with an error nobody has classified.
DatabaseFails_Unclassified(c) ==
    /\ call[c].phase \in {"opening", "running"}
    /\ \E kind \in {"database", "timeout", "unknown"} :
          Update(c, Fail(call[c], kind))
    /\ UNCHANGED <<env, config, store>>

\* The database, the driver or the timeout; classifyError() gives what has no kind one.
DatabaseFails(c) ==
    /\ call[c].phase \in {"opening", "running"}
    /\ \E kind \in {"database", "timeout"} :
          Update(c, Fail(call[c], kind))
    /\ UNCHANGED <<env, config, store>>

\* notifications/cancelled, once run() has been called: the client is answered, the work goes on.
Cancel(c) ==
    /\ call[c].phase \in {"resolving", "checking", "opening", "running"}
    /\ ~call[c].answered
    /\ Update(c, [call[c] EXCEPT !.answered = TRUE])
    /\ UNCHANGED <<env, config, store>>

RequestInit ==
    /\ env \in Environments
    /\ config \in Configs
    /\ store = Constructed(config)
    /\ call = [c \in Calls |-> Idle]

RequestNext ==
    \/ EditConfig
    \/ Reload
    \/ \E c \in Calls :
         \/ \E args \in Requestable : Begin(c, args)
         \/ Named(c)
         \/ Targeted(c)
         \/ CredentialFails(c)
         \/ Checked(c)
         \/ VerdictUnheard(c)
         \/ Open(c)
         \/ Send(c)
         \/ Finish(c)
         \/ DatabaseFails(c)
         \/ Cancel(c)

RequestSpec == RequestInit /\ [][RequestNext]_requestVars

----------------------------------------------------------------------------
\* Properties.

ErrorKinds == {"none", "validation", "policy", "database", "timeout"}
Uris == {e.uri : e \in Entries \cup {NoEntry}} \cup {a.uri : a \in Requestable}

RequestTypeOK ==
    /\ env \in Environments
    /\ config \in Configs
    /\ store \in [entry : Entries \cup {NoEntry}, source : BOOLEAN, error : BOOLEAN]
    /\ \A c \in Calls :
          /\ call[c].phase \in {"idle", "naming", "resolving", "checking", "opening", "running", "done"}
          /\ call[c].args \in Requestable \cup {NoArgs}
          /\ {call[c].snapshot, call[c].entry} \cup call[c].seen \subseteq Entries \cup {NoEntry}
          /\ {call[c].first, call[c].uri} \subseteq Uris
          /\ {call[c].checking, call[c].ignored, call[c].opened, call[c].sent, call[c].answered} \subseteq BOOLEAN
          /\ call[c].failure \in ErrorKinds

\* What the documentation asks of a statement that runs under an entry: no code, one
\* statement, a write only where the nearest source that speaks says so, a schema change
\* only with the second opt-in as well, and only the tables of the profile.
Permits(entry, args) ==
    LET stmt == args.statement
        writable == Pick(args.readOnly, entry.readOnly, env.readOnly) = "no"
    IN  /\ ~stmt.blank /\ ~stmt.many /\ ~stmt.code
        /\ ~stmt.reads => writable
        /\ stmt.destructive =>
              writable /\ "yes" \in {args.allowDestructive, entry.allowDestructive, env.allowDestructive}
        /\ entry.tables = {} \/ stmt.tables \subseteq entry.tables

\* The entries a call may be judged by: those the store held while it was under way.
InForce(c) == IF call[c].args.named THEN call[c].seen ELSE {NoEntry}

\* run(): a statement that reaches the database was permitted, as a whole, by an entry that
\* was in force during the call, whatever was edited and reloaded meanwhile.
RunsOnlyWhatIsPermitted ==
    \A c \in Calls :
        (call[c].sent /\ call[c].args.tool = "query") =>
            \E entry \in InForce(c) : Permits(entry, call[c].args)

\* "Every gate runs before a socket is opened": what ends as a validation or policy error, in
\* words that say nothing was sent to the database, has opened nothing.
RefusalsOpenedNothing ==
    \A c \in Calls : call[c].failure \in {"validation", "policy"} => ~call[c].opened

\* docs/connections.md: resolve() "reads the entry, materialises the credential into a
\* connection string, and builds the merged policy": a connection is opened under the policy
\* of the entry it was built from.
ConnectionFitsPolicy ==
    \A c \in Calls :
        (call[c].opened /\ call[c].args.named) => call[c].entry = call[c].snapshot

\* raceCancellation(): what a cancellation abandons is the connection the statement runs on.
CancelFindsConnection ==
    [][\A c \in Calls :
          (call[c].phase = "running" /\ ~call[c].answered /\ Cancel(c)) =>
              call[c].first = call[c].uri]_requestVars
=============================================================================
