-------------------------------- MODULE Policy --------------------------------
(***************************************************************************)
(* src/src/core/policy.js: the policy one call runs under, whether its     *)
(* connection may be opened, and whether its statement needs the second    *)
(* opt-in.  Operators only; the registry applies them.                     *)
(*                                                                         *)
(* A flag that may be left out is "yes", "no" or "unset".                  *)
(***************************************************************************)
EXTENDS Naturals, FiniteSets

Flag == {"yes", "no", "unset"}

\* pick(): the first of the sources that says anything.
Pick(call, profile, environment) ==
    IF call # "unset" THEN call
    ELSE IF profile # "unset" THEN profile
    ELSE environment

\* A call with no profile is judged as an entry that says nothing.
NoEntry == [name |-> "none", uri |-> [scheme |-> "none", host |-> "none", spelling |-> "name"],
            secret |-> "none", readOnly |-> "unset", allowDestructive |-> "unset",
            hosts |-> {}, roots |-> {}, tables |-> {}]

\* EvaluatePolicy, read-only only where somebody asks for it.
EvaluatePolicy_WritableByDefault(entry, args, env) ==
    LET readOnly == Pick(args.readOnly, entry.readOnly, env.readOnly) = "yes"
        allows == Pick(args.allowDestructive, entry.allowDestructive, env.allowDestructive) = "yes"
    IN  [readOnly |-> readOnly,
         allowDestructive |-> allows,
         tables |-> entry.tables,
         destructiveAllowed |-> args.statement.destructive => (allows /\ ~readOnly)]

\* evaluatePolicy(): the call over the profile over the environment over the defaults, which
\* are read-only and nothing destructive.
EvaluatePolicy(entry, args, env) ==
    LET readOnly == Pick(args.readOnly, entry.readOnly, env.readOnly) # "no"
        allows == Pick(args.allowDestructive, entry.allowDestructive, env.allowDestructive) = "yes"
    IN  [readOnly |-> readOnly,
         allowDestructive |-> allows,
         tables |-> entry.tables,
         destructiveAllowed |-> args.statement.destructive => (allows /\ ~readOnly)]

\* checkSqlitePathPolicy(): an in-memory database needs no permission; a path is absolute and,
\* where any root is named, really inside one of those it is inside by its text.
PathAllowed(path, entry, env) ==
    LET roots == entry.roots \cup env.roots
        containing == roots \cap path.under
    IN  \/ path.memory
        \/ /\ path.absolute
           /\ IF roots = {} THEN ~env.strictPaths
              ELSE containing # {} /\ ~path.linksOut

HostListed(host, list) == list = {} \/ host \in list \/ "*" \in list

\* The checks of checkConnectionPolicy() that ask nobody: scheme, path, host lists and the
\* spellings of an address that are private whatever a resolver says.
StaticallyAllowed(uri, entry, env) ==
    /\ uri.scheme \in env.schemes
    /\ IF uri.scheme = "sqlite"
       THEN PathAllowed(uri.path, entry, env)
       ELSE /\ uri.host # "none"
            /\ HostListed(uri.host, entry.hosts)
            /\ HostListed(uri.host, env.hosts)
            /\ env.privateHosts \/ uri.spelling # "private"

\* The name goes to the resolver only when the address is not spelled out.
NeedsLookup(uri, entry, env) ==
    /\ StaticallyAllowed(uri, entry, env)
    /\ uri.scheme # "sqlite" /\ ~env.privateHosts /\ uri.spelling = "name"

\* Every address the name maps to is looked at; a lookup that fails has none.
ConnectionAllowed(uri, entry, env, addresses) ==
    /\ StaticallyAllowed(uri, entry, env)
    /\ NeedsLookup(uri, entry, env) => addresses # {} /\ "private" \notin addresses
=============================================================================
