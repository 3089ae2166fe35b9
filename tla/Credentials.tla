----------------------------- MODULE Credentials -----------------------------
(***************************************************************************)
(* From a profile as the config file has it to the connection string a     *)
(* driver is given: validateProfileEntry, stripCredentialFromUri,          *)
(* resolveCredential, injectCredentials and resolve() of                   *)
(* src/src/core/profiles.js.  A connection string is what splitting it     *)
(* yields: the userinfo of its authority and the pairs of its query, in    *)
(* order.  The source of a password may change while it is asked.          *)
(***************************************************************************)
EXTENDS Naturals, Sequences

CONSTANTS
    RawProfiles,    \* the profiles a config file may hold
    Secrets         \* non-empty passwords

None == "none"
Empty == ""

ASSUME SecretsAssumption == {None, Empty} \cap Secrets = {}

VARIABLES
    raw,        \* the profile in the file
    keeper,     \* what the password's source would give now, and who reads a keychain
    offered,    \* what it would have given at some time since it was asked
    resolving,  \* where resolve() stands
    outcome     \* the connection string, or the error

credentialVars == <<raw, keeper, offered, resolving, outcome>>

----------------------------------------------------------------------------
\* The profile and its connection string.

\* Userinfo before the last @: a name, and after the first colon a password.
NoUserinfo == [present |-> FALSE, name |-> Empty, password |-> None]
NoAddress == [userinfo |-> NoUserinfo, query |-> <<>>]

\* What splitAuthority and the split at & and = yield.
ASSUME ProfilesAssumption ==
    \A profile \in RawProfiles :
        /\ profile.uri \in [userinfo : [present : BOOLEAN, name : STRING, password : STRING],
                           query : Seq([key : STRING, value : STRING])]
        /\ profile.uri.userinfo.present \/ profile.uri.userinfo = NoUserinfo

\* CREDENTIAL_QUERY_PARAMS: what one logs in with, and the files and the passphrase of a client
\* certificate.
LoginParams == {"password", "auth"}
CertificateParams == {"sslcert", "sslkey", "sslpassword"}
IsSecretParam(pair) == pair.key \in LoginParams \cup CertificateParams
IsPlainParam(pair) == ~IsSecretParam(pair)
HasValue(pair) == pair.value # None

\* The pairs that stay, in their order.
PlainParams(query) ==
    LET plain[k \in 0 .. Len(query)] ==
          IF k = 0 THEN <<>>
          ELSE IF IsPlainParam(query[k]) THEN Append(plain[k - 1], query[k])
          ELSE plain[k - 1]
    IN  plain[Len(query)]

\* What validateProfileEntry accepts, the form of single fields being right.
Accepted(profile) ==
    /\ profile.sound
    /\ profile.uri # NoAddress \/ profile.path
    /\ profile.path => profile.driver \in {None, "sqlite"} /\ profile.password = None

\* The name a password can be attached to: the field, else the one in the connection string.
UserOf(profile) ==
    IF profile.username # None THEN profile.username
    ELSE IF profile.uri.userinfo.name # Empty THEN profile.uri.userinfo.name
    ELSE None

\* StripCredential, of the userinfo only.
StripCredential_Userinfo(uri) ==
    [uri |-> [uri EXCEPT !.userinfo.password = None],
     password |-> uri.userinfo.password]

\* The string without a secret, and the secret: the userinfo's, else the first in the query
\* that has a value.
StripCredential(uri) ==
    LET given == {i \in DOMAIN uri.query : IsSecretParam(uri.query[i]) /\ HasValue(uri.query[i])}
        first == CHOOSE i \in given : \A j \in given : i <= j
    IN  [uri |-> [userinfo |-> [uri.userinfo EXCEPT !.password = None],
                  query |-> PlainParams(uri.query)],
         password |-> IF uri.userinfo.password # None THEN uri.userinfo.password
                      ELSE IF given # {} THEN uri.query[first].value
                      ELSE None]

Failed(why) == [state |-> "error", why |-> why]
Connects(uri) == [state |-> "connects", uri |-> uri]

\* A name in the userinfo, an empty one too, stays; without a userinfo the user's is put there.
InjectCredentials(uri, password, user) ==
    IF password \in {None, Empty} THEN Connects(uri)
    ELSE IF ~uri.userinfo.present /\ user = None THEN Failed("no username")
    ELSE Connects([uri EXCEPT
            !.userinfo = [present |-> TRUE, password |-> password,
                          name |-> IF uri.userinfo.present THEN uri.userinfo.name ELSE user]])

\* A source has nothing to give (unset, not a small regular file, a command that fails or is
\* stopped, no reader), or gives a text.  Only the environment and a provider refuse an empty
\* one: what a file or a command gives is taken as it comes.
SourceFails(kind, kept) ==
    \/ kind # "literal" /\ kept.holds = None
    \/ kind = "env" /\ kept.holds = Empty
    \/ kind = "keychain" /\ \/ kept.reader = None
                            \/ kept.reader = "provider" /\ kept.holds = Empty

----------------------------------------------------------------------------
\* resolve()

\* What it does with the answer: an explicit password wins over the one in the string.
Assembled(profile, answer) ==
    LET stripped == StripCredential(profile.uri)
        password == IF profile.password # None THEN answer ELSE stripped.password
    IN  IF profile.uri = NoAddress THEN Connects(NoAddress)
        ELSE InjectCredentials(stripped.uri, password, UserOf(profile))

Resolve ==
    /\ resolving = "idle"
    /\ CASE ~Accepted(raw) ->
              resolving' = "settled" /\ outcome' = Failed("invalid") /\ UNCHANGED offered
         [] Accepted(raw) /\ raw.password = None ->
              resolving' = "settled" /\ outcome' = Assembled(raw, None) /\ UNCHANGED offered
         [] OTHER ->
              resolving' = "asking" /\ offered' = {keeper.holds} /\ UNCHANGED outcome
    /\ UNCHANGED <<raw, keeper>>

\* The secret is rotated, taken away or emptied while a command or a keychain is asked; a
\* literal stands in the file.
SourceChanges ==
    /\ resolving = "asking" /\ raw.password # "literal"
    /\ \E held \in Secrets \cup {None, Empty} :
          /\ held \notin offered
          /\ keeper' = [keeper EXCEPT !.holds = held]
          /\ offered' = offered \cup {held}
    /\ UNCHANGED <<raw, resolving, outcome>>

SourceAnswers ==
    /\ resolving = "asking"
    /\ resolving' = "settled"
    /\ outcome' = IF SourceFails(raw.password, keeper) THEN Failed("source")
                  ELSE Assembled(raw, keeper.holds)
    /\ UNCHANGED <<raw, keeper, offered>>

CredentialsInit ==
    /\ raw \in RawProfiles
    /\ keeper \in [holds : Secrets \cup {None, Empty}, reader : {"provider", "command", None}]
    /\ raw.password = "literal" => keeper.holds # None
    /\ raw.password # "keychain" => keeper.reader = None
    /\ raw.password = None => keeper.holds = None
    /\ offered = {} /\ resolving = "idle" /\ outcome = Failed("unresolved")

CredentialsNext == Resolve \/ SourceChanges \/ SourceAnswers

CredentialsSpec == CredentialsInit /\ [][CredentialsNext]_credentialVars

----------------------------------------------------------------------------
\* Properties.

CredentialsTypeOK ==
    /\ raw \in RawProfiles
    /\ keeper \in [holds : Secrets \cup {None, Empty}, reader : {"provider", "command", None}]
    /\ offered \subseteq Secrets \cup {None, Empty}
    /\ resolving \in {"idle", "asking", "settled"}
    /\ outcome.state \in {"error", "connects"}

\* What a driver reads from a connection string: who it is, every secret it could
\* authenticate with, and what else it was told.
UserIn(uri) == IF uri.userinfo.present THEN uri.userinfo.name ELSE None
SecretsIn(uri) ==
    ({uri.userinfo.password} \cup
     {uri.query[i].value : i \in {j \in DOMAIN uri.query : IsSecretParam(uri.query[j])}})
        \ {None, Empty}
Told(uri) == PlainParams(uri.query)

\* A secret is there and empty: it counts as the password, and the driver gets none.
GivesEmpty(uri) ==
    \/ uri.userinfo.password = Empty
    \/ \E i \in DOMAIN uri.query : IsSecretParam(uri.query[i]) /\ uri.query[i].value = Empty

\* resolve(), toUri(): what is connected to is what the profile says.  The user and the other
\* parameters are the profile's; there is one password at most, of the profile's own source
\* while it was asked if it names one and of its connection string if not, the userinfo's
\* before the query's; and the string that may be logged is the same with no password.
ConnectsAsConfigured ==
    outcome.state = "connects" =>
        LET got == outcome.uri
            safe == StripCredential(raw.uri).uri
        IN  /\ Accepted(raw)
            /\ UserIn(got) \in {UserIn(raw.uri)} \cup (IF raw.uri.userinfo.present THEN {}
                                                    ELSE {raw.username})
            /\ Told(got) = Told(raw.uri)
            /\ \A i \in DOMAIN got.query : ~IsSecretParam(got.query[i])
            /\ IF raw.password # None
               THEN \E held \in offered \ {None} : SecretsIn(got) = {held} \ {Empty}
               ELSE /\ SecretsIn(got) \subseteq SecretsIn(raw.uri)
                    /\ SecretsIn(raw.uri) # {} /\ ~GivesEmpty(raw.uri) => SecretsIn(got) # {}
                    /\ raw.uri.userinfo.password \in Secrets
                          => SecretsIn(got) = {raw.uri.userinfo.password}
            /\ SecretsIn(safe) = {} /\ UserIn(safe) = UserIn(raw.uri) /\ Told(safe) = Told(raw.uri)

\* stripCredentialFromUri(): "the secret removed, so a caller can put it back once it has a
\* source it trusts": a profile that says no more than its connection string connects with the
\* client certificate and the key it names.
CertificatesStay ==
    (outcome.state = "connects" /\ raw.password = None) =>
        \A i \in DOMAIN raw.uri.query :
            raw.uri.query[i].key \in CertificateParams =>
                \E j \in DOMAIN outcome.uri.query : outcome.uri.query[j] = raw.uri.query[i]
=============================================================================
