----------------------------- MODULE MCCredentials -----------------------------
(* Values for the runs of Credentials. *)
EXTENDS Credentials

\* Connection strings with a name, a password, an empty one, a password without a name or none
\* of these, and with secrets and other pairs in the query.
Userinfo(name, password) == [present |-> TRUE, name |-> name, password |-> password]
Pair(key, value) == [key |-> key, value |-> value]
SomeUris ==
    {[userinfo |-> u, query |-> q] :
        u \in {NoUserinfo, Userinfo("app", None), Userinfo("app", "s1"), Userinfo("app", Empty),
               Userinfo(Empty, "s1")},
        q \in {<<>>, <<Pair("ssl", "true")>>, <<Pair("password", "s2"), Pair("ssl", "true")>>,
               <<Pair("auth", None), Pair("ssl", "true"), Pair("auth", "s2"), Pair("db", "3")>>,
               <<Pair("password", "s2"), Pair("auth", "s1")>>,
               <<Pair("password", Empty), Pair("auth", "s1")>>}}
\* And with a client certificate and its key.
Certified == [userinfo |-> Userinfo("app", None),
              query |-> <<Pair("ssl", "true"), Pair("sslcert", "cert"), Pair("sslkey", "key")>>]

OneSecretSources == {None, "literal", "env", "file", "exec", "keychain"}
Profile(uri, onDisk, driver, username, password) ==
    [uri |-> uri, path |-> onDisk, driver |-> driver, username |-> username,
     password |-> password, sound |-> TRUE]
Nowhere == Profile(NoAddress, FALSE, None, None, None)
SomeProfiles ==
    {Profile(uri, FALSE, None, username, password) :
        uri \in SomeUris \ {NoAddress}, username \in {None, "user"}, password \in OneSecretSources}
    \cup {Profile(uri, TRUE, driver, None, password) :
            uri \in {NoAddress} \cup {[userinfo |-> NoUserinfo, query |-> <<Pair("ssl", "true")>>]},
            driver \in {None, "sqlite", "postgres"}, password \in {None, "literal"}}
    \cup {Profile(Certified, FALSE, None, None, password) : password \in {None, "env"}}
    \cup {Nowhere, [Nowhere EXCEPT !.path = TRUE, !.sound = FALSE]}
TwoSecrets == {"s1", "s2"}
=============================================================================
