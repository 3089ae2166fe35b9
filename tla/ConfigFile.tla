------------------------------ MODULE ConfigFile ------------------------------
(***************************************************************************)
(* What writing a profile promises (src/src/core/profiles.js, the comments *)
(* of writeProfileStore and exportProfile), apart from how it is done: the *)
(* config file is replaced in one step, by the document that was there     *)
(* with one profile added.                                                 *)
(***************************************************************************)
EXTENDS Naturals, Sequences, FiniteSets

CONSTANTS
    Names,          \* the profile names
    MaxProfiles,    \* MAX_PROFILES: load() keeps this many, in file order
    NoName          \* a document without "default"

VARIABLE file

\* File contents that hold no document: no file, a file of length zero, text that is not JSON.
Missing == [state |-> "missing"]
Blank == [state |-> "blank"]
Torn == [state |-> "torn"]

Listed(doc) == {doc.names[i] : i \in 1 .. Len(doc.names)}

\* The documents a user or an export may leave: distinct names in file order, and the name
\* of the default profile.
Documents ==
    {doc \in [state : {"whole"},
              names : UNION {[1 .. k -> Names] : k \in 0 .. Cardinality(Names)},
              default : Names \cup {NoName}] :
        Cardinality(Listed(doc)) = Len(doc.names)}

EmptyDocument == [state |-> "whole", names |-> <<>>, default |-> NoName]

\* The names load() keeps, and whether #validateDocument accepts the default.
Kept(doc) == {doc.names[i] : i \in {j \in 1 .. Len(doc.names) : j <= MaxProfiles}}
Loads(doc) == doc.default = NoName \/ doc.default \in Kept(doc)

\* The document exportProfile builds: a known name keeps its place in the object, a new one
\* goes to the end, and the first profile written becomes the default.
Exported(doc, name, makeDefault) ==
    [state |-> "whole",
     names |-> IF name \in Listed(doc) THEN doc.names ELSE Append(doc.names, name),
     default |-> IF makeDefault \/ doc.default = NoName THEN name ELSE doc.default]

\* What exportProfile starts from; text that does not parse is refused instead.
Existing(content) == IF content \in {Missing, Blank} THEN EmptyDocument ELSE content

Init == file \in Documents \cup {Missing, Blank, Torn}

Export(name, makeDefault) ==
    /\ file # Torn
    /\ file' = Exported(Existing(file), name, makeDefault)

Next == \E name \in Names, makeDefault \in BOOLEAN : Export(name, makeDefault)

Spec == Init /\ [][Next]_file
=============================================================================
