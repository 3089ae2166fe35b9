----------------------------- MODULE ProfileWriter -----------------------------
(***************************************************************************)
(* exportProfile and writeProfileStore of src/src/core/profiles.js, one    *)
(* system call a step.  Within one process nothing interleaves (every call *)
(* is synchronous); the exporters are processes that share the file        *)
(* system.  Files are inodes, so that an open handle survives a rename.    *)
(***************************************************************************)
EXTENDS Naturals, Sequences, FiniteSets

CONSTANTS
    Names, MaxProfiles, NoName,     \* as in ConfigFile
    Exporters,                      \* processes that call exportProfile
    Inodes, NoInode,
    FsyncWorks                      \* FALSE where fsyncSync throws: the code carries on

ASSUME WriterAssumption ==
    /\ MaxProfiles \in Nat \ {0}
    /\ IsFiniteSet(Names) /\ NoName \notin Names
    /\ NoInode \notin Inodes
    /\ FsyncWorks \in BOOLEAN

VARIABLES
    conf,       \* the inode named db.json
    temp,       \* the inode named db.json.tmp
    text,       \* what each inode holds
    flushed,    \* inodes whose text survives the loss of power
    phase,      \* exporter -> the system call it makes next
    building,   \* exporter -> the document it writes
    handle      \* exporter -> the inode it has open

writerVars == <<conf, temp, text, flushed, phase, building, handle>>

\* The config file as everybody else sees it.
visible == IF conf = NoInode THEN [state |-> "missing"] ELSE text[conf]

File == INSTANCE ConfigFile WITH file <- visible

InUse == {conf, temp} \cup {handle[e] : e \in Exporters}

Rest(e) ==
    /\ phase' = [phase EXCEPT ![e] = "idle"]
    /\ building' = [building EXCEPT ![e] = File!EmptyDocument]
    /\ handle' = [handle EXCEPT ![e] = NoInode]

WriterInit ==
    /\ conf \in Inodes \cup {NoInode}
    /\ temp = NoInode
    /\ \E content \in File!Documents \cup {File!Blank, File!Torn} :
          text = [i \in Inodes |-> IF i = conf THEN content ELSE File!Blank]
    /\ flushed = Inodes
    /\ phase = [e \in Exporters |-> "idle"]
    /\ building = [e \in Exporters |-> File!EmptyDocument]
    /\ handle = [e \in Exporters |-> NoInode]

\* existsSync and readFileSync, then the document to write; an entry that does not validate,
\* a file that does not parse and a directory that cannot be made end the call unwritten.
ReadConfig(e, name, makeDefault) ==
    /\ phase[e] = "idle"
    /\ visible # File!Torn
    /\ building' = [building EXCEPT ![e] =
                      File!Exported(File!Existing(visible), name, makeDefault)]
    /\ phase' = [phase EXCEPT ![e] = "open"]
    /\ UNCHANGED <<conf, temp, text, flushed, handle>>

\* openSync(temporary, 'w'): the file of that name is emptied, or a new one is made.
OpenTemp(e) ==
    /\ phase[e] = "open"
    /\ \E i \in Inodes :
          /\ IF temp = NoInode THEN i \notin InUse ELSE i = temp
          /\ temp' = i
          /\ handle' = [handle EXCEPT ![e] = i]
          /\ text' = [text EXCEPT ![i] = File!Blank]
          /\ flushed' = flushed \ {i}
    /\ phase' = [phase EXCEPT ![e] = "write"]
    /\ UNCHANGED <<conf, building>>

\* writeFileSync: text put over what another process wrote meanwhile may leave a tail of it.
WriteTemp(e) ==
    /\ phase[e] = "write"
    /\ \E content \in {building[e]} \cup (IF text[handle[e]] = File!Blank THEN {} ELSE {File!Torn}) :
          text' = [text EXCEPT ![handle[e]] = content]
    /\ phase' = [phase EXCEPT ![e] = "fsync"]
    /\ UNCHANGED <<conf, temp, flushed, building, handle>>

\* SyncTemp, without the fsync.
SyncTemp_NoFsync(e) ==
    /\ phase[e] = "fsync"
    /\ handle' = [handle EXCEPT ![e] = NoInode]
    /\ phase' = [phase EXCEPT ![e] = "rename"]
    /\ UNCHANGED <<conf, temp, text, flushed, building>>

\* fsyncSync, closeSync and chmodSync; whether they work changes nothing of the control.
SyncTemp(e) ==
    /\ phase[e] = "fsync"
    /\ flushed' = IF FsyncWorks THEN flushed \cup {handle[e]} ELSE flushed
    /\ handle' = [handle EXCEPT ![e] = NoInode]
    /\ phase' = [phase EXCEPT ![e] = "rename"]
    /\ UNCHANGED <<conf, temp, text, building>>

\* renameSync, whatever file has the temporary name by now.
Rename(e) ==
    /\ phase[e] = "rename" /\ temp # NoInode
    /\ conf' = temp /\ temp' = NoInode
    /\ Rest(e)
    /\ UNCHANGED <<text, flushed>>

\* An error of openSync, writeFileSync (part of the text is out) or renameSync: the temporary
\* file is unlinked, whoever made it, and the call throws.
StepFails(e) ==
    /\ phase[e] \in {"open", "write", "rename"}
    /\ text' = IF phase[e] = "write" THEN [text EXCEPT ![handle[e]] = File!Torn] ELSE text
    /\ temp' = NoInode
    /\ Rest(e)
    /\ UNCHANGED <<conf, flushed>>

\* The process is killed: nothing is cleaned up.
Killed(e) ==
    /\ phase[e] # "idle"
    /\ Rest(e)
    /\ UNCHANGED <<conf, temp, text, flushed>>

\* The machine loses power: text that was not flushed is gone, or part of it.
PowerLoss ==
    /\ \E e \in Exporters : phase[e] # "idle"
    /\ \E content \in [Inodes \ flushed -> {File!Blank, File!Torn}] :
          text' = [i \in Inodes |-> IF i \in flushed THEN text[i] ELSE content[i]]
    /\ flushed' = Inodes
    /\ phase' = [e \in Exporters |-> "idle"]
    /\ building' = [e \in Exporters |-> File!EmptyDocument]
    /\ handle' = [e \in Exporters |-> NoInode]
    /\ UNCHANGED <<conf, temp>>

WriterNext ==
    \/ \E e \in Exporters, name \in Names, makeDefault \in BOOLEAN :
          ReadConfig(e, name, makeDefault)
    \/ \E e \in Exporters : OpenTemp(e)
    \/ \E e \in Exporters : WriteTemp(e)
    \/ \E e \in Exporters : SyncTemp(e)
    \/ \E e \in Exporters : Rename(e)
    \/ \E e \in Exporters : StepFails(e)
    \/ \E e \in Exporters : Killed(e)
    \/ PowerLoss

WriterSpec == WriterInit /\ [][WriterNext]_writerVars

WriterTypeOK ==
    /\ conf \in Inodes \cup {NoInode}
    /\ temp \in Inodes \cup {NoInode}
    /\ text \in [Inodes -> File!Documents \cup {File!Blank, File!Torn}]
    /\ flushed \subseteq Inodes
    /\ phase \in [Exporters -> {"idle", "open", "write", "fsync", "rename"}]
    /\ building \in [Exporters -> File!Documents]
    /\ handle \in [Exporters -> Inodes \cup {NoInode}]

\* The file changes from one whole document to the next, each the one before with a profile
\* added, whatever call fails and wherever the process or the machine dies: what
\* writeProfileStore's comment promises, of one exporter.
ExportIsAtomic == File!Spec

\* A reader sees the old file or the new one, never a half-written one: the same comment, of
\* any number of exporters, in the words it uses.
ReaderSeesWhole == [][visible' \notin {File!Blank, File!Torn}]_visible

\* An export of a config that loads leaves one that loads (the comment of exportProfile).
ExportedLoads ==
    [][(visible.state = "whole" /\ File!Loads(visible)) =>
          (visible'.state = "whole" /\ File!Loads(visible'))]_visible
=============================================================================
