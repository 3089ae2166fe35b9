------------------------------- MODULE FileProofs -------------------------------
(***************************************************************************)
(* The two files the server writes.  db.json: one exporter, on a machine   *)
(* whose fsync works, implements the atomic export of ConfigFile, for      *)
(* every set of names and inodes, whatever call fails and wherever the     *)
(* process or the machine dies.  The log: one process leaves no gap in it, *)
(* for every number of backups and every size of file and record.          *)
(***************************************************************************)
EXTENDS ProfileWriter, LogSink, FiniteSetTheorems, TLAPS

-----------------------------------------------------------------------------
(* The configuration file *)

\* Another exporter, or an fsync that throws, breaks the property.
OneSoundExporter == (\E e : Exporters = {e}) /\ FsyncWorks

\* The document e writes is the file as it is now, with one profile added.
BuildsOn(e) ==
    /\ visible # File!Torn
    /\ \E name \in Names, makeDefault \in BOOLEAN :
          building[e] = File!Exported(File!Existing(visible), name, makeDefault)

\* What holds of the temporary file before each call of writeProfileStore.
Stands(e) ==
    /\ phase[e] \in {"idle", "open", "rename"} => handle[e] = NoInode
    /\ phase[e] \in {"write", "fsync"} => temp # NoInode /\ handle[e] = temp
    /\ phase[e] = "write" => text[temp] = File!Blank
    /\ phase[e] = "fsync" => text[temp] = building[e]
    /\ phase[e] = "rename" /\ temp # NoInode => text[temp] = building[e] /\ temp \in flushed
    /\ phase[e] # "idle" => BuildsOn(e)

\* The inductive invariant: the file named db.json is flushed and is not the one being
\* written, so neither a call nor the loss of power changes what is read.
WriterInv ==
    /\ conf \in Inodes \cup {NoInode}
    /\ temp \in Inodes \cup {NoInode}
    /\ DOMAIN text = Inodes
    /\ DOMAIN phase = Exporters
    /\ DOMAIN building = Exporters
    /\ DOMAIN handle = Exporters
    /\ flushed \subseteq Inodes
    /\ \A e \in Exporters : phase[e] \in {"idle", "open", "write", "fsync", "rename"}
    /\ conf # NoInode => conf \in flushed
    /\ temp # NoInode => temp # conf
    /\ \A e \in Exporters : Stands(e)

LEMMA InitFile == WriterInit => File!Init
<1> SUFFICES ASSUME WriterInit PROVE File!Init
  OBVIOUS
<1>1. PICK content \in File!Documents \cup {File!Blank, File!Torn} :
         text = [i \in Inodes |-> IF i = conf THEN content ELSE File!Blank]
  BY DEF WriterInit
<1>2. conf \in Inodes \cup {NoInode}
  BY DEF WriterInit
<1>3. CASE conf = NoInode
  BY <1>3 DEF visible, File!Init, File!Missing
<1>4. CASE conf # NoInode
  <2>1. visible = content
    BY <1>1, <1>2, <1>4 DEF visible
  <2> QED BY <2>1 DEF File!Init
<1> QED BY <1>3, <1>4

LEMMA WriterInitInv == WriterInit => WriterInv
  BY WriterAssumption DEF WriterInit, WriterInv, Stands

\* A step that leaves the name db.json and its text alone changes nothing that is read.
LEMMA VisibleKept ==
  ASSUME conf' = conf, conf # NoInode => text'[conf] = text[conf]
  PROVE  visible' = visible
  BY DEF visible

LEMMA BuildsOnKept ==
  ASSUME NEW e \in Exporters, visible' = visible, building' = building, BuildsOn(e)
  PROVE  BuildsOn(e)'
  BY DEF BuildsOn

\* Every step keeps the invariant, and is one export or leaves the visible file alone.
LEMMA WriterStepInv ==
  ASSUME NEW CONSTANT e, Exporters = {e}, FsyncWorks, WriterInv, [WriterNext]_writerVars
  PROVE  WriterInv' /\ [File!Next]_visible
<1> USE WriterAssumption
<1>0. e \in Exporters /\ Stands(e)
  BY DEF WriterInv
<1>1. ASSUME NEW name \in Names, NEW makeDefault \in BOOLEAN, ReadConfig(e, name, makeDefault)
      PROVE  WriterInv' /\ [File!Next]_visible
  <2>1. visible' = visible
    BY <1>1 DEF ReadConfig, visible
  <2>2. /\ building'[e] = File!Exported(File!Existing(visible), name, makeDefault)
        /\ phase'[e] = "open" /\ DOMAIN building' = Exporters /\ DOMAIN phase' = Exporters
    BY <1>0, <1>1 DEF ReadConfig, WriterInv
  <2>3. BuildsOn(e)'
    BY <1>1, <2>1, <2>2 DEF ReadConfig, BuildsOn, File!Torn, File!Exported, File!Existing,
       File!Listed, File!Missing, File!Blank, File!EmptyDocument
  <2>4. Stands(e)'
    BY <1>0, <1>1, <2>2, <2>3 DEF ReadConfig, Stands
  <2> QED BY <1>1, <2>1, <2>2, <2>4 DEF ReadConfig, WriterInv
<1>2. ASSUME OpenTemp(e)
      PROVE  WriterInv' /\ [File!Next]_visible
  <2>1. PICK i \in Inodes :
           /\ IF temp = NoInode THEN i \notin InUse ELSE i = temp
           /\ temp' = i
           /\ handle' = [handle EXCEPT ![e] = i]
           /\ text' = [text EXCEPT ![i] = File!Blank]
           /\ flushed' = flushed \ {i}
    BY <1>2 DEF OpenTemp
  <2>2. i # conf /\ i # NoInode
    BY <2>1 DEF WriterInv, InUse
  <2>3. conf' = conf /\ building' = building /\ phase'[e] = "write" /\ handle'[e] = i
    BY <1>0, <1>2, <2>1 DEF OpenTemp, WriterInv
  <2>4. visible' = visible
    BY <2>1, <2>2, <2>3, VisibleKept DEF WriterInv
  <2>5. BuildsOn(e)'
    BY <1>0, <1>2, <2>3, <2>4, BuildsOnKept DEF OpenTemp, Stands
  <2>6. text'[temp'] = File!Blank
    BY <2>1 DEF WriterInv
  <2>7. Stands(e)'
    BY <2>1, <2>2, <2>3, <2>5, <2>6 DEF Stands
  <2> QED BY <1>2, <2>1, <2>2, <2>3, <2>4, <2>7 DEF OpenTemp, WriterInv
<1>3. ASSUME WriteTemp(e)
      PROVE  WriterInv' /\ [File!Next]_visible
  <2>1. handle[e] = temp /\ temp # NoInode /\ text[temp] = File!Blank
    BY <1>0, <1>3 DEF WriteTemp, Stands
  <2>2. text' = [text EXCEPT ![temp] = building[e]]
    BY <1>3, <2>1 DEF WriteTemp
  <2>3. conf' = conf /\ temp' = temp /\ building' = building /\ handle' = handle
        /\ flushed' = flushed /\ phase'[e] = "fsync" /\ DOMAIN phase' = Exporters
    BY <1>0, <1>3 DEF WriteTemp, WriterInv
  <2>4. visible' = visible
    BY <2>1, <2>2, <2>3, VisibleKept DEF WriterInv
  <2>5. BuildsOn(e)'
    BY <1>0, <1>3, <2>3, <2>4, BuildsOnKept DEF WriteTemp, Stands
  <2>6. text'[temp'] = building'[e] /\ DOMAIN text' = Inodes
    BY <2>1, <2>2, <2>3 DEF WriterInv
  <2>7. Stands(e)'
    BY <2>1, <2>3, <2>5, <2>6 DEF Stands
  <2> QED BY <2>3, <2>4, <2>6, <2>7 DEF WriterInv
<1>4. ASSUME SyncTemp(e)
      PROVE  WriterInv' /\ [File!Next]_visible
  <2>1. handle[e] = temp /\ temp # NoInode /\ text[temp] = building[e]
    BY <1>0, <1>4 DEF SyncTemp, Stands
  <2>2. conf' = conf /\ temp' = temp /\ building' = building /\ text' = text
        /\ flushed' = flushed \cup {temp} /\ phase'[e] = "rename" /\ handle'[e] = NoInode
        /\ DOMAIN phase' = Exporters /\ DOMAIN handle' = Exporters
    BY <1>0, <1>4, <2>1 DEF SyncTemp, WriterInv
  <2>3. visible' = visible
    BY <2>2, VisibleKept
  <2>4. BuildsOn(e)'
    BY <1>0, <1>4, <2>2, <2>3, BuildsOnKept DEF SyncTemp, Stands
  <2>5. Stands(e)'
    BY <2>1, <2>2, <2>4 DEF Stands
  <2> QED BY <2>1, <2>2, <2>3, <2>5 DEF WriterInv
<1>5. ASSUME Rename(e)
      PROVE  WriterInv' /\ [File!Next]_visible
  <2>1. temp # NoInode /\ text[temp] = building[e] /\ temp \in flushed /\ BuildsOn(e)
    BY <1>0, <1>5 DEF Rename, Stands
  <2>2. conf' = temp /\ temp' = NoInode /\ text' = text /\ flushed' = flushed
        /\ phase'[e] = "idle" /\ handle'[e] = NoInode
        /\ DOMAIN phase' = Exporters /\ DOMAIN handle' = Exporters
        /\ DOMAIN building' = Exporters
    BY <1>0, <1>5 DEF Rename, Rest, WriterInv
  <2>3. visible' = building[e]
    BY <2>1, <2>2 DEF visible
  <2>4. File!Next
    BY <2>1, <2>3 DEF BuildsOn, File!Next, File!Export
  <2>5. Stands(e)'
    BY <2>2 DEF Stands
  <2> QED BY <2>1, <2>2, <2>4, <2>5 DEF WriterInv
<1>6. ASSUME StepFails(e)
      PROVE  WriterInv' /\ [File!Next]_visible
  <2>1. conf' = conf /\ temp' = NoInode /\ flushed' = flushed
        /\ phase'[e] = "idle" /\ handle'[e] = NoInode
        /\ DOMAIN phase' = Exporters /\ DOMAIN handle' = Exporters
        /\ DOMAIN building' = Exporters
    BY <1>0, <1>6 DEF StepFails, Rest, WriterInv
  <2>2. (conf # NoInode => text'[conf] = text[conf]) /\ DOMAIN text' = Inodes
    BY <1>0, <1>6 DEF StepFails, WriterInv, Stands
  <2>3. visible' = visible
    BY <2>1, <2>2, VisibleKept
  <2>4. Stands(e)'
    BY <2>1 DEF Stands
  <2> QED BY <2>1, <2>2, <2>3, <2>4 DEF WriterInv
<1>7. ASSUME Killed(e)
      PROVE  WriterInv' /\ [File!Next]_visible
  <2>1. conf' = conf /\ temp' = temp /\ text' = text /\ flushed' = flushed
        /\ phase'[e] = "idle" /\ handle'[e] = NoInode
        /\ DOMAIN phase' = Exporters /\ DOMAIN handle' = Exporters
        /\ DOMAIN building' = Exporters
    BY <1>0, <1>7 DEF Killed, Rest, WriterInv
  <2>2. visible' = visible
    BY <2>1, VisibleKept
  <2>3. Stands(e)'
    BY <2>1 DEF Stands
  <2> QED BY <2>1, <2>2, <2>3 DEF WriterInv
<1>8. ASSUME PowerLoss
      PROVE  WriterInv' /\ [File!Next]_visible
  <2>1. conf' = conf /\ temp' = temp /\ flushed' = Inodes
    BY <1>8 DEF PowerLoss
  <2>2. DOMAIN text' = Inodes /\ \A i \in flushed : text'[i] = text[i]
    BY <1>8 DEF PowerLoss, WriterInv
  <2>3. /\ phase'[e] = "idle" /\ handle'[e] = NoInode
        /\ DOMAIN phase' = Exporters /\ DOMAIN handle' = Exporters
        /\ DOMAIN building' = Exporters
    BY <1>0, <1>8 DEF PowerLoss
  <2>4. visible' = visible
    BY <2>1, <2>2, VisibleKept DEF WriterInv
  <2>5. Stands(e)'
    BY <2>3 DEF Stands
  <2> QED BY <2>1, <2>2, <2>3, <2>4, <2>5 DEF WriterInv
<1>9. CASE UNCHANGED writerVars
  <2>1. visible' = visible
    BY <1>9 DEF writerVars, visible
  <2>2. Stands(e)'
    BY <1>0, <1>9, <2>1, BuildsOnKept DEF writerVars, Stands
  <2> QED BY <1>9, <2>1, <2>2 DEF writerVars, WriterInv
<1> QED
  BY <1>0, <1>1, <1>2, <1>3, <1>4, <1>5, <1>6, <1>7, <1>8, <1>9 DEF WriterNext

\* The export of a profile is atomic (the comment of writeProfileStore, profiles.js): with one
\* exporter and an fsync that works, every step of the writer is one export or changes
\* nothing a reader of db.json sees.
THEOREM OneExporterIsAtomic ==
  ASSUME OneSoundExporter
  PROVE  WriterSpec => ExportIsAtomic
<1> PICK e : Exporters = {e}
  BY DEF OneSoundExporter
<1>1. WriterInit => File!Init /\ WriterInv
  BY InitFile, WriterInitInv
<1>2. WriterInv /\ [WriterNext]_writerVars => WriterInv' /\ [File!Next]_visible
  BY WriterStepInv DEF OneSoundExporter
<1> QED BY <1>1, <1>2, PTL DEF WriterSpec, ExportIsAtomic, File!Spec

\* A reader of db.json sees the old file or the new one, never a half-written one (the comment of
\* writeProfileStore), under the same hypothesis: what an export leaves is a whole document.
THEOREM ReaderSeesWholeCorrect ==
  ASSUME OneSoundExporter
  PROVE  WriterSpec => ReaderSeesWhole
<1>1. [File!Next]_visible => [visible' \notin {File!Blank, File!Torn}]_visible
  BY DEF File!Next, File!Export, File!Exported, File!Blank, File!Torn
<1> QED BY <1>1, OneExporterIsAtomic, PTL DEF ExportIsAtomic, File!Spec, ReaderSeesWhole

\* The cardinality ConfigFile counts with is the library's.
LEMMA SameCardinality == \A S : File!Cardinality(S) = Cardinality(S)
  BY Zenon DEF File!Cardinality, Cardinality

\* The lists of names a document may hold.
Lists == UNION {[1 .. k -> Names] : k \in 0 .. Cardinality(Names)}

LEMMA DocumentFacts ==
  /\ \A doc \in File!Documents :
        /\ doc = [state |-> "whole", names |-> doc.names, default |-> doc.default]
        /\ doc.names \in Lists /\ doc.default \in Names \cup {NoName}
        /\ Cardinality(File!Listed(doc)) = Len(doc.names)
  /\ \A names \in Lists, default \in Names \cup {NoName} : \A doc :
        (/\ doc = [state |-> "whole", names |-> names, default |-> default]
         /\ Cardinality(File!Listed(doc)) = Len(names)) => doc \in File!Documents
<1>1. File!Documents = {doc \in [state : {"whole"}, names : Lists, default : Names \cup {NoName}] :
                          Cardinality(File!Listed(doc)) = Len(doc.names)}
  BY SameCardinality, Zenon DEF File!Documents, Lists
<1>2. ASSUME NEW doc \in File!Documents
      PROVE  /\ doc \in [state : {"whole"}, names : Lists, default : Names \cup {NoName}]
             /\ Cardinality(File!Listed(doc)) = Len(doc.names)
  BY <1>1
<1>3. ASSUME NEW names \in Lists, NEW default \in Names \cup {NoName}, NEW doc,
             doc = [state |-> "whole", names |-> names, default |-> default],
             Cardinality(File!Listed(doc)) = Len(names)
      PROVE  doc \in File!Documents
  <2>1. doc \in [state : {"whole"}, names : Lists, default : Names \cup {NoName}] /\ doc.names = names
    BY <1>3
  <2> QED BY <1>1, <1>3, <2>1
<1> QED BY <1>2, <1>3

\* Adding a profile to a document gives a document: the names stay distinct, and no more of
\* them than there are.
LEMMA ExportedType ==
  ASSUME NEW doc \in File!Documents, NEW name \in Names, NEW makeDefault \in BOOLEAN
  PROVE  File!Exported(doc, name, makeDefault) \in File!Documents
<1> DEFINE new == File!Exported(doc, name, makeDefault)
           listed == File!Listed(doc)
<1>1. PICK k \in 0 .. Cardinality(Names) : doc.names \in [1 .. k -> Names]
  <2>1. doc.names \in Lists
    BY DocumentFacts
  <2> QED BY <2>1 DEF Lists
<1>0. /\ Cardinality(Names) \in Nat /\ k \in Nat /\ k <= Cardinality(Names)
      /\ doc.names \in Seq(Names) /\ Len(doc.names) = k
      /\ doc.state = "whole" /\ doc.default \in Names \cup {NoName}
      /\ Cardinality(listed) = k
  <2>1. Cardinality(Names) \in Nat
    BY WriterAssumption, FS_CardinalityType
  <2>2. k \in Nat /\ k <= Cardinality(Names)
    BY <2>1
  <2>3. doc.names \in Seq(Names) /\ Len(doc.names) = k
    BY <1>1, <2>2
  <2>4. /\ doc.state = "whole" /\ doc.default \in Names \cup {NoName}
        /\ Cardinality(listed) = Len(doc.names)
    BY DocumentFacts
  <2> QED BY <2>1, <2>2, <2>3, <2>4
<1>2. new.state = "whole" /\ new.default \in Names \cup {NoName}
  BY <1>0 DEF File!Exported
<1>3. listed \subseteq Names /\ IsFiniteSet(listed)
  <2>1. listed \subseteq Names
    BY <1>0, <1>1 DEF File!Listed
  <2> QED BY <2>1, WriterAssumption, FS_Subset
<1>4. CASE name \in listed
  <2>1. new.names = doc.names
    BY <1>4 DEF File!Exported
  <2>2. File!Listed(new) = listed
    BY <2>1 DEF File!Listed
  <2>3. new = [state |-> "whole", names |-> doc.names, default |-> new.default]
    BY <1>4 DEF File!Exported
  <2> HIDE DEF new
  <2>4. doc.names \in Lists
    BY DocumentFacts
  <2>5. Cardinality(File!Listed(new)) = Len(doc.names)
    BY <1>0, <2>2
  <2>6. new \in File!Documents
    BY <1>2, <2>3, <2>4, <2>5, DocumentFacts
  <2> QED BY <2>6 DEF new
<1>5. CASE name \notin listed
  <2> DEFINE ns == Append(doc.names, name)
  <2>1. new.names = ns
    BY <1>5 DEF File!Exported
  <2>2. ns \in [1 .. k + 1 -> Names] /\ Len(ns) = k + 1
    <3>1. ns \in Seq(Names) /\ Len(ns) = k + 1
      BY <1>0
    <3> HIDE DEF ns
    <3> QED BY <1>0, <3>1
  <2>3. \A i \in 1 .. k : ns[i] = doc.names[i]
    BY <1>0
  <2>4. ns[k + 1] = name
    BY <1>0
  <2>5. File!Listed(new) = listed \cup {name}
    <3> HIDE DEF ns
    <3>1. File!Listed(new) = {ns[i] : i \in 1 .. k + 1}
      BY <2>1, <2>2 DEF File!Listed
    <3>2. listed = {doc.names[i] : i \in 1 .. k}
      BY <1>0 DEF File!Listed
    <3>3. 1 .. k + 1 = (1 .. k) \cup {k + 1}
      BY <1>0
    <3> HIDE DEF new, listed
    <3> QED BY <2>3, <2>4, <3>1, <3>2, <3>3
  <2>6. Cardinality(File!Listed(new)) = k + 1
    BY <1>0, <1>3, <1>5, <2>5, FS_AddElement
  <2>7. k + 1 \in 0 .. Cardinality(Names)
    <3>1. listed \cup {name} \in SUBSET Names
      BY <1>3
    <3>2. Cardinality(listed \cup {name}) <= Cardinality(Names)
      BY <3>1, WriterAssumption, FS_Subset
    <3> QED BY <1>0, <2>5, <2>6, <3>2
  <2>8. new = [state |-> "whole", names |-> ns, default |-> new.default]
    BY <1>5 DEF File!Exported
  <2> HIDE DEF new, ns, listed
  <2>9. ns \in Lists
    BY <2>2, <2>7 DEF Lists
  <2>10. Cardinality(File!Listed(new)) = Len(ns)
    BY <2>2, <2>6
  <2>11. new \in File!Documents
    BY <1>2, <2>8, <2>9, <2>10, DocumentFacts
  <2> QED BY <2>11 DEF new
<1> QED BY <1>4, <1>5

\* What an inode may hold.
Texts == File!Documents \cup {File!Blank, File!Torn}

\* An exporter that writes or flushes has a file open.
HasFile == \A e \in Exporters : phase[e] \in {"write", "fsync"} => handle[e] \in Inodes

LEMMA EmptyIsDocument == File!EmptyDocument \in File!Documents
<1>1. Cardinality(Names) \in Nat
  BY WriterAssumption, FS_CardinalityType
<1>2. <<>> \in [1 .. 0 -> Names] /\ 0 \in 0 .. Cardinality(Names) /\ Len(<<>>) = 0
  BY <1>1
<1>3. File!Listed(File!EmptyDocument) = {}
  BY <1>2 DEF File!Listed, File!EmptyDocument
<1>4. Cardinality(File!Listed(File!EmptyDocument)) = 0
  BY <1>3, FS_EmptySet
<1>5. NoName \in Names \cup {NoName}
  OBVIOUS
<1>6. <<>> \in Lists
  BY <1>2 DEF Lists
<1> QED BY <1>2, <1>4, <1>5, <1>6, DocumentFacts DEF File!EmptyDocument

LEMMA WriterTypeStep ==
  WriterTypeOK /\ HasFile /\ [WriterNext]_writerVars => (WriterTypeOK /\ HasFile)'
<1> SUFFICES ASSUME WriterTypeOK, HasFile, [WriterNext]_writerVars PROVE (WriterTypeOK /\ HasFile)'
  OBVIOUS
<1> USE DEF Texts
<1>0. text \in [Inodes -> Texts]
  BY DEF WriterTypeOK
<1>1. ASSUME NEW e \in Exporters, NEW name \in Names, NEW makeDefault \in BOOLEAN,
             ReadConfig(e, name, makeDefault)
      PROVE  (WriterTypeOK /\ HasFile)'
  <2> DEFINE new == File!Exported(File!Existing(visible), name, makeDefault)
  <2>1. File!Existing(visible) \in File!Documents
    BY <1>1, EmptyIsDocument DEF WriterTypeOK, ReadConfig, visible, File!Existing, File!Missing
  <2>2. new \in File!Documents
    BY <2>1, ExportedType
  <2>3. /\ building' = [building EXCEPT ![e] = new]
        /\ phase' = [phase EXCEPT ![e] = "open"]
        /\ UNCHANGED <<conf, temp, text, flushed, handle>>
    BY <1>1 DEF ReadConfig
  <2> HIDE DEF new
  <2> QED BY <2>2, <2>3 DEF WriterTypeOK, HasFile
<1>2. ASSUME NEW e \in Exporters, OpenTemp(e) PROVE (WriterTypeOK /\ HasFile)'
  BY <1>2 DEF OpenTemp, WriterTypeOK, HasFile
<1>3. ASSUME NEW e \in Exporters, WriteTemp(e) PROVE (WriterTypeOK /\ HasFile)'
  <2>1. PICK content \in Texts : text' = [text EXCEPT ![handle[e]] = content]
    BY <1>3 DEF WriteTemp, WriterTypeOK
  <2>2. phase[e] = "write" /\ phase' = [phase EXCEPT ![e] = "fsync"]
        /\ UNCHANGED <<conf, temp, flushed, building, handle>>
    BY <1>3 DEF WriteTemp
  <2>3. text' \in [Inodes -> Texts]
    BY <1>0, <2>1
  <2> QED BY <2>2, <2>3 DEF WriterTypeOK, HasFile
<1>4. ASSUME NEW e \in Exporters, SyncTemp(e) PROVE (WriterTypeOK /\ HasFile)'
  BY <1>4 DEF SyncTemp, WriterTypeOK, HasFile
<1>5. ASSUME NEW e \in Exporters, Rename(e) PROVE (WriterTypeOK /\ HasFile)'
  BY <1>5, EmptyIsDocument DEF Rename, Rest, WriterTypeOK, HasFile
<1>6. ASSUME NEW e \in Exporters, StepFails(e) PROVE (WriterTypeOK /\ HasFile)'
  BY <1>6, EmptyIsDocument DEF StepFails, Rest, WriterTypeOK, HasFile
<1>7. ASSUME NEW e \in Exporters, Killed(e) PROVE (WriterTypeOK /\ HasFile)'
  BY <1>7, EmptyIsDocument DEF Killed, Rest, WriterTypeOK, HasFile
<1>8. CASE PowerLoss
  <2>1. PICK content \in [Inodes \ flushed -> {File!Blank, File!Torn}] :
           text' = [i \in Inodes |-> IF i \in flushed THEN text[i] ELSE content[i]]
    BY <1>8 DEF PowerLoss
  <2>2. text' \in [Inodes -> Texts]
    <3>1. \A i \in Inodes : (IF i \in flushed THEN text[i] ELSE content[i]) \in Texts
      BY <1>0
    <3> QED BY <2>1, <3>1
  <2> QED BY <1>8, <2>2, EmptyIsDocument DEF PowerLoss, WriterTypeOK, HasFile
<1>9. CASE UNCHANGED writerVars
  BY <1>9 DEF writerVars, WriterTypeOK, HasFile
<1> QED
  BY <1>1, <1>2, <1>3, <1>4, <1>5, <1>6, <1>7, <1>8, <1>9 DEF WriterNext

\* Every file holds a document, nothing or part of one, and an exporter writes documents: the
\* variables of the writer have their types, with any number of exporters.
THEOREM WriterTypeCorrect == WriterSpec => []WriterTypeOK
<1>1. WriterInit => WriterTypeOK /\ HasFile
  <2> SUFFICES ASSUME WriterInit PROVE WriterTypeOK /\ HasFile
    OBVIOUS
  <2>1. text \in [Inodes -> Texts]
    <3>1. PICK content \in Texts :
             text = [i \in Inodes |-> IF i = conf THEN content ELSE File!Blank]
      BY DEF WriterInit, Texts
    <3> QED BY <3>1 DEF Texts
  <2> QED BY <2>1, EmptyIsDocument DEF WriterInit, WriterTypeOK, HasFile, Texts
<1> QED BY <1>1, WriterTypeStep, PTL DEF WriterSpec

-----------------------------------------------------------------------------
(* The log file *)

\* The system calls a logger can be at.
Labels == {"idle", "overflow", "shift", "sweep", "sweeping", "append"}

LEMMA GoType ==
  ASSUME LogTypeOK, NEW p \in Loggers, NEW label \in Labels, Go(p, label)
  PROVE  pcLog' \in [Loggers -> Labels]
BY DEF Go, LogTypeOK, Labels

LEMMA IndexType ==
  ASSUME LogTypeOK, NEW p \in Loggers, NEW i \in 0 .. Backups + 1,
         index' = [index EXCEPT ![p] = i]
  PROVE  index' \in [Loggers -> 0 .. Backups + 1]
BY DEF LogTypeOK

LEMMA SlotType ==
  ASSUME NEW files \in [0 .. Backups -> LogFile], NEW i, NEW file \in LogFile
  PROVE  [files EXCEPT ![i] = file] \in [0 .. Backups -> LogFile]
OBVIOUS

LEMMA NoFileType == NoFile \in LogFile
BY MaxRecordsAssumption DEF NoFile, LogFile

LEMMA LogTypeStep == LogTypeOK /\ [LogNext]_logVars => LogTypeOK'
<1> SUFFICES ASSUME LogTypeOK, [LogNext]_logVars PROVE LogTypeOK'
  OBVIOUS
<1>0. /\ slot \in [0 .. Backups -> LogFile]
      /\ appended \in 0 .. MaxRecords /\ expired \in 0 .. appended
      /\ pcLog \in [Loggers -> Labels]
      /\ line \in [Loggers -> RecordSizes \cup {0}]
      /\ index \in [Loggers -> 0 .. Backups + 1]
      /\ failed \in [Loggers -> BOOLEAN]
      /\ Backups \in Nat \ {0} /\ MaxRecords \in Nat
  BY BackupsAssumption, MaxRecordsAssumption DEF LogTypeOK, Labels
<1> SUFFICES /\ slot' \in [0 .. Backups -> LogFile]
             /\ appended' \in 0 .. MaxRecords /\ expired' \in 0 .. appended'
             /\ pcLog' \in [Loggers -> Labels]
             /\ line' \in [Loggers -> RecordSizes \cup {0}]
             /\ index' \in [Loggers -> 0 .. Backups + 1]
             /\ failed' \in [Loggers -> BOOLEAN]
  BY DEF LogTypeOK, Labels
<1> DEFINE Goal == /\ slot' \in [0 .. Backups -> LogFile]
                   /\ appended' \in 0 .. MaxRecords /\ expired' \in 0 .. appended'
                   /\ pcLog' \in [Loggers -> Labels]
                   /\ line' \in [Loggers -> RecordSizes \cup {0}]
                   /\ index' \in [Loggers -> 0 .. Backups + 1]
                   /\ failed' \in [Loggers -> BOOLEAN]
<1>1. CASE UNCHANGED logVars
  BY <1>0, <1>1 DEF logVars
<1>2. ASSUME NEW p \in Loggers, WriteRecord(p) PROVE Goal
  <2>1. pcLog' \in [Loggers -> Labels]
    BY <1>2, GoType DEF WriteRecord, Labels
  <2> QED BY <1>0, <1>2, <2>1 DEF WriteRecord
<1>3. ASSUME NEW p \in Loggers, DropOldest(p) PROVE Goal
  <2>1. pcLog' \in [Loggers -> Labels]
    BY <1>3, GoType DEF DropOldest, Labels
  <2>2. slot' \in [0 .. Backups -> LogFile]
    BY <1>0, <1>3, SlotType, NoFileType DEF DropOldest
  <2>3. index' \in [Loggers -> 0 .. Backups + 1]
    BY <1>0, <1>3, IndexType DEF DropOldest
  <2> QED BY <1>0, <1>3, <2>1, <2>2, <2>3 DEF DropOldest
<1>4. ASSUME NEW p \in Loggers, Shift(p) PROVE Goal
  <2> DEFINE i == index[p]
             moved == [slot EXCEPT ![i + 1] = slot[i]]
  <2>1. ASSUME Exists(i) /\ i \in 0 .. Backups PROVE slot' \in [0 .. Backups -> LogFile]
    <3>1. slot[i] \in LogFile
      BY <1>0, <2>1
    <3>2. moved \in [0 .. Backups -> LogFile]
      BY <1>0, <3>1, SlotType
    <3>3. slot' = [moved EXCEPT ![i] = NoFile]
      BY <1>4, <2>1 DEF Shift
    <3> HIDE DEF moved, i
    <3> QED BY <3>2, <3>3, SlotType, NoFileType
  <2>2. ASSUME i = Backups + 1 PROVE slot' \in [0 .. Backups -> LogFile]
    <3>1. i + 1 \notin 0 .. Backups /\ i \notin 0 .. Backups
      BY <1>0, <2>2
    <3>2. moved = slot /\ [slot EXCEPT ![i] = NoFile] = slot
      BY <1>0, <3>1
    <3>3. slot' = IF Exists(i) THEN [moved EXCEPT ![i] = NoFile] ELSE slot
      BY <1>4 DEF Shift
    <3> HIDE DEF moved
    <3> QED BY <1>0, <3>2, <3>3
  <2>3. ASSUME ~Exists(i) PROVE slot' \in [0 .. Backups -> LogFile]
    BY <1>0, <1>4, <2>3 DEF Shift
  <2>4. slot' \in [0 .. Backups -> LogFile]
    <3>1. i \in 0 .. Backups \/ i = Backups + 1
      BY <1>0
    <3> QED BY <2>1, <2>2, <2>3, <3>1
  <2>5. index' \in [Loggers -> 0 .. Backups + 1]
    <3>1. i - 1 \in 0 .. Backups + 1 /\ index' = [index EXCEPT ![p] = i - 1]
      BY <1>0, <1>4 DEF Shift
    <3> QED BY <3>1, IndexType
  <2> QED BY <1>0, <1>4, <2>4, <2>5 DEF Shift
<1>5. ASSUME NEW p \in Loggers, MoveActive(p) PROVE Goal
  <2>1. pcLog' \in [Loggers -> Labels]
    BY <1>5, GoType DEF MoveActive, Labels
  <2>2. slot' \in [0 .. Backups -> LogFile]
    <3> DEFINE moved == [slot EXCEPT ![1] = slot[0]]
    <3>1. slot[0] \in LogFile
      BY <1>0
    <3>2. moved \in [0 .. Backups -> LogFile]
      BY <1>0, <3>1, SlotType
    <3>3. slot' = [moved EXCEPT ![0] = NoFile]
      BY <1>5 DEF MoveActive
    <3> HIDE DEF moved
    <3> QED BY <3>2, <3>3, SlotType, NoFileType
  <2> QED BY <1>0, <1>5, <2>1, <2>2 DEF MoveActive
<1>6. ASSUME NEW p \in Loggers, Sweep(p) PROVE Goal
  <2>1. pcLog' \in [Loggers -> Labels]
    BY <1>6, GoType DEF Sweep, Labels
  <2>2. index' \in [Loggers -> 0 .. Backups + 1] /\ expired' \in 0 .. appended
    BY <1>0, <1>6, IndexType DEF Sweep
  <2> QED BY <1>0, <1>6, <2>1, <2>2 DEF Sweep
<1>7. ASSUME NEW p \in Loggers, SweepSlot(p) PROVE Goal
  <2>1. slot' \in [0 .. Backups -> LogFile]
    BY <1>0, <1>7, SlotType, NoFileType DEF SweepSlot
  <2>2. index' \in [Loggers -> 0 .. Backups + 1]
    <3>1. index[p] + 1 \in 0 .. Backups + 1 /\ index' = [index EXCEPT ![p] = index[p] + 1]
      BY <1>0, <1>7 DEF SweepSlot
    <3> QED BY <3>1, IndexType
  <2> QED BY <1>0, <1>7, <2>1, <2>2 DEF SweepSlot
<1>8. ASSUME NEW p \in Loggers, SweepEnds(p) PROVE Goal
  <2>1. pcLog' \in [Loggers -> Labels]
    BY <1>8, GoType DEF SweepEnds, Labels
  <2>2. index' \in [Loggers -> 0 .. Backups + 1]
    BY <1>0, <1>8, IndexType DEF SweepEnds
  <2> QED BY <1>0, <1>8, <2>1, <2>2 DEF SweepEnds
<1>9. ASSUME NEW p \in Loggers, AppendLine(p) PROVE Goal
  <2> DEFINE file == [first |-> IF Exists(0) THEN slot[0].first ELSE appended + 1,
                      last |-> appended + 1, size |-> slot[0].size + line[p]]
  <2>1. slot[0] \in LogFile /\ line[p] \in Nat /\ appended + 1 \in 0 .. MaxRecords
    BY <1>0, <1>9, RecordSizesAssumption DEF AppendLine
  <2>2. file \in LogFile
    BY <2>1 DEF LogFile
  <2>3. slot' = [slot EXCEPT ![0] = file]
    BY <1>9 DEF AppendLine
  <2> HIDE DEF file
  <2>4. slot' \in [0 .. Backups -> LogFile]
    BY <1>0, <2>2, <2>3, SlotType
  <2>5. pcLog' \in [Loggers -> Labels]
    BY <1>9, GoType DEF AppendLine, Labels
  <2> QED BY <1>0, <1>9, <2>1, <2>4, <2>5 DEF AppendLine
<1>10. ASSUME NEW p \in Loggers, SinkFails(p) \/ LoggerDies(p) PROVE Goal
  <2>1. pcLog' \in [Loggers -> Labels]
    BY <1>10, GoType DEF SinkFails, LoggerDies, Labels
  <2>2. index' \in [Loggers -> 0 .. Backups + 1]
    BY <1>0, <1>10, IndexType DEF SinkFails, LoggerDies
  <2> QED BY <1>0, <1>10, <2>1, <2>2 DEF SinkFails, LoggerDies
<1> QED BY <1>1, <1>2, <1>3, <1>4, <1>5, <1>6, <1>7, <1>8, <1>9, <1>10 DEF LogNext

\* The variables have their types, however many processes share the file.
THEOREM LogTypeCorrect == LogSpec => []LogTypeOK
<1>1. LogInit => LogTypeOK
  BY BackupsAssumption, MaxRecordsAssumption DEF LogInit, LogTypeOK, LogFile, NoFile
<1> QED BY <1>1, LogTypeStep, PTL DEF LogSpec

\* Two processes that rotate at once break the property: one moves what the other has moved.
SoleLogger == \E p : Loggers = {p}

\* Each file holds records that were appended, newer files later ones, and a record that is not
\* past its retention and not older than every file is in one of them.
FilesHold ==
    \A i \in 0 .. Backups : Exists(i) =>
        1 <= slot[i].first /\ slot[i].first <= slot[i].last /\ slot[i].last <= appended

NewerFirst ==
    \A i, j \in 0 .. Backups : i < j /\ Exists(i) /\ Exists(j) => slot[j].last < slot[i].first

NothingLost ==
    \A r \in expired + 1 .. appended, j \in 0 .. Backups :
        Exists(j) /\ slot[j].first <= r =>
            \E i \in 0 .. Backups : Exists(i) /\ slot[i].first <= r /\ r <= slot[i].last

LogIsWhole == FilesHold /\ NewerFirst /\ NothingLost

\* The slot the loop of rotate() moves the next file to is free; the sweep leaves slot 0 alone.
LoopInv ==
    \A p \in Loggers :
        /\ pcLog[p] = "shift" => index[p] \in 0 .. Backups - 1 /\ ~Exists(index[p] + 1)
        /\ pcLog[p] = "sweeping" => index[p] >= 1

LogInv == LogTypeOK /\ LogIsWhole /\ LoopInv

LEMMA FileFacts ==
  ASSUME LogTypeOK
  PROVE  /\ appended \in Nat /\ expired \in Nat /\ expired <= appended /\ Backups \in Nat \ {0}
         /\ DOMAIN slot = 0 .. Backups
         /\ \A i \in 0 .. Backups : slot[i].first \in Nat /\ slot[i].last \in Nat
<1>1. \A i \in 0 .. Backups : slot[i] \in LogFile
  BY DEF LogTypeOK
<1>2. \A i \in 0 .. Backups : slot[i].first \in Nat /\ slot[i].last \in Nat
  BY <1>1, MaxRecordsAssumption DEF LogFile
<1> QED BY <1>2, BackupsAssumption, MaxRecordsAssumption DEF LogTypeOK

\* A file that moves to the free slot above its own.
LEMMA MoveKeepsWhole ==
  ASSUME LogTypeOK, LogIsWhole, NEW n \in 0 .. Backups - 1, ~Exists(n + 1),
         slot' = [slot EXCEPT ![n + 1] = slot[n], ![n] = NoFile],
         UNCHANGED <<appended, expired>>
  PROVE  LogIsWhole'
<1> DEFINE at(i) == IF i = n + 1 THEN n ELSE i
<1>1. n \in 0 .. Backups /\ n + 1 \in 0 .. Backups /\ n # n + 1
  BY FileFacts
<1>2. \A i \in 0 .. Backups :
         slot'[i] = IF i = n THEN NoFile ELSE IF i = n + 1 THEN slot[n] ELSE slot[i]
  BY <1>1, FileFacts
<1>3. \A i \in 0 .. Backups : Exists(i)' =>
         /\ i # n /\ at(i) \in 0 .. Backups /\ Exists(at(i)) /\ slot'[i] = slot[at(i)]
  BY <1>1, <1>2 DEF Exists
<1>4. \A i \in 0 .. Backups : Exists(i) => \E k \in 0 .. Backups : Exists(k)' /\ slot'[k] = slot[i]
  <2> SUFFICES ASSUME NEW i \in 0 .. Backups, Exists(i)
               PROVE  \E k \in 0 .. Backups : Exists(k)' /\ slot'[k] = slot[i]
    OBVIOUS
  <2>1. CASE i = n
    BY <1>1, <1>2, <2>1 DEF Exists
  <2>2. CASE i # n
    BY <1>1, <1>2, <2>2 DEF Exists
  <2> QED BY <2>1, <2>2
<1>5. FilesHold'
  BY <1>3 DEF FilesHold, LogIsWhole
<1>6. NewerFirst'
  <2> SUFFICES ASSUME NEW i \in 0 .. Backups, NEW j \in 0 .. Backups, i < j, Exists(i)', Exists(j)'
               PROVE  slot'[j].last < slot'[i].first
    BY DEF NewerFirst
  <2>1. at(i) < at(j)
    BY <1>1, <1>3
  <2> QED BY <1>3, <2>1 DEF NewerFirst, LogIsWhole
<1>7. NothingLost'
  <2> SUFFICES ASSUME NEW r \in expired + 1 .. appended, NEW j \in 0 .. Backups,
                      Exists(j)', slot'[j].first <= r
               PROVE  \E i \in 0 .. Backups : Exists(i)' /\ slot'[i].first <= r /\ r <= slot'[i].last
    BY DEF NothingLost
  <2>1. PICK i \in 0 .. Backups : Exists(i) /\ slot[i].first <= r /\ r <= slot[i].last
    BY <1>3 DEF NothingLost, LogIsWhole
  <2> QED BY <1>4, <2>1
<1> QED BY <1>5, <1>6, <1>7 DEF LogIsWhole

\* A file that is removed is the oldest, or holds nothing but records past their retention.
LEMMA RemoveKeepsWhole ==
  ASSUME LogTypeOK, LogIsWhole, NEW n \in 0 .. Backups,
         slot' = [slot EXCEPT ![n] = NoFile],
         n = Backups \/ slot[n].last <= expired,
         UNCHANGED <<appended, expired>>
  PROVE  LogIsWhole'
<1>1. \A i \in 0 .. Backups : slot'[i] = IF i = n THEN NoFile ELSE slot[i]
  BY FileFacts
<1>2. \A i \in 0 .. Backups : Exists(i)' => i # n /\ Exists(i) /\ slot'[i] = slot[i]
  BY <1>1 DEF Exists
<1>3. FilesHold' /\ NewerFirst'
  BY <1>2 DEF FilesHold, NewerFirst, LogIsWhole
<1>4. NothingLost'
  <2> SUFFICES ASSUME NEW r \in expired + 1 .. appended, NEW j \in 0 .. Backups,
                      Exists(j)', slot'[j].first <= r
               PROVE  \E i \in 0 .. Backups : Exists(i)' /\ slot'[i].first <= r /\ r <= slot'[i].last
    BY DEF NothingLost
  <2>1. PICK i \in 0 .. Backups : Exists(i) /\ slot[i].first <= r /\ r <= slot[i].last
    BY <1>2 DEF NothingLost, LogIsWhole
  <2>2. i # n
    <3> SUFFICES ASSUME i = n PROVE FALSE
      OBVIOUS
    <3>1. n = Backups
      BY <2>1, FileFacts
    <3>2. j < n /\ Exists(j) /\ Exists(n) /\ slot[j].first <= r
      BY <1>2, <2>1, <3>1, FileFacts
    <3>3. slot[n].last < slot[j].first
      BY <3>2 DEF NewerFirst, LogIsWhole
    <3> QED BY <2>1, <3>2, <3>3, FileFacts
  <2> QED BY <1>1, <2>1, <2>2 DEF Exists
<1> QED BY <1>3, <1>4 DEF LogIsWhole

\* The record appended goes to the end of the newest file, or begins one after it.
LEMMA AppendKeepsWhole ==
  ASSUME LogTypeOK, LogIsWhole, NEW file \in LogFile,
         file.first = IF Exists(0) THEN slot[0].first ELSE appended + 1,
         file.last = appended + 1,
         slot' = [slot EXCEPT ![0] = file], appended' = appended + 1, UNCHANGED expired
  PROVE  LogIsWhole'
<1>1. \A i \in 0 .. Backups : slot'[i] = IF i = 0 THEN file ELSE slot[i]
  BY FileFacts
<1>2. /\ 1 <= file.first /\ file.first <= file.last /\ file.first \in Nat /\ file.last \in Nat
      /\ appended \in Nat /\ expired \in Nat /\ 0 \in 0 .. Backups
  BY FileFacts, BackupsAssumption DEF FilesHold, LogIsWhole
<1>3. Exists(0)'
  <2>1. file # NoFile
    BY <1>2 DEF NoFile
  <2> QED BY <1>1, <1>2, <2>1 DEF Exists
<1>4. \A i \in 0 .. Backups : i # 0 => slot'[i] = slot[i] /\ (Exists(i)' <=> Exists(i))
  BY <1>1 DEF Exists
<1>5. FilesHold'
  <2> SUFFICES ASSUME NEW i \in 0 .. Backups, Exists(i)'
               PROVE  /\ 1 <= slot'[i].first /\ slot'[i].first <= slot'[i].last
                      /\ slot'[i].last <= appended'
    BY DEF FilesHold
  <2>1. CASE i = 0
    BY <1>1, <1>2, <2>1
  <2>2. CASE i # 0
    BY <1>2, <1>4, <2>2, FileFacts DEF FilesHold, LogIsWhole
  <2> QED BY <2>1, <2>2
<1>6. NewerFirst'
  <2> SUFFICES ASSUME NEW i \in 0 .. Backups, NEW j \in 0 .. Backups, i < j, Exists(i)', Exists(j)'
               PROVE  slot'[j].last < slot'[i].first
    BY DEF NewerFirst
  <2>1. j # 0 /\ Exists(j) /\ slot'[j] = slot[j]
    BY <1>4, FileFacts
  <2>2. CASE i # 0
    BY <1>4, <2>1, <2>2 DEF NewerFirst, LogIsWhole
  <2>3. CASE i = 0 /\ Exists(0)
    <3>1. slot[j].last < slot[0].first
      BY <2>1, <2>3 DEF NewerFirst, LogIsWhole
    <3> QED BY <1>1, <2>1, <2>3, <3>1
  <2>4. CASE i = 0 /\ ~Exists(0)
    <3>1. slot[j].last <= appended
      BY <2>1 DEF FilesHold, LogIsWhole
    <3> QED BY <1>1, <2>1, <2>4, <3>1, FileFacts
  <2> QED BY <2>2, <2>3, <2>4
<1>7. NothingLost'
  <2> SUFFICES ASSUME NEW r \in expired + 1 .. appended + 1, NEW j \in 0 .. Backups,
                      Exists(j)', slot'[j].first <= r
               PROVE  \E i \in 0 .. Backups : Exists(i)' /\ slot'[i].first <= r /\ r <= slot'[i].last
    BY DEF NothingLost
  <2>1. CASE slot'[0].first <= r
    BY <1>1, <1>2, <1>3, <2>1
  <2>2. CASE ~(slot'[0].first <= r)
    <3>1. j # 0 /\ Exists(j) /\ slot[j].first <= r
      BY <1>4, <2>2
    <3>2. r <= appended
      BY <1>1, <1>2, <2>2
    <3>3. PICK i \in 0 .. Backups : Exists(i) /\ slot[i].first <= r /\ r <= slot[i].last
      BY <1>2, <3>1, <3>2 DEF NothingLost, LogIsWhole
    <3>4. i # 0
      BY <1>1, <1>2, <2>2, <3>3
    <3> QED BY <1>4, <3>3, <3>4
  <2> QED BY <2>1, <2>2
<1> QED BY <1>5, <1>6, <1>7 DEF LogIsWhole

LEMMA FewerRecords ==
  ASSUME NEW a \in Nat, NEW e \in Nat, NEW f \in Nat, e <= f
  PROVE  \A r \in f + 1 .. a : r \in e + 1 .. a
OBVIOUS

LEMMA LogStep ==
  ASSUME SoleLogger, LogInv, [LogNext]_logVars
  PROVE  LogIsWhole' /\ LoopInv'
<1>1. PICK p \in Loggers : Loggers = {p}
  BY DEF SoleLogger
<1>0. pcLog \in [{p} -> Labels] /\ index \in [{p} -> 0 .. Backups + 1] /\ LogTypeOK
  BY <1>1 DEF LogInv, LogTypeOK, Labels
<1> DEFINE Turn == /\ pcLog'[p] = "shift" => index'[p] \in 0 .. Backups - 1 /\ slot'[index'[p] + 1] = NoFile
                   /\ pcLog'[p] = "sweeping" => index'[p] >= 1
<1>2. Turn => LoopInv'
  BY <1>1 DEF LoopInv, Exists
<1>3. /\ LogIsWhole
      /\ pcLog[p] = "shift" => index[p] \in 0 .. Backups - 1 /\ ~Exists(index[p] + 1)
      /\ pcLog[p] = "sweeping" => index[p] >= 1
  BY <1>1 DEF LogInv, LoopInv
<1> SUFFICES LogIsWhole' /\ Turn
  BY <1>2
<1>4. CASE UNCHANGED logVars
  <2>1. LogIsWhole'
    BY <1>3, <1>4 DEF logVars, LogIsWhole, FilesHold, NewerFirst, NothingLost, Exists
  <2>2. Turn
    BY <1>3, <1>4 DEF logVars, Exists
  <2> QED BY <2>1, <2>2
<1>5. CASE WriteRecord(p) \/ SweepEnds(p) \/ SinkFails(p) \/ LoggerDies(p)
  <2>1. UNCHANGED <<slot, appended, expired>>
    BY <1>5 DEF WriteRecord, SweepEnds, SinkFails, LoggerDies
  <2>2. pcLog'[p] \notin {"shift", "sweeping"}
    BY <1>0, <1>5 DEF WriteRecord, SweepEnds, SinkFails, LoggerDies, Go
  <2> QED BY <1>3, <2>1, <2>2 DEF LogIsWhole, FilesHold, NewerFirst, NothingLost, Exists
<1>6. CASE DropOldest(p)
  <2>1. LogIsWhole'
    <3>1. /\ Backups \in 0 .. Backups /\ slot' = [slot EXCEPT ![Backups] = NoFile]
          /\ UNCHANGED <<appended, expired>>
      BY <1>6, BackupsAssumption DEF DropOldest
    <3> QED BY <1>0, <1>3, <3>1, RemoveKeepsWhole
  <2>2. pcLog'[p] = "shift" /\ index'[p] = Backups - 1
    BY <1>0, <1>6 DEF DropOldest, Go
  <2>3. slot'[Backups] = NoFile
    BY <1>0, <1>6, FileFacts DEF DropOldest
  <2>4. Backups - 1 \in 0 .. Backups - 1 /\ (Backups - 1) + 1 = Backups
    BY BackupsAssumption
  <2> QED BY <2>1, <2>2, <2>3, <2>4
<1>7. CASE Shift(p)
  <2> DEFINE n == index[p]
  <2>1. n \in 0 .. Backups - 1 /\ n >= 1 /\ ~Exists(n + 1)
    BY <1>3, <1>7 DEF Shift, At
  <2>2. pcLog'[p] = "shift" /\ index'[p] = n - 1 /\ n - 1 \in 0 .. Backups - 1
    BY <1>0, <1>7, <2>1, BackupsAssumption DEF Shift, At
  <2>3. LogIsWhole'
    <3>1. CASE Exists(n)
      BY <1>0, <1>3, <1>7, <2>1, <3>1, MoveKeepsWhole DEF Shift
    <3>2. CASE ~Exists(n)
      BY <1>3, <1>7, <3>2
         DEF Shift, LogIsWhole, FilesHold, NewerFirst, NothingLost, Exists
    <3> QED BY <3>1, <3>2
  <2>4. slot'[n] = NoFile /\ n = (n - 1) + 1
    BY <1>0, <1>7, <2>1, FileFacts DEF Shift, Exists
  <2> QED BY <2>2, <2>3, <2>4
<1>8. CASE MoveActive(p)
  <2>1. LogIsWhole'
    <3>1. 0 \in 0 .. Backups - 1 /\ ~Exists(0 + 1)
      BY <1>3, <1>8, BackupsAssumption DEF MoveActive, At
    <3>2. slot' = [slot EXCEPT ![0 + 1] = slot[0], ![0] = NoFile]
      BY <1>8 DEF MoveActive
    <3>3. UNCHANGED <<appended, expired>>
      BY <1>8 DEF MoveActive
    <3> QED BY <1>0, <1>3, <3>1, <3>2, <3>3, MoveKeepsWhole
  <2>2. pcLog'[p] = "sweep"
    BY <1>0, <1>8 DEF MoveActive, Go
  <2> QED BY <2>1, <2>2
<1>9. CASE Sweep(p)
  <2>1. UNCHANGED <<slot, appended>> /\ expired' \in expired .. appended
    BY <1>0, <1>9, FileFacts DEF Sweep
  <2>2. LogIsWhole'
    <3>1. /\ expired \in Nat /\ appended \in Nat /\ expired' \in Nat
          /\ expired <= expired' /\ appended' = appended
      BY <1>0, <2>1, FileFacts
    <3>2. \A r \in expired' + 1 .. appended' : r \in expired + 1 .. appended
      BY <3>1, FewerRecords
    <3> QED BY <1>3, <2>1, <3>2 DEF LogIsWhole, FilesHold, NewerFirst, NothingLost, Exists
  <2>3. pcLog'[p] = "append" \/ (pcLog'[p] = "sweeping" /\ index'[p] = 1)
    BY <1>0, <1>9 DEF Sweep, Go
  <2> QED BY <2>2, <2>3
<1>10. CASE SweepSlot(p)
  <2>1. index[p] \in 0 .. Backups /\ index[p] >= 1 /\ pcLog'[p] = "sweeping" /\ index'[p] = index[p] + 1
    BY <1>0, <1>3, <1>10, FileFacts DEF SweepSlot, At
  <2>2. LogIsWhole'
    <3>1. CASE UNCHANGED slot
      BY <1>3, <1>10, <3>1
         DEF SweepSlot, LogIsWhole, FilesHold, NewerFirst, NothingLost, Exists
    <3>2. CASE slot' = [slot EXCEPT ![index[p]] = NoFile] /\ slot[index[p]].last <= expired
      BY <1>0, <1>3, <1>10, <2>1, <3>2, RemoveKeepsWhole DEF SweepSlot
    <3> QED BY <1>10, <3>1, <3>2 DEF SweepSlot
  <2> QED BY <2>1, <2>2
<1>11. CASE AppendLine(p)
  <2> DEFINE file == [first |-> IF Exists(0) THEN slot[0].first ELSE appended + 1,
                      last |-> appended + 1, size |-> slot[0].size + line[p]]
  <2>1. slot' = [slot EXCEPT ![0] = file] /\ appended' = appended + 1 /\ UNCHANGED expired
    BY <1>11 DEF AppendLine
  <2>2. file \in LogFile
    <3>1. slot[0] \in LogFile /\ line[p] \in Nat /\ appended + 1 \in 0 .. MaxRecords
      BY <1>0, <1>11, RecordSizesAssumption, BackupsAssumption, MaxRecordsAssumption
         DEF AppendLine, LogTypeOK
    <3> QED BY <3>1 DEF LogFile
  <2>3. file.first = IF Exists(0) THEN slot[0].first ELSE appended + 1
    OBVIOUS
  <2>4. file.last = appended + 1
    OBVIOUS
  <2> HIDE DEF file
  <2>5. LogIsWhole'
    BY <1>0, <1>3, <2>1, <2>2, <2>3, <2>4, AppendKeepsWhole
  <2>6. pcLog'[p] = "idle"
    BY <1>0, <1>11 DEF AppendLine, Go
  <2> QED BY <2>5, <2>6
<1> QED BY <1>1, <1>4, <1>5, <1>6, <1>7, <1>8, <1>9, <1>10, <1>11 DEF LogNext

\* A record that is missing between two files would be past its retention, or be in one.
LEMMA WholeHasNoGap ==
  ASSUME LogTypeOK, LogIsWhole
  PROVE  NoGapInTheMiddle
<1>1. Consecutive
  <2> SUFFICES ASSUME NEW i \in 0 .. Backups, NEW j \in 0 .. Backups, i < j, Exists(i), Exists(j),
                      \A k \in 0 .. Backups : (i < k /\ k < j) => ~Exists(k)
               PROVE  /\ slot[j].last < slot[i].first
                      /\ slot[j].last + 1 < slot[i].first => slot[i].first <= expired + 1
    BY DEF Consecutive
  <2>1. slot[j].last < slot[i].first
    BY DEF LogIsWhole, NewerFirst
  <2>2. ASSUME slot[j].last + 1 < slot[i].first, ~(slot[i].first <= expired + 1)
        PROVE  FALSE
    <3> DEFINE r == slot[i].first - 1
    <3>1. /\ slot[i].first \in Nat /\ slot[i].last \in Nat /\ slot[j].first \in Nat
          /\ slot[j].last \in Nat /\ expired \in Nat /\ appended \in Nat
          /\ slot[j].first <= slot[j].last /\ slot[i].first <= slot[i].last
          /\ slot[i].last <= appended
      BY FileFacts DEF LogIsWhole, FilesHold
    <3>2. r \in expired + 1 .. appended /\ slot[j].first <= r
      BY <2>2, <3>1
    <3>3. PICK k \in 0 .. Backups : Exists(k) /\ slot[k].first <= r /\ r <= slot[k].last
      <4> HIDE DEF r
      <4> QED BY <3>2 DEF LogIsWhole, NothingLost
    <3>4. slot[k].first \in Nat /\ slot[k].last \in Nat
      BY FileFacts
    <3>5. k # i /\ k # j
      BY <2>2, <3>1, <3>3, <3>4
    <3>6. k < i \/ j < k
      BY <3>3, <3>5
    <3>7. CASE k < i
      <4>1. slot[i].last < slot[k].first
        BY <3>3, <3>7 DEF LogIsWhole, NewerFirst
      <4> QED BY <3>1, <3>3, <3>4, <4>1
    <3>8. CASE j < k
      <4>1. slot[k].last < slot[j].first
        BY <3>3, <3>8 DEF LogIsWhole, NewerFirst
      <4> QED BY <2>2, <3>1, <3>3, <3>4, <4>1
    <3> QED BY <3>6, <3>7, <3>8
  <2> QED BY <2>1, <2>2
<1>2. EndsWithTheLast
  <2> SUFFICES ASSUME NEW i \in 0 .. Backups, Exists(i), \A k \in 0 .. Backups : k < i => ~Exists(k),
                      ~(appended <= expired)
               PROVE  slot[i].last = appended
    BY DEF EndsWithTheLast
  <2>1. /\ slot[i].first \in Nat /\ slot[i].last \in Nat /\ expired \in Nat /\ appended \in Nat
        /\ slot[i].first <= slot[i].last /\ slot[i].last <= appended
    BY FileFacts DEF LogIsWhole, FilesHold
  <2>2. appended \in expired + 1 .. appended /\ slot[i].first <= appended
    BY <2>1
  <2>3. PICK k \in 0 .. Backups : Exists(k) /\ slot[k].first <= appended /\ appended <= slot[k].last
    BY <2>2 DEF LogIsWhole, NothingLost
  <2>4. CASE i < k
    <3>1. slot[k].last < slot[i].first /\ slot[k].last \in Nat
      BY <2>3, <2>4, FileFacts DEF LogIsWhole, NewerFirst
    <3> QED BY <2>1, <2>3, <3>1
  <2>5. CASE i = k
    BY <2>1, <2>3, <2>5
  <2> QED BY <2>3, <2>4, <2>5
<1> QED BY <1>1, <1>2 DEF NoGapInTheMiddle

\* One process leaves no gap in its log, wherever a call of the rotation or the sweep fails and
\* wherever it dies.
THEOREM OneLoggerLeavesNoGap == SoleLogger /\ LogSpec => []NoGapInTheMiddle
<1> SUFFICES ASSUME SoleLogger PROVE LogSpec => []NoGapInTheMiddle
  OBVIOUS
<1>1. LogInit => LogIsWhole /\ LoopInv
  BY BackupsAssumption
     DEF LogInit, LogIsWhole, FilesHold, NewerFirst, NothingLost, LoopInv, Exists
<1>2. LogTypeOK /\ LogIsWhole /\ LoopInv /\ [LogNext]_logVars => LogIsWhole' /\ LoopInv'
  BY LogStep DEF LogInv
<1>3. LogTypeOK /\ LogIsWhole => NoGapInTheMiddle
  BY WholeHasNoGap
<1> QED BY <1>1, <1>2, <1>3, LogTypeCorrect, PTL DEF LogSpec
=============================================================================
