-------------------------------- MODULE LogSink --------------------------------
(***************************************************************************)
(* The log file of src/src/core/logging.js: emit(), writeFile(), rotate()  *)
(* and sweepExpired(), one system call a step.  A process does a whole     *)
(* log() without interruption; the processes that share a log file (every  *)
(* client starts a server of its own) do not.  A file is the interval of   *)
(* records it holds, slot 0 the active one.                                *)
(***************************************************************************)
EXTENDS Naturals, Sequences, FiniteSets

CONSTANTS
    Loggers,        \* processes that write to the file
    Backups,        \* ANYDB_LOG_BACKUPS
    MaxBytes,       \* ANYDB_LOG_MAX_BYTES
    RecordSizes,    \* the lengths a line may have
    MaxRecords      \* bound of the model: records appended in all

ASSUME BackupsAssumption == Backups \in Nat \ {0}
ASSUME RecordSizesAssumption == RecordSizes \subseteq Nat \ {0}
ASSUME MaxRecordsAssumption == MaxRecords \in Nat

VARIABLES
    slot,       \* slot -> the file of that name
    appended,   \* records that reached the active file
    expired,    \* records up to this one are past ANYDB_LOG_TTL_DAYS
    pcLog,      \* logger -> the system call it makes next
    line,       \* logger -> the length of the line it writes
    index,      \* logger -> rotate()'s loop counter
    failed      \* logger -> sinkFailure: the file sink has been reported broken

logVars == <<slot, appended, expired, pcLog, line, index, failed>>

NoFile == [first |-> 0, last |-> 0, size |-> 0]
Exists(i) == slot[i] # NoFile

LogInit ==
    /\ slot = [i \in 0 .. Backups |-> NoFile]
    /\ appended = 0 /\ expired = 0
    /\ pcLog = [p \in Loggers |-> "idle"]
    /\ line = [p \in Loggers |-> 0]
    /\ index = [p \in Loggers |-> 0]
    /\ failed = [p \in Loggers |-> FALSE]

At(p, label) == pcLog[p] = label
Go(p, label) == pcLog' = [pcLog EXCEPT ![p] = label]

\* emit() at a level that is logged: the line is on stderr already; statSync of the active
\* file decides whether it is moved aside first.
WriteRecord(p) ==
    /\ At(p, "idle")
    /\ \E size \in RecordSizes :
          /\ line' = [line EXCEPT ![p] = size]
          /\ IF slot[0].size > 0 /\ slot[0].size + size > MaxBytes
             THEN Go(p, "overflow")
             ELSE Go(p, "sweep")
    /\ UNCHANGED <<slot, appended, expired, index, failed>>

\* rotate(): the file that falls out of the window goes first ...
DropOldest(p) ==
    /\ At(p, "overflow")
    /\ slot' = [slot EXCEPT ![Backups] = NoFile]
    /\ index' = [index EXCEPT ![p] = Backups - 1]
    /\ Go(p, "shift")
    /\ UNCHANGED <<appended, expired, line, failed>>

\* ... then every slot moves one place, a rename each; one that does not exist is passed over ...
Shift(p) ==
    /\ At(p, "shift") /\ index[p] >= 1
    /\ slot' = IF Exists(index[p])
               THEN [slot EXCEPT ![index[p] + 1] = slot[index[p]], ![index[p]] = NoFile]
               ELSE slot
    /\ index' = [index EXCEPT ![p] = @ - 1]
    /\ UNCHANGED <<appended, expired, pcLog, line, failed>>

\* ... and the active file becomes .1.
MoveActive(p) ==
    /\ At(p, "shift") /\ index[p] = 0
    /\ Exists(0)
    /\ slot' = [slot EXCEPT ![1] = slot[0], ![0] = NoFile]
    /\ Go(p, "sweep")
    /\ UNCHANGED <<appended, expired, line, index, failed>>

\* sweepExpired(), when its hour has come: every record up to a cutoff is past its retention.
Sweep(p) ==
    /\ At(p, "sweep")
    /\ \/ /\ expired' \in expired .. appended
          /\ index' = [index EXCEPT ![p] = 1]
          /\ Go(p, "sweeping")
       \/ Go(p, "append") /\ UNCHANGED <<expired, index>>
    /\ UNCHANGED <<slot, appended, line, failed>>

\* Mutant: a file begun before the cutoff is removed (birthtimeMs for mtimeMs).
SweepSlot_ByBirth(p) ==
    /\ At(p, "sweeping") /\ index[p] <= Backups
    /\ \/ Exists(index[p]) /\ slot[index[p]].first <= expired
          /\ slot' = [slot EXCEPT ![index[p]] = NoFile]
       \/ UNCHANGED slot
    /\ index' = [index EXCEPT ![p] = @ + 1]
    /\ UNCHANGED <<appended, expired, pcLog, line, failed>>

\* A rotated file last written before the cutoff is removed, if it can be: the newest first.
SweepSlot(p) ==
    /\ At(p, "sweeping") /\ index[p] <= Backups
    /\ \/ Exists(index[p]) /\ slot[index[p]].last <= expired
          /\ slot' = [slot EXCEPT ![index[p]] = NoFile]
       \/ UNCHANGED slot
    /\ index' = [index EXCEPT ![p] = @ + 1]
    /\ UNCHANGED <<appended, expired, pcLog, line, failed>>

SweepEnds(p) ==
    /\ At(p, "sweeping") /\ index[p] > Backups
    /\ index' = [index EXCEPT ![p] = 0]
    /\ Go(p, "append")
    /\ UNCHANGED <<slot, appended, expired, line, failed>>

\* appendFileSync makes the file when it is not there.
AppendLine(p) ==
    /\ At(p, "append")
    /\ appended < MaxRecords
    /\ appended' = appended + 1
    /\ slot' = [slot EXCEPT ![0] =
                  [first |-> IF Exists(0) THEN @.first ELSE appended + 1,
                   last |-> appended + 1,
                   size |-> @.size + line[p]]]
    /\ Go(p, "idle")
    /\ UNCHANGED <<expired, line, index, failed>>

\* Any of these calls throws (also the rename of a file another process moved): emit()
\* catches it, says so once on stderr, and the next record tries the file again.
SinkFails(p) ==
    /\ pcLog[p] \notin {"idle", "sweep", "sweeping"}
    /\ failed' = [failed EXCEPT ![p] = TRUE]
    /\ Go(p, "idle")
    /\ UNCHANGED <<slot, appended, expired, line>>
    /\ index' = [index EXCEPT ![p] = 0]

\* The process dies where it is and a new one starts.
LoggerDies(p) ==
    /\ ~At(p, "idle")
    /\ failed' = [failed EXCEPT ![p] = FALSE]
    /\ Go(p, "idle")
    /\ UNCHANGED <<slot, appended, expired, line>>
    /\ index' = [index EXCEPT ![p] = 0]

LogNext ==
    \E p \in Loggers :
        \/ WriteRecord(p)
        \/ DropOldest(p)
        \/ Shift(p)
        \/ MoveActive(p)
        \/ Sweep(p)
        \/ SweepSlot(p)
        \/ SweepEnds(p)
        \/ AppendLine(p)
        \/ SinkFails(p)
        \/ LoggerDies(p)

LogSpec == LogInit /\ [][LogNext]_logVars

LogFile == [first : 0 .. MaxRecords, last : 0 .. MaxRecords, size : Nat]

LogTypeOK ==
    /\ slot \in [0 .. Backups -> LogFile]
    /\ appended \in 0 .. MaxRecords /\ expired \in 0 .. appended
    /\ pcLog \in [Loggers -> {"idle", "overflow", "shift", "sweep", "sweeping", "append"}]
    /\ line \in [Loggers -> RecordSizes \cup {0}]
    /\ index \in [Loggers -> 0 .. Backups + 1]
    /\ failed \in [Loggers -> BOOLEAN]

\* The files are, oldest slot first, a run of records with nothing missing between two of them
\* but what is past its retention ...
Consecutive ==
    \A i, j \in 0 .. Backups :
        (i < j /\ Exists(i) /\ Exists(j) /\ \A k \in 0 .. Backups : (i < k /\ k < j) => ~Exists(k))
            => /\ slot[j].last < slot[i].first
               /\ slot[j].last + 1 < slot[i].first => slot[i].first <= expired + 1

\* ... that ends with the last one appended.
EndsWithTheLast ==
    \A i \in 0 .. Backups :
        (Exists(i) /\ \A k \in 0 .. Backups : k < i => ~Exists(k)) =>
            slot[i].last = appended \/ appended <= expired

\* rotate(): wherever a call fails or the process dies, what is lost is the oldest end of the
\* log, "never a gap in the middle"; only the sweep, which goes from the newest file to the
\* oldest, can leave one, of records it was about to remove anyway.
NoGapInTheMiddle == Consecutive /\ EndsWithTheLast
=============================================================================
