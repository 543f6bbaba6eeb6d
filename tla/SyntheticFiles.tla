---------------------------- MODULE SyntheticFiles ----------------------------
(***************************************************************************)
(* The directories a generated day is handed over in: SimulationExporter   *)
(* of app/simulation/exporter.py writes them file by file, load_ground_    *)
(* truth of app/evaluation/ground_truth.py and SyntheticDataLoader of      *)
(* app/replay/loader.py read them file by file, in other processes.        *)
(*                                                                         *)
(* A file is written beside its place and moved there, so a file is whole  *)
(* or missing.  Nothing holds the files of one export together: a reader   *)
(* may come in between, and an export that is broken off leaves the files  *)
(* of two exports side by side.                                            *)
(***************************************************************************)
EXTENDS Integers, Sequences, Functions

CONSTANTS
  Runs,        \* the generated days
  Day,         \* Day[r]: the rows of each file that is read, the manifest apart
  MaxExports,  \* bound on the exports
  MaxReads     \* bound on the times the directories are read

ASSUME FilesAssumption == MaxExports \in Nat /\ MaxReads \in Nat

VARIABLES
  exports,   \* history: the run of each export, in the order they were started
  finished,  \* history: the last export that ran to its end, 0 for none
  disk,      \* the files in their places
  temp,      \* the files with suffix .tmp beside them
  writer,    \* what the exporter does to the file it is at
  moved,     \* how many files the export has moved to their places
  reader,    \* what became of the last reading
  passed,    \* how many files it has read
  seen,      \* the export each file read was of, 0 for a file not read
  reads,     \* how often the directories were read
  quiet      \* history: no export ran, or had been broken off, while it was read

writerVars == <<exports, finished, disk, temp, writer, moved>>
readerVars == <<reader, passed, seen, reads>>
filesVars == <<writerVars, readerVars, quiet>>

\* A mutant of FileOrder.
ManifestFirst ==
  <<"scenario_manifest", "agents", "opening_balances", "transactions", "feed_events",
    "context_events", "transaction_failures", "scenario_labels">>

FileOrder ==
  <<"agents", "opening_balances", "transactions", "feed_events", "context_events",
    "transaction_failures", "scenario_labels", "scenario_manifest">>

\* A mutant of ReadOrder.
LabelsFirst ==
  <<"scenario_labels", "scenario_manifest", "agents", "opening_balances",
    "transactions", "feed_events", "context_events">>

\* The evaluator reads the ground truth first; the application begins at the
\* agents and never looks at it.
ReadOrder ==
  <<"scenario_manifest", "scenario_labels", "agents", "opening_balances",
    "transactions", "feed_events", "context_events">>

Files == {"agents", "opening_balances", "transactions", "feed_events", "context_events",
          "transaction_failures", "scenario_labels", "scenario_manifest"}

NoFile == [of |-> 0, whole |-> FALSE]

FilesInit ==
  /\ exports = <<>>
  /\ finished = 0
  /\ disk = [f \in Files |-> NoFile]
  /\ temp = [f \in Files |-> NoFile]
  /\ writer = "idle"
  /\ moved = 0
  /\ reader = "idle"
  /\ passed = 0
  /\ seen = [f \in Files |-> 0]
  /\ reads = 0
  /\ quiet = TRUE

-----------------------------------------------------------------------------
(* The exporter.                                                           *)

\* _validate_run
Exportable(r) ==
  /\ \A f \in {"agents", "opening_balances", "transactions"} : Day[r][f] # <<>>
  /\ \A f \in {"transactions", "feed_events"} :
       \A i, j \in DOMAIN Day[r][f] : Day[r][f][i].id = Day[r][f][j].id => i = j

StartExport(r) ==
  /\ writer = "idle"
  /\ Len(exports) < MaxExports
  /\ Exportable(r)
  /\ exports' = Append(exports, r)
  /\ moved' = 0
  /\ writer' = "ready"
  /\ quiet' = (quiet /\ reader # "reading")
  /\ UNCHANGED <<finished, disk, temp, readerVars>>

Target == FileOrder[moved + 1]

\* Opening the temporary file empties what an export broken off left there.
OpenTemporary ==
  /\ writer = "ready"
  /\ temp' = [temp EXCEPT ![Target] = [of |-> Len(exports), whole |-> FALSE]]
  /\ writer' = "writing"
  /\ UNCHANGED <<exports, finished, disk, moved, readerVars, quiet>>

WriteRows ==
  /\ writer = "writing"
  /\ temp' = [temp EXCEPT ![Target].whole = TRUE]
  /\ writer' = "written"
  /\ UNCHANGED <<exports, finished, disk, moved, readerVars, quiet>>

ReplaceFile ==
  /\ writer = "written"
  /\ disk' = [disk EXCEPT ![Target] = temp[Target]]
  /\ temp' = [temp EXCEPT ![Target] = NoFile]
  /\ moved' = moved + 1
  /\ IF moved' = Len(FileOrder)
     THEN writer' = "idle" /\ finished' = Len(exports)
     ELSE writer' = "ready" /\ UNCHANGED finished
  /\ UNCHANGED <<exports, readerVars, quiet>>

\* Opening, writing or moving raises: the temporary file goes and the export ends.
WriteFails ==
  /\ writer # "idle"
  /\ temp' = [temp EXCEPT ![Target] = NoFile]
  /\ writer' = "idle"
  /\ UNCHANGED <<exports, finished, disk, moved, readerVars, quiet>>

\* The process is stopped: the temporary file stays.
Crash ==
  /\ writer # "idle"
  /\ writer' = "idle"
  /\ UNCHANGED <<exports, finished, disk, temp, moved, readerVars, quiet>>

ExportStep ==
  (\E r \in Runs : StartExport(r)) \/ OpenTemporary \/ WriteRows \/ ReplaceFile
    \/ WriteFails \/ Crash

-----------------------------------------------------------------------------
(* The readers.                                                            *)

\* The rows of a file as they were read.
Rows(f) == Day[exports[seen[f]]][f]
RowSet(f) == Range(Rows(f))

ProviderAccounts == {o \in RowSet("opening_balances") : o.resource # "CASH"}
ProvidersSeen == {o.resource : o \in ProviderAccounts}
AgentsSeen == RowSet("agents")

UniqueIn(f, Key(_)) ==
  \A i, j \in DOMAIN Rows(f) : Key(Rows(f)[i]) = Key(Rows(f)[j]) => i = j

\* _validate_bundle.  That the agents are known is asked of each file, that the
\* providers have accounts is not.  No exported file has a forbidden column.
ValidBundle ==
  /\ UniqueIn("agents", LAMBDA a : a)
  /\ UniqueIn("transactions", LAMBDA t : t.id)
  /\ UniqueIn("feed_events", LAMBDA e : e.id)
  /\ \A t \in RowSet("transactions"), e \in RowSet("feed_events") : t.id # e.id
  /\ \A f \in {"opening_balances", "transactions", "feed_events"} :
       \A row \in RowSet(f) : row.agent \in AgentsSeen
  /\ UniqueIn("opening_balances", LAMBDA o : <<o.agent, o.resource>>)
  /\ \A a \in AgentsSeen, r \in {"CASH"} \cup ProvidersSeen :
       \E o \in RowSet("opening_balances") : o.agent = a /\ o.resource = r
  /\ \E p, q \in ProvidersSeen : p # q

Begin(files) ==
  /\ reader # "reading"
  /\ reads < MaxReads
  /\ reads' = reads + 1
  /\ passed' = files
  /\ seen' = [f \in Files |-> 0]
  /\ quiet' = (writer = "idle" /\ finished = Len(exports))
  /\ UNCHANGED writerVars

\* load_ground_truth, up to opening the manifest: both files must be there.
BeginEvaluation ==
  /\ Begin(0)
  /\ reader' = IF NoFile \in {disk["scenario_labels"], disk["scenario_manifest"]}
               THEN "refused" ELSE "reading"

\* The application loads the public files when it starts.
BeginStartUp == Begin(2) /\ reader' = "reading"

\* The next file is opened and read.  Only the manifest may be without rows.
ReadFile ==
  LET f == ReadOrder[passed + 1]
  IN  /\ reader = "reading"
      /\ passed < Len(ReadOrder)
      /\ seen' = [seen EXCEPT ![f] = disk[f].of]
      /\ passed' = passed + 1
      /\ reader' = IF disk[f] # NoFile
                        /\ (f # "scenario_manifest" => Day[exports[disk[f].of]][f] # <<>>)
                   THEN "reading" ELSE "refused"
      /\ UNCHANGED <<writerVars, reads, quiet>>

EndRead ==
  /\ reader = "reading"
  /\ passed = Len(ReadOrder)
  /\ reader' = IF ValidBundle THEN "accepted" ELSE "refused"
  /\ UNCHANGED <<writerVars, passed, seen, reads, quiet>>

ReadStep == BeginEvaluation \/ BeginStartUp \/ ReadFile \/ EndRead

FilesNext == ExportStep \/ ReadStep

FilesSpec == FilesInit /\ [][FilesNext]_filesVars

-----------------------------------------------------------------------------
(* Properties.                                                             *)

Written == [of : Nat, whole : BOOLEAN]

FilesTypeOK ==
  /\ exports \in Seq(Runs) /\ Len(exports) <= MaxExports
  /\ finished \in 0..Len(exports)
  /\ disk \in [Files -> Written] /\ temp \in [Files -> Written]
  /\ writer \in {"idle", "ready", "writing", "written"}
  /\ moved \in 0..Len(FileOrder)
  /\ reader \in {"idle", "reading", "accepted", "refused"}
  /\ passed \in 0..Len(ReadOrder)
  /\ seen \in [Files -> Nat]
  /\ reads \in 0..MaxReads
  /\ quiet \in BOOLEAN

\* The manifest is the last word of an export: every file in its place is whole,
\* and none is older than the manifest that describes the directory, however many
\* exports were broken off.
FilesFollowManifest ==
  \A f \in Files :
    /\ disk[f] = NoFile \/ disk[f].whole
    /\ disk[f].of >= disk["scenario_manifest"].of

\* When the last export ran to its end, all files are of it and nothing is left
\* beside them, whatever the exports before it left.
FinishedExportStands ==
  writer = "idle" /\ finished = Len(exports) =>
    \A f \in Files : disk[f].of = finished /\ temp[f] = NoFile

\* A reader that took the manifest of an export took no file older than it; a
\* reading that no export fell into, of directories whose last export had
\* finished, is of one export altogether.
ReadsFollowManifest ==
  \A f, g \in Files : seen[f] # 0 /\ seen[g] # 0 =>
    /\ seen[f] >= seen["scenario_manifest"]
    /\ quiet => seen[f] = seen[g]
=============================================================================
