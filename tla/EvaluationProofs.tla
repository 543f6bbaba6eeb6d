--------------------------- MODULE EvaluationProofs ---------------------------
(***************************************************************************)
(* Proofs about the files of a generated day and about their evaluation:   *)
(* for any days, any number of exports, broken off anywhere, any number of *)
(* readings in between, and whatever the engines answer.                   *)
(***************************************************************************)
EXTENDS ShadowReplay, SequenceTheorems, SumTheorems

Manifest == "scenario_manifest"
Now == Len(exports)  \* the number of the last export

\* While an export runs, the files it has moved are its own, and the others older.
Moved ==
  writer # "idle" =>
    /\ moved < 8 /\ finished < Now
    /\ \A i \in 1..8 :
         IF i <= moved THEN disk[FileOrder[i]].of = Now /\ temp[FileOrder[i]] = NoFile
                       ELSE disk[FileOrder[i]].of < Now
    /\ writer \in {"writing", "written"} => temp[Target].of = Now
    /\ writer = "written" => temp[Target].whole

\* Nothing is newer than the last export.
NoneNewer == \A f \in Files : disk[f].of <= Now

\* What was read is not newer than what is in its place, and a quiet reading is of
\* the last export.
Readings ==
  /\ \A f \in Files : seen[f] <= disk[f].of
  /\ reader = "reading" /\ passed = 0 => \A f \in Files : seen[f] = 0
  /\ reader = "reading" /\ quiet =>
       /\ writer = "idle" /\ finished = Now
       /\ \A f \in Files : seen[f] \in {0, Now}

\* A file in its place is of one of the exports, and only legal days are exported.
Exported ==
  /\ \A f \in Files : disk[f] # NoFile => disk[f].of >= 1
  /\ \A n \in 1..Now : exports[n] \in Runs /\ Exportable(exports[n])

\* A reading that goes on, or was accepted, got every file it has passed; the
\* application passes over the ground truth.
ReadSoFar ==
  /\ reader = "accepted" => passed = 7
  /\ reader \in {"reading", "accepted"} =>
       \A i \in 1..passed : i > 2 \/ seen[Manifest] # 0 => seen[ReadOrder[i]] # 0

IInv ==
  /\ FilesTypeOK
  /\ FilesFollowManifest
  /\ FinishedExportStands
  /\ ReadsFollowManifest
  /\ Moved
  /\ NoneNewer
  /\ Readings
  /\ Exported
  /\ ReadSoFar

-----------------------------------------------------------------------------
(* The two orders.                                                         *)

LEMMA OrderOfFiles ==
  /\ Len(FileOrder) = 8
  /\ \A i \in 1..8 : FileOrder[i] \in Files
  /\ \A i, j \in 1..8 : FileOrder[i] = FileOrder[j] => i = j
  /\ \A f \in Files : \E i \in 1..8 : f = FileOrder[i]
  /\ FileOrder[8] = Manifest
<1>1. Len(FileOrder) = 8 /\ FileOrder[8] = Manifest
  BY DEF FileOrder, Manifest
<1>2. \A i \in 1..8 : FileOrder[i] \in Files
  BY DEF FileOrder, Files
<1>3. \A i, j \in 1..8 : FileOrder[i] = FileOrder[j] => i = j
  BY DEF FileOrder
<1>4. \A f \in Files : \E i \in 1..8 : f = FileOrder[i]
  <2>. SUFFICES ASSUME NEW f \in Files PROVE \E i \in 1..8 : f = FileOrder[i]
    OBVIOUS
  <2>1. /\ FileOrder[1] = "agents" /\ FileOrder[2] = "opening_balances"
        /\ FileOrder[3] = "transactions" /\ FileOrder[4] = "feed_events"
        /\ FileOrder[5] = "context_events" /\ FileOrder[6] = "transaction_failures"
        /\ FileOrder[7] = "scenario_labels" /\ FileOrder[8] = "scenario_manifest"
    BY DEF FileOrder
  <2>. QED BY <2>1 DEF Files
<1>. QED BY <1>1, <1>2, <1>3, <1>4

\* The manifest is read first, and by the evaluator only.
LEMMA OrderOfReading ==
  /\ Len(ReadOrder) = 7
  /\ \A i \in 1..7 : ReadOrder[i] \in Files /\ (ReadOrder[i] = Manifest => i = 1)
BY DEF ReadOrder, Files, Manifest

LEMMA ManifestIsFile == Manifest \in Files
BY DEF Manifest, Files

\* What the exporter is at.
LEMMA TargetIsFile ==
  ASSUME IInv, writer # "idle"
  PROVE  /\ moved + 1 \in 1..8 /\ Target = FileOrder[moved + 1] /\ Target \in Files
         /\ \A i \in 1..8 : i # moved + 1 => FileOrder[i] # Target
<1>1. moved \in 0..8 /\ (writer # "idle" => moved < 8)
  BY OrderOfFiles DEF IInv, Moved, FilesTypeOK
<1>2. moved + 1 \in 1..8
  BY <1>1
<1>. QED BY <1>2, OrderOfFiles DEF Target

-----------------------------------------------------------------------------
(* Steps.                                                                  *)

LEMMA InitHolds == FilesInit => IInv
<1>. SUFFICES ASSUME FilesInit PROVE IInv
  OBVIOUS
<1>1. Len(exports) = 0 /\ exports \in Seq(Runs)
  BY DEF FilesInit
<1>2. NoFile \in Written /\ NoFile.of = 0
  BY DEF NoFile, Written
<1>3. \A f \in Files : disk[f] = NoFile /\ temp[f] = NoFile /\ seen[f] = 0
  BY DEF FilesInit
<1>4. FilesTypeOK
  BY <1>1, <1>2, OrderOfFiles, OrderOfReading, FilesAssumption
     DEF FilesInit, FilesTypeOK, FilesAssumption
<1>5. FilesFollowManifest /\ FinishedExportStands /\ NoneNewer
  BY <1>1, <1>2, <1>3, ManifestIsFile
     DEF FilesInit, FilesFollowManifest, FinishedExportStands, NoneNewer, Now, Manifest
<1>6. ReadsFollowManifest /\ Readings /\ Moved
  BY <1>2, <1>3 DEF FilesInit, ReadsFollowManifest, Readings, Moved
<1>7. Exported /\ ReadSoFar
  BY <1>1, <1>3 DEF FilesInit, Exported, ReadSoFar, Now
<1>. QED BY <1>4, <1>5, <1>6, <1>7 DEF IInv

LEMMA StartKeeps ==
  ASSUME IInv, NEW r \in Runs, StartExport(r)
  PROVE  IInv'
<1>. USE DEF IInv
<1>1. Now' = Now + 1 /\ exports' \in Seq(Runs) /\ Now \in Nat
  BY DEF StartExport, FilesTypeOK, Now
<1>2. /\ disk' = disk /\ temp' = temp /\ finished' = finished /\ seen' = seen
      /\ reader' = reader /\ passed' = passed /\ reads' = reads
      /\ writer = "idle" /\ writer' = "ready" /\ moved' = 0
      /\ quiet' = (quiet /\ reader # "reading")
  BY DEF StartExport, readerVars
<1>3. FilesTypeOK'
  <2>1. Len(exports') <= MaxExports /\ finished' \in 0..Len(exports') /\ quiet' \in BOOLEAN
    BY <1>1, <1>2, FilesAssumption DEF StartExport, FilesTypeOK, Now, FilesAssumption
  <2>. QED BY <1>1, <1>2, <2>1, OrderOfFiles DEF FilesTypeOK
<1>4. Moved' /\ NoneNewer' /\ FinishedExportStands'
  <2>1. \A f \in Files : disk[f].of < Now'
    BY <1>1 DEF NoneNewer, FilesTypeOK, Written
  <2>2. finished < Now'
    BY <1>1 DEF FilesTypeOK, Now
  <2>3. \A i \in 1..8 : disk'[FileOrder[i]].of < Now'
    BY <1>2, <2>1, OrderOfFiles
  <2>4. Moved'
    BY <1>2, <2>2, <2>3 DEF Moved
  <2>5. NoneNewer'
    BY <1>1, <1>2, <2>1 DEF NoneNewer, FilesTypeOK, Written
  <2>. QED BY <1>2, <2>4, <2>5 DEF FinishedExportStands
<1>5. FilesFollowManifest' /\ ReadsFollowManifest' /\ Readings'
  BY <1>1, <1>2 DEF FilesTypeOK, FilesFollowManifest, ReadsFollowManifest, Readings, Now, Written
<1>6. Exported' /\ ReadSoFar'
  <2>1. exports \in Seq(Runs) /\ exports' = Append(exports, r) /\ Exportable(r)
    BY DEF StartExport, FilesTypeOK
  <2>2. ASSUME NEW n \in 1..Now' PROVE exports'[n] \in Runs /\ Exportable(exports'[n])
    <3>1. n = Now + 1 => exports'[n] = r
      BY <1>1, <2>1, <2>2 DEF Now
    <3>2. n # Now + 1 => n \in 1..Now /\ exports'[n] = exports[n]
      BY <1>1, <2>1, <2>2 DEF Now
    <3>. QED BY <2>1, <3>1, <3>2 DEF Exported
  <2>3. Exported'
    BY <1>2, <2>2 DEF Exported, Exportable
  <2>. QED BY <1>2, <2>3 DEF ReadSoFar
<1>. QED BY <1>3, <1>4, <1>5, <1>6

\* A step that only touches the temporary file of its target.
LEMMA TemporaryKeeps ==
  ASSUME IInv, OpenTemporary \/ WriteRows \/ WriteFails \/ Crash
  PROVE  IInv'
<1>. USE DEF IInv
<1>1. /\ writer # "idle" /\ disk' = disk /\ finished' = finished /\ exports' = exports
      /\ moved' = moved /\ seen' = seen /\ reader' = reader /\ passed' = passed
      /\ reads' = reads /\ quiet' = quiet /\ Now' = Now
  BY DEF OpenTemporary, WriteRows, WriteFails, Crash, readerVars, Now
<1>2. Now \in Nat /\ finished < Now /\ moved < 8 /\ ~(reader = "reading" /\ quiet)
  BY <1>1 DEF Moved, Readings, FilesTypeOK, Now
<1>3. /\ temp' \in [Files -> Written]
      /\ \A f \in Files : f # Target => temp'[f] = temp[f]
      /\ writer' \in {"idle", "writing", "written"}
      /\ writer' \in {"writing", "written"} => temp'[Target].of = Now
      /\ writer' = "written" => temp'[Target].whole
  <2>1. CASE OpenTemporary
    BY <2>1, <1>1, <1>2, TargetIsFile DEF OpenTemporary, FilesTypeOK, Written, Now
  <2>2. CASE WriteRows
    BY <2>2, <1>1, <1>2, TargetIsFile DEF WriteRows, FilesTypeOK, Written, Now, Moved
  <2>3. CASE WriteFails
    BY <2>3, <1>1, <1>2, TargetIsFile DEF WriteFails, FilesTypeOK, Written, NoFile
  <2>4. CASE Crash
    BY <2>4, <1>1 DEF Crash, FilesTypeOK
  <2>. QED BY <2>1, <2>2, <2>3, <2>4
<1>4. FilesTypeOK'
  BY <1>1, <1>3 DEF FilesTypeOK
<1>5. Moved'
  <2>1. Target' = Target
    BY <1>1 DEF Target
  <2>2. \A i \in 1..8 : i <= moved => temp'[FileOrder[i]] = temp[FileOrder[i]]
    <3>. SUFFICES ASSUME NEW i \in 1..8, i <= moved
                  PROVE  temp'[FileOrder[i]] = temp[FileOrder[i]]
      OBVIOUS
    <3>1. i # moved + 1
      BY DEF FilesTypeOK
    <3>. QED BY <1>1, <1>3, <3>1, TargetIsFile, OrderOfFiles
  <2>. QED BY <1>1, <1>3, <2>1, <2>2 DEF Moved, Now
<1>6. NoneNewer' /\ FilesFollowManifest' /\ ReadsFollowManifest' /\ Readings'
      /\ FinishedExportStands'
  BY <1>1, <1>2 DEF NoneNewer, FilesFollowManifest, ReadsFollowManifest, Readings,
     FinishedExportStands, Now
<1>7. Exported' /\ ReadSoFar'
  BY <1>1 DEF Exported, ReadSoFar, Exportable
<1>. QED BY <1>4, <1>5, <1>6, <1>7

\* The manifest is moved last, so until then nothing is older than it.
LEMMA ReplaceKeeps ==
  ASSUME IInv, ReplaceFile
  PROVE  IInv'
<1>. USE DEF IInv
<1>1. /\ writer = "written" /\ exports' = exports /\ seen' = seen /\ reader' = reader
      /\ passed' = passed /\ reads' = reads /\ quiet' = quiet /\ Now' = Now
      /\ moved' = moved + 1
      /\ disk' = [disk EXCEPT ![Target] = temp[Target]]
      /\ temp' = [temp EXCEPT ![Target] = NoFile]
  BY DEF ReplaceFile, readerVars, Now
<1>2. /\ Now \in Nat /\ finished < Now /\ moved \in 0..7 /\ ~(reader = "reading" /\ quiet)
      /\ temp[Target].of = Now /\ temp[Target].whole /\ temp[Target] \in Written
  BY <1>1, TargetIsFile DEF Moved, Readings, FilesTypeOK, Now
<1>3. /\ disk' \in [Files -> Written] /\ temp' \in [Files -> Written]
      /\ disk'[Target].of = Now /\ disk'[Target].whole /\ temp'[Target] = NoFile
      /\ \A f \in Files : f # Target => disk'[f] = disk[f] /\ temp'[f] = temp[f]
  BY <1>1, <1>2, TargetIsFile DEF FilesTypeOK, Written, NoFile
<1>4. \A i \in 1..8 :
        IF i <= moved + 1
        THEN disk'[FileOrder[i]].of = Now /\ temp'[FileOrder[i]] = NoFile
        ELSE disk'[FileOrder[i]].of < Now
  BY <1>1, <1>2, <1>3, TargetIsFile, OrderOfFiles DEF Moved
<1>5. IF moved = 7 THEN writer' = "idle" /\ finished' = Now
                   ELSE writer' = "ready" /\ finished' = finished
  BY <1>1, <1>2, OrderOfFiles DEF ReplaceFile, Now
<1>6. FilesTypeOK'
  <2>1. finished' \in 0..Len(exports') /\ writer' \in {"idle", "ready"}
    BY <1>1, <1>2, <1>5 DEF FilesTypeOK, Now
  <2>2. moved' \in 0..8
    BY <1>1, <1>2
  <2>. QED BY <1>1, <1>3, <2>1, <2>2, OrderOfFiles DEF FilesTypeOK
<1>7. Moved'
  BY <1>1, <1>2, <1>4, <1>5 DEF Moved, Now
<1>8. NoneNewer' /\ \A f \in Files : disk'[f].of >= disk[f].of
  BY <1>1, <1>2, <1>3 DEF NoneNewer, FilesTypeOK, Written, Now
<1>9. FilesFollowManifest'
  <2>1. \A f \in Files : disk'[f] = NoFile \/ disk'[f].whole
    BY <1>3 DEF FilesFollowManifest
  <2>2. CASE moved = 7
    <3>1. \A f \in Files : disk'[f].of = Now
      BY <1>4, <2>2, OrderOfFiles
    <3>. QED BY <2>1, <3>1, <1>2, ManifestIsFile DEF FilesFollowManifest, Manifest
  <2>3. CASE moved # 7
    <3>1. Target # Manifest
      BY <1>2, <2>3, TargetIsFile, <1>1, OrderOfFiles
    <3>2. disk'[Manifest] = disk[Manifest]
      BY <1>3, <3>1, ManifestIsFile
    <3>3. \A f \in Files : disk'[f].of >= disk'[Manifest].of
      BY <1>3, <1>8, <3>2, ManifestIsFile DEF FilesFollowManifest, Manifest, FilesTypeOK, Written
    <3>. QED BY <2>1, <3>3 DEF FilesFollowManifest, Manifest
  <2>. QED BY <2>2, <2>3
<1>10. FinishedExportStands'
  <2>1. CASE moved = 7
    <3>1. \A f \in Files : disk'[f].of = Now /\ temp'[f] = NoFile
      BY <1>4, <2>1, OrderOfFiles
    <3>. QED BY <1>5, <2>1, <3>1 DEF FinishedExportStands
  <2>. QED BY <1>5, <2>1 DEF FinishedExportStands
<1>11. ReadsFollowManifest' /\ Readings'
  BY <1>1, <1>2, <1>3, <1>6, <1>8 DEF ReadsFollowManifest, Readings, FilesTypeOK, Written
<1>12. Exported' /\ ReadSoFar'
  <2>1. \A f \in Files : disk'[f] # NoFile => disk'[f].of >= 1
    BY <1>2, <1>3 DEF Exported, FilesTypeOK
  <2>. QED BY <1>1, <2>1 DEF Exported, ReadSoFar, Exportable
<1>. QED BY <1>6, <1>7, <1>8, <1>9, <1>10, <1>11, <1>12

LEMMA BeginKeeps ==
  ASSUME IInv, BeginEvaluation \/ BeginStartUp
  PROVE  IInv'
<1>. USE DEF IInv
<1>1. /\ UNCHANGED writerVars /\ seen' = [f \in Files |-> 0]
      /\ quiet' = (writer = "idle" /\ finished = Len(exports))
      /\ reads < MaxReads /\ reads' = reads + 1 /\ passed' \in {0, 2}
      /\ reader' \in {"refused", "reading"}
  BY DEF BeginEvaluation, BeginStartUp, Begin
<1>2. /\ exports' = exports /\ disk' = disk /\ temp' = temp /\ writer' = writer
      /\ moved' = moved /\ finished' = finished /\ Now' = Now
  BY <1>1 DEF writerVars, Now
<1>3. FilesTypeOK'
  BY <1>1, <1>2, OrderOfReading, FilesAssumption DEF FilesTypeOK, FilesAssumption
<1>4. Moved' /\ NoneNewer' /\ FilesFollowManifest' /\ FinishedExportStands'
  BY <1>2 DEF Moved, NoneNewer, FilesFollowManifest, FinishedExportStands, Target
<1>5. Readings' /\ ReadsFollowManifest'
  <2>1. \A f \in Files : seen'[f] = 0 /\ disk'[f].of \in Nat
    BY <1>1, <1>2 DEF FilesTypeOK, Written
  <2>2. quiet' => writer' = "idle" /\ finished' = Now'
    BY <1>1, <1>2 DEF Now
  <2>. QED BY <2>1, <2>2 DEF Readings, ReadsFollowManifest
<1>6. Exported' /\ ReadSoFar'
  <2>1. \A i \in 1..passed' : i <= 2
    BY <1>1
  <2>2. seen'[Manifest] = 0
    BY <1>1, ManifestIsFile
  <2>. QED BY <1>1, <1>2, <2>1, <2>2 DEF Exported, ReadSoFar, Exportable
<1>. QED BY <1>3, <1>4, <1>5, <1>6

\* What is read is at least as new as the manifest in its place, which is at least
\* as new as the manifest read before.
LEMMA ReadKeeps ==
  ASSUME IInv, ReadFile \/ EndRead
  PROVE  IInv'
<1>. USE DEF IInv
<1>1. /\ reader = "reading" /\ UNCHANGED writerVars /\ reads' = reads /\ quiet' = quiet
  BY DEF ReadFile, EndRead
<1>2. /\ exports' = exports /\ disk' = disk /\ temp' = temp /\ writer' = writer
      /\ moved' = moved /\ finished' = finished /\ Now' = Now
  BY <1>1 DEF writerVars, Now
<1>3. Moved' /\ NoneNewer' /\ FilesFollowManifest' /\ FinishedExportStands'
  BY <1>2 DEF Moved, NoneNewer, FilesFollowManifest, FinishedExportStands, Target
<1>6. Exported'
  BY <1>2 DEF Exported, Exportable
<1>4. CASE EndRead
  <2>1. seen' = seen /\ passed' = passed /\ passed = 7 /\ reader' \in {"accepted", "refused"}
    BY <1>4, OrderOfReading DEF EndRead
  <2>2. ReadSoFar'
    BY <1>1, <2>1 DEF ReadSoFar
  <2>. QED BY <1>1, <1>2, <1>3, <1>6, <2>1, <2>2 DEF FilesTypeOK, Readings, ReadsFollowManifest
<1>5. CASE ReadFile
  <2>. DEFINE f == ReadOrder[passed + 1]
  <2>1. /\ passed < 7 /\ passed' = passed + 1 /\ seen' = [seen EXCEPT ![f] = disk[f].of]
        /\ reader' \in {"reading", "refused"}
    BY <1>5, OrderOfReading DEF ReadFile
  <2>2. passed + 1 \in 1..7 /\ f \in Files /\ (f = Manifest => passed = 0)
    BY <2>1, OrderOfReading DEF FilesTypeOK
  <2>. HIDE DEF f
  <2>3. /\ seen' \in [Files -> Nat] /\ seen'[f] = disk[f].of
        /\ \A g \in Files : g # f => seen'[g] = seen[g]
    BY <2>1, <2>2 DEF FilesTypeOK, Written
  <2>4. FilesTypeOK'
    BY <1>1, <1>2, <2>1, <2>2, <2>3, OrderOfReading DEF FilesTypeOK
  <2>7. quiet => \A g \in Files : seen'[g] \in {0, Now}
    <3>. SUFFICES ASSUME quiet, NEW g \in Files PROVE seen'[g] \in {0, Now}
      OBVIOUS
    <3>1. writer = "idle" /\ finished = Now /\ seen[g] \in {0, Now}
      BY <1>1 DEF Readings
    <3>2. disk[f].of = Now
      BY <2>2, <3>1 DEF FinishedExportStands, Now
    <3>. QED BY <2>3, <3>1, <3>2
  <2>5. Readings'
    <3>1. \A g \in Files : seen'[g] <= disk'[g].of
      <4>1. \A g \in Files : disk[g].of \in Nat /\ seen[g] <= disk[g].of
        BY DEF Readings, FilesTypeOK, Written
      <4>. QED BY <1>2, <2>2, <2>3, <4>1
    <3>. QED BY <1>1, <1>2, <2>1, <2>7, <3>1 DEF Readings, FilesTypeOK
  <2>6. \A g \in Files : seen'[g] # 0 => seen'[g] >= seen'[Manifest]
    <3>1. CASE f = Manifest
      <4>1. \A g \in Files : seen[g] = 0
        BY <1>1, <2>2, <3>1 DEF Readings
      <4>. QED BY <2>3, <3>1, <4>1 DEF FilesTypeOK
    <3>2. CASE f # Manifest
      <4>1. disk[f].of >= disk[Manifest].of /\ disk[Manifest].of >= seen[Manifest]
        BY <2>2, ManifestIsFile DEF FilesFollowManifest, Readings, Manifest
      <4>2. seen'[Manifest] = seen[Manifest] /\ seen[Manifest] \in Nat
            /\ disk[f].of \in Nat /\ disk[Manifest].of \in Nat
        BY <2>2, <2>3, <3>2, ManifestIsFile DEF FilesTypeOK, Written
      <4>3. \A g \in Files : seen[g] # 0 => seen[g] >= seen[Manifest]
        BY DEF ReadsFollowManifest, Manifest
      <4>. QED BY <2>3, <4>1, <4>2, <4>3 DEF FilesTypeOK
    <3>. QED BY <3>1, <3>2
  <2>8. ReadsFollowManifest'
    BY <1>1, <2>6, <2>7 DEF ReadsFollowManifest, Manifest
  <2>9. ReadSoFar'
    <3>. SUFFICES ASSUME reader' = "reading", NEW i \in 1..passed',
                         i > 2 \/ seen'[Manifest] # 0
                  PROVE  seen'[ReadOrder[i]] # 0
      BY <2>1 DEF ReadSoFar
    <3>1. disk[f] # NoFile /\ disk[f].of >= 1 /\ disk[f].of \in Nat
      <4>1. disk[f] # NoFile
        BY <1>5 DEF ReadFile, f
      <4>. QED BY <2>2, <4>1 DEF Exported, FilesTypeOK, Written
    <3>2. CASE ReadOrder[i] = f
      BY <2>3, <3>1, <3>2
    <3>3. CASE ReadOrder[i] # f
      <4>1. i # passed + 1 /\ i \in 1..passed /\ i \in 1..7
        BY <2>1, <3>3 DEF f, FilesTypeOK
      <4>2. f # Manifest
        BY <2>2, <4>1
      <4>3. seen'[Manifest] = seen[Manifest] /\ seen'[ReadOrder[i]] = seen[ReadOrder[i]]
        BY <2>3, <3>3, <4>1, <4>2, OrderOfReading, ManifestIsFile
      <4>. QED BY <1>1, <4>1, <4>3 DEF ReadSoFar
    <3>. QED BY <3>2, <3>3
  <2>. QED BY <1>3, <1>6, <2>4, <2>5, <2>8, <2>9
<1>. QED BY <1>4, <1>5

LEMMA FilesKeep ==
  ASSUME IInv, [FilesNext]_filesVars
  PROVE  IInv'
<1>1. CASE UNCHANGED filesVars
  BY <1>1
     DEF IInv, filesVars, writerVars, readerVars, FilesTypeOK, FilesFollowManifest,
     FinishedExportStands, ReadsFollowManifest, Moved, NoneNewer, Readings, Target, Now, Exported,
     Exportable, ReadSoFar
<1>2. CASE FilesNext
  BY <1>2, StartKeeps, TemporaryKeeps, ReplaceKeeps, BeginKeeps, ReadKeeps
     DEF FilesNext, ExportStep, ReadStep
<1>. QED BY <1>1, <1>2

LEMMA Inductive == FilesSpec => []IInv
BY InitHolds, FilesKeep, PTL DEF FilesSpec

-----------------------------------------------------------------------------
(* What a tracker tells of the answers of the engines.                     *)

AllFlags == {"risky", "hidden", "near", "concentrated", "review", "spike", "final", "linked",
  "HEALTHY", "STALE", "MISSING", "CONFLICTING"}

Spike == "LEGITIMATE_DEMAND_SPIKE"

\* What an answer is worth on its own.
Worth(s, t, a) == RaisedFlags(s, t, a, EmptyTracker)
Detected(s, t, a) == Worth(s, t, a) \cap Detecting(s) # {}

\* In the answers A, those about s, those before its end, and those that detect it.
AskedIn(s, A) == {n \in DOMAIN A : Asked(s, A[n].at)}
DuringIn(s, A) == {n \in AskedIn(s, A) : A[n].at <= s.end}
DetectionsIn(s, i, A) == {n \in AskedIn(s, A) : Detected(s, A[n].at, A[n].to[i])}

FirstTold(s, i, k, A) ==
  k.first = IF DetectionsIn(s, i, A) = {} THEN Never ELSE A[Min(DetectionsIn(s, i, A))].at

ShownTold(s, i, k, A) ==
  Frozen(s) =>
    /\ DetectionsIn(s, i, A) # {} => k.shown = A[Min(DetectionsIn(s, i, A))].to[i]
    /\ DetectionsIn(s, i, A) = {} /\ AskedIn(s, A) # {} =>
         k.shown = A[Max(AskedIn(s, A))].to[i]

\* A demand spike is watched until its end, and assessed once after it.
SpikeTold(s, i, k, A) ==
  LET asked == AskedIn(s, A)
      during == DuringIn(s, A)
  IN  /\ k.flags \subseteq {"review", "final", "spike"}
      /\ "review" \in k.flags <=> \E n \in during : "review" \in A[n].to[i]
      /\ "final" \in k.flags <=> asked # during
      /\ "spike" \in k.flags <=>
           \E n \in during \cup (IF asked = during THEN {} ELSE {Min(asked \ during)}) :
             "spike" \in A[n].to[i]

FlagsTold(s, i, k, A) ==
  IF s.label = Spike THEN SpikeTold(s, i, k, A)
  ELSE k.flags = UNION {Worth(s, A[n].at, A[n].to[i]) : n \in AskedIn(s, A)}

Tells(s, i, k, A) ==
  FirstTold(s, i, k, A) /\ ShownTold(s, i, k, A) /\ FlagsTold(s, i, k, A)

\* B are the answers A and one more.
Continued(A, t, a, B) ==
  /\ DOMAIN A = 1..Len(A) /\ Len(A) \in Nat /\ DOMAIN B = 1..(Len(A) + 1)
  /\ \A n \in 1..Len(A) : A[n].at \in Nat /\ B[n] = A[n]
  /\ B[Len(A) + 1] = [at |-> t, to |-> a]

\* What k becomes with an answer.
Observed(s, t, a, k) == IF Asked(s, t) THEN Observe(s, t, a, k) ELSE k

LEMMA EmptyTells ==
  ASSUME NEW s, NEW i, NEW A, DOMAIN A = {}
  PROVE  Tells(s, i, EmptyTracker, A)
<1>1. AskedIn(s, A) = {} /\ DuringIn(s, A) = {} /\ DetectionsIn(s, i, A) = {}
  BY DEF AskedIn, DuringIn, DetectionsIn
<1>. QED BY <1>1 DEF Tells, FirstTold, ShownTold, FlagsTold, SpikeTold, EmptyTracker

\* One more index, above all others.
LEMMA OneMore ==
  ASSUME NEW l \in Nat, NEW D \in SUBSET (1..l)
  PROVE  /\ D # {} => Min(D) \in D /\ Max(D) \in D
         /\ Min(D \cup {l + 1}) = IF D = {} THEN l + 1 ELSE Min(D)
         /\ Max(D \cup {l + 1}) = l + 1
<1>. DEFINE E == D \cup {l + 1}
<1>1. IsFiniteSet(D) /\ D \in SUBSET Int
  <2>. DEFINE T == 1..l
  <2>1. IsFiniteSet(T) /\ D \in SUBSET T /\ T \in SUBSET Int
    BY FS_Interval
  <2>. HIDE DEF T
  <2>2. IsFiniteSet(D)
    BY <2>1, FS_Subset
  <2>. QED BY <2>1, <2>2
<1>2. D # {} => Min(D) \in D /\ Max(D) \in D /\ \A y \in D : Min(D) <= y
  BY <1>1, FiniteMax
<1>3. E \in SUBSET Int /\ l + 1 \in E /\ \A y \in E : y <= l + 1
  OBVIOUS
<1>4. Max(E) = l + 1
  <2>. HIDE DEF E
  <2>. QED BY <1>3, MaxIs
<1>5. ASSUME D # {} PROVE Min(E) = Min(D)
  <2>. DEFINE d == Min(D)
  <2>1. d \in D /\ \A y \in D : d <= y
    BY <1>2, <1>5
  <2>. HIDE DEF d
  <2>2. d \in E /\ \A y \in E : d <= y
    BY <2>1
  <2>. HIDE DEF E
  <2>3. Min(E) = d
    BY <1>3, <2>2, MinIs
  <2>. QED BY <2>3 DEF d
<1>6. ASSUME D = {} PROVE Min(E) = l + 1
  <2>1. \A y \in E : l + 1 <= y
    BY <1>6
  <2>. HIDE DEF E
  <2>. QED BY <1>3, <2>1, MinIs
<1>. QED BY <1>2, <1>4, <1>5, <1>6

LEMMA ContinuedSets ==
  ASSUME NEW s, NEW A, NEW t, NEW a, NEW B, Continued(A, t, a, B)
  PROVE  /\ Len(A) \in Nat /\ AskedIn(s, A) \in SUBSET (1..Len(A))
         /\ DuringIn(s, A) \in SUBSET AskedIn(s, A)
         /\ AskedIn(s, B) = AskedIn(s, A) \cup (IF Asked(s, t) THEN {Len(A) + 1} ELSE {})
         /\ DuringIn(s, B) = DuringIn(s, A)
              \cup (IF Asked(s, t) /\ t <= s.end THEN {Len(A) + 1} ELSE {})
<1>. DEFINE l == Len(A)
<1>1. /\ DOMAIN A = 1..l /\ l \in Nat /\ DOMAIN B = (1..l) \cup {l + 1}
      /\ \A n \in 1..l : B[n] = A[n]
      /\ B[l + 1].at = t
  BY DEF Continued
<1>. HIDE DEF l
<1>2. AskedIn(s, B) = AskedIn(s, A) \cup (IF Asked(s, t) THEN {l + 1} ELSE {})
  BY <1>1 DEF AskedIn
<1>3. AskedIn(s, A) \subseteq 1..l
  BY <1>1 DEF AskedIn
<1>4. DuringIn(s, B) = DuringIn(s, A) \cup (IF Asked(s, t) /\ t <= s.end THEN {l + 1} ELSE {})
  BY <1>1, <1>2, <1>3 DEF DuringIn
<1>. QED BY <1>1, <1>2, <1>3, <1>4 DEF l, DuringIn

LEMMA ContinuedDetections ==
  ASSUME NEW s, NEW i, NEW A, NEW t, NEW a, NEW B, Continued(A, t, a, B)
  PROVE  /\ DetectionsIn(s, i, A) \in SUBSET AskedIn(s, A)
         /\ DetectionsIn(s, i, A) \in SUBSET (1..Len(A))
         /\ DetectionsIn(s, i, B) = DetectionsIn(s, i, A)
              \cup (IF Asked(s, t) /\ Detected(s, t, a[i]) THEN {Len(A) + 1} ELSE {})
<1>. DEFINE l == Len(A)
<1>1. /\ \A n \in 1..l : B[n] = A[n]
      /\ B[l + 1].at = t /\ B[l + 1].to = a
  BY DEF Continued
<1>2. /\ AskedIn(s, B) = AskedIn(s, A) \cup (IF Asked(s, t) THEN {l + 1} ELSE {})
      /\ AskedIn(s, A) \in SUBSET (1..l)
  BY ContinuedSets
<1>. HIDE DEF l
<1>. QED BY <1>1, <1>2 DEF l, DetectionsIn

\* Whether an answer detects a scenario does not depend on the answers before it.
LEMMA DetectedAnyTime ==
  ASSUME NEW s, s.label \in ScenarioKinds, NEW t, NEW a, NEW k
  PROVE  /\ RaisedFlags(s, t, a, k) \cap Detecting(s) # {} <=> Detected(s, t, a)
         /\ s.label # Spike => RaisedFlags(s, t, a, k) = Worth(s, t, a)
<1>1. CASE s.label # Spike
  <2>1. RaisedFlags(s, t, a, k) = Worth(s, t, a)
    BY <1>1 DEF Worth, RaisedFlags, ScenarioKinds, Spike
  <2>. QED BY <1>1, <2>1 DEF Detected
<1>2. CASE s.label = Spike
  <2>1. Detecting(s) = {"review"}
    BY <1>2 DEF Detecting, Spike
  <2>2. /\ t <= s.end => RaisedFlags(s, t, a, k) = a /\ Worth(s, t, a) = a
        /\ ~(t <= s.end) => /\ "review" \notin RaisedFlags(s, t, a, k)
                            /\ "review" \notin Worth(s, t, a)
    BY <1>2 DEF Worth, RaisedFlags, Spike
  <2>. QED BY <1>2, <2>1, <2>2 DEF Detected
<1>. QED BY <1>1, <1>2

\* One answer more is one step of the tracker: the first detection.
LEMMA FirstOn ==
  ASSUME NEW s, s.label \in ScenarioKinds, NEW i, NEW k, NEW A, NEW t \in Nat, NEW a, NEW B,
         Continued(A, t, a, B), FirstTold(s, i, k, A)
  PROVE  FirstTold(s, i, Observed(s, t, a[i], k), B)
<1>. DEFINE l == Len(A)
            D == DetectionsIn(s, i, A)
            E == DetectionsIn(s, i, B)
            o == Observed(s, t, a[i], k)
<1>1. /\ l \in Nat /\ D \in SUBSET (1..l)
      /\ E = D \cup (IF Asked(s, t) /\ Detected(s, t, a[i]) THEN {l + 1} ELSE {})
  BY ContinuedSets, ContinuedDetections
<1>2. k.first = IF D = {} THEN Never ELSE A[Min(D)].at
  BY DEF FirstTold
<1>3. \A n \in 1..l : A[n].at \in Nat /\ B[n] = A[n] /\ B[l + 1].at = t
  BY DEF Continued
<1>4. o.first = IF Asked(s, t) /\ k.first = Never /\ Detected(s, t, a[i]) THEN t ELSE k.first
  BY DetectedAnyTime DEF Observed, Observe
<1>5. (D # {} => Min(D) \in D) /\ Min(D \cup {l + 1}) = IF D = {} THEN l + 1 ELSE Min(D)
  BY <1>1, OneMore
<1>6. k.first = Never <=> D = {}
  BY <1>1, <1>2, <1>3, <1>5, ShadowAssumption DEF ShadowAssumption
<1>7. B[l + 1].at = t
  BY DEF Continued
<1>. SUFFICES o.first = IF E = {} THEN Never ELSE B[Min(E)].at
  BY DEF FirstTold
<1>. HIDE DEF l, D, E, o
<1>8. CASE Asked(s, t) /\ Detected(s, t, a[i])
  <2>1. E = D \cup {l + 1} /\ E # {}
    BY <1>1, <1>8
  <2>2. CASE D = {}
    BY <1>4, <1>5, <1>6, <1>7, <1>8, <2>1, <2>2
  <2>3. CASE D # {}
    <3>1. Min(E) = Min(D) /\ Min(D) \in 1..l
      BY <1>1, <1>5, <2>1, <2>3
    <3>2. B[Min(E)] = A[Min(D)]
      BY <1>3, <3>1
    <3>. QED BY <1>2, <1>4, <1>6, <2>1, <2>3, <3>2
  <2>. QED BY <2>2, <2>3
<1>9. CASE ~(Asked(s, t) /\ Detected(s, t, a[i]))
  <2>1. E = D /\ o.first = k.first
    BY <1>1, <1>4, <1>9
  <2>2. D # {} => Min(D) \in 1..l
    BY <1>1, <1>5
  <2>. QED BY <1>2, <1>3, <2>1, <2>2
<1>. QED BY <1>8, <1>9

\* What was shown at that moment.
LEMMA ShownOn ==
  ASSUME NEW s, s.label \in ScenarioKinds, NEW i, NEW k, NEW A, NEW t \in Nat, NEW a, NEW B,
         Continued(A, t, a, B), FirstTold(s, i, k, A), ShownTold(s, i, k, A)
  PROVE  ShownTold(s, i, Observed(s, t, a[i], k), B)
<1>. DEFINE l == Len(A)
            D == DetectionsIn(s, i, A)
            E == DetectionsIn(s, i, B)
            P == AskedIn(s, A)
            Q == AskedIn(s, B)
            o == Observed(s, t, a[i], k)
<1>1. /\ l \in Nat /\ D \in SUBSET (1..l) /\ P \in SUBSET (1..l) /\ D \subseteq P
      /\ E = D \cup (IF Asked(s, t) /\ Detected(s, t, a[i]) THEN {l + 1} ELSE {})
      /\ Q = P \cup (IF Asked(s, t) THEN {l + 1} ELSE {})
  <2>1. l \in Nat /\ P \in SUBSET (1..l) /\ Q = P \cup (IF Asked(s, t) THEN {l + 1} ELSE {})
    BY ContinuedSets
  <2>2. /\ D \in SUBSET (1..l) /\ D \subseteq P
        /\ E = D \cup (IF Asked(s, t) /\ Detected(s, t, a[i]) THEN {l + 1} ELSE {})
    BY ContinuedDetections
  <2>. QED BY <2>1, <2>2
<1>2. k.first = IF D = {} THEN Never ELSE A[Min(D)].at
  BY DEF FirstTold
<1>3. \A n \in 1..l : A[n].at \in Nat /\ B[n] = A[n]
  BY DEF Continued
<1>4. B[l + 1].to = a
  BY DEF Continued
<1>5. (D # {} => Min(D) \in D) /\ Min(D \cup {l + 1}) = IF D = {} THEN l + 1 ELSE Min(D)
  BY <1>1, OneMore
<1>6. (P # {} => Max(P) \in P) /\ Max(P \cup {l + 1}) = l + 1
  BY <1>1, OneMore
<1>7. k.first = Never <=> D = {}
  BY <1>1, <1>2, <1>3, <1>5, ShadowAssumption DEF ShadowAssumption
<1>8. Frozen(s) => o.shown = IF Asked(s, t) /\ k.first = Never THEN a[i] ELSE k.shown
  BY DEF Observed, Observe
<1>. SUFFICES ASSUME Frozen(s)
              PROVE  /\ E # {} => o.shown = B[Min(E)].to[i]
                     /\ E = {} /\ Q # {} => o.shown = B[Max(Q)].to[i]
  BY DEF ShownTold
<1>9. /\ D # {} => k.shown = A[Min(D)].to[i]
      /\ D = {} /\ P # {} => k.shown = A[Max(P)].to[i]
  BY DEF ShownTold
<1>. HIDE DEF l, D, E, P, Q, o
<1>10. CASE D # {}
  <2>1. o.shown = k.shown /\ E # {} /\ Min(E) = Min(D) /\ Min(D) \in 1..l
    BY <1>1, <1>5, <1>7, <1>8, <1>10
  <2>2. B[Min(E)] = A[Min(D)]
    BY <1>3, <2>1
  <2>. QED BY <1>9, <1>10, <2>1, <2>2
<1>11. CASE D = {} /\ Asked(s, t)
  <2>1. o.shown = a[i] /\ Max(Q) = l + 1 /\ (E # {} => Min(E) = l + 1)
    BY <1>1, <1>5, <1>6, <1>7, <1>8, <1>11
  <2>. QED BY <1>4, <2>1
<1>12. CASE D = {} /\ ~Asked(s, t)
  <2>1. o.shown = k.shown /\ Q = P /\ E = {}
    BY <1>1, <1>8, <1>12
  <2>2. P # {} => Max(P) \in 1..l
    BY <1>1, <1>6
  <2>. QED BY <1>3, <1>9, <1>12, <2>1, <2>2
<1>. QED BY <1>10, <1>11, <1>12

\* The flags of a scenario that is watched to the end of the day.
LEMMA FlagsOn ==
  ASSUME NEW s, s.label \in ScenarioKinds, s.label # Spike, NEW i, NEW k, NEW A, NEW t \in Nat,
         NEW a, NEW B, Continued(A, t, a, B), FlagsTold(s, i, k, A)
  PROVE  FlagsTold(s, i, Observed(s, t, a[i], k), B)
<1>. DEFINE l == Len(A)
            P == AskedIn(s, A)
            Q == AskedIn(s, B)
            o == Observed(s, t, a[i], k)
            worth(n, C) == Worth(s, C[n].at, C[n].to[i])
<1>1. /\ P \in SUBSET (1..l) /\ Q = P \cup (IF Asked(s, t) THEN {l + 1} ELSE {})
  BY ContinuedSets
<1>2. k.flags = UNION {worth(n, A) : n \in P}
  BY DEF FlagsTold
<1>3. /\ \A n \in 1..l : worth(n, B) = worth(n, A)
      /\ worth(l + 1, B) = Worth(s, t, a[i])
  BY DEF Continued
<1>4. o.flags = IF Asked(s, t) THEN k.flags \cup Worth(s, t, a[i]) ELSE k.flags
  BY DetectedAnyTime DEF Observed, Observe
<1>. SUFFICES o.flags = UNION {worth(n, B) : n \in Q}
  BY DEF FlagsTold
<1>. HIDE DEF l, P, Q, o, worth
<1>5. UNION {worth(n, B) : n \in P} = UNION {worth(n, A) : n \in P}
  BY <1>1, <1>3
<1>6. CASE Asked(s, t)
  <2>1. UNION {worth(n, B) : n \in P \cup {l + 1}}
          = (UNION {worth(n, B) : n \in P}) \cup worth(l + 1, B)
    OBVIOUS
  <2>. QED BY <1>1, <1>2, <1>3, <1>4, <1>5, <1>6, <2>1
<1>7. CASE ~Asked(s, t)
  BY <1>1, <1>2, <1>4, <1>5, <1>7
<1>. QED BY <1>6, <1>7

\* Those of a demand spike, which is watched to its own end.
LEMMA SpikeOn ==
  ASSUME NEW s, s.label = Spike, s.end \in Nat, NEW i, NEW k, NEW A, NEW t \in Nat, NEW a, NEW B,
         Continued(A, t, a, B), SpikeTold(s, i, k, A),
         Asked(s, t) => a[i] \subseteq {"review", "spike"}
  PROVE  SpikeTold(s, i, Observed(s, t, a[i], k), B)
<1>. DEFINE l == Len(A)
            P == AskedIn(s, A)
            Q == AskedIn(s, B)
            I == DuringIn(s, A)
            J == DuringIn(s, B)
            Late(p, d) == IF p = d THEN {} ELSE {Min(p \ d)}
            o == Observed(s, t, a[i], k)
            answer == a[i]
<1>1. /\ l \in Nat /\ P \in SUBSET (1..l) /\ I \in SUBSET P
      /\ Q = P \cup (IF Asked(s, t) THEN {l + 1} ELSE {})
      /\ J = I \cup (IF Asked(s, t) /\ t <= s.end THEN {l + 1} ELSE {})
  BY ContinuedSets
<1>2. /\ k.flags \subseteq {"review", "final", "spike"}
      /\ "review" \in k.flags <=> \E n \in I : "review" \in A[n].to[i]
      /\ "final" \in k.flags <=> P # I
      /\ "spike" \in k.flags <=> \E n \in I \cup Late(P, I) : "spike" \in A[n].to[i]
  BY DEF SpikeTold
<1>3. /\ \A n \in 1..l : B[n] = A[n]
      /\ B[l + 1].to[i] = answer
  BY DEF Continued
<1>4. o.flags = IF ~Asked(s, t) THEN k.flags
                ELSE IF t <= s.end THEN k.flags \cup answer
                ELSE IF "final" \in k.flags THEN k.flags
                ELSE k.flags \cup {"final"} \cup (answer \ {"review"})
  BY DEF Observed, Observe, RaisedFlags, Spike
<1>6. Asked(s, t) => answer \subseteq {"review", "spike"}
  OBVIOUS
<1>. HIDE DEF l, P, Q, I, J, o, answer
<1>5. /\ P \ I # {} => Min(P \ I) \in P \ I
      /\ Min((P \ I) \cup {l + 1}) = IF P \ I = {} THEN l + 1 ELSE Min(P \ I)
  <2>1. P \ I \in SUBSET (1..l)
    BY <1>1
  <2>. DEFINE D == P \ I
  <2>2. D \in SUBSET (1..l)
    BY <2>1
  <2>. HIDE DEF D
  <2>3. /\ D # {} => Min(D) \in D
        /\ Min(D \cup {l + 1}) = IF D = {} THEN l + 1 ELSE Min(D)
    BY <1>1, <2>2, OneMore
  <2>. QED BY <2>3 DEF D
<1>. SUFFICES /\ o.flags \subseteq {"review", "final", "spike"}
              /\ "review" \in o.flags <=> \E n \in J : "review" \in B[n].to[i]
              /\ "final" \in o.flags <=> Q # J
              /\ "spike" \in o.flags <=> \E n \in J \cup Late(Q, J) : "spike" \in B[n].to[i]
  BY DEF SpikeTold, o, Q, J
<1>7. l + 1 \notin P /\ l + 1 \notin I /\ I \subseteq P /\ (P = I <=> P \ I = {})
  <2>1. l \in Nat /\ P \subseteq 1..l /\ I \subseteq P
    BY <1>1
  <2>2. l + 1 \notin P /\ l + 1 \notin I
    BY <2>1
  <2>3. P = I <=> P \ I = {}
    BY <2>1
  <2>. QED BY <2>1, <2>2, <2>3
<1>8. Late(P, I) \subseteq P
  BY <1>5, <1>7
<1>9. \A n \in P : B[n].to[i] = A[n].to[i]
  BY <1>1, <1>3
<1>10. CASE ~Asked(s, t)
  <2>1. Q = P /\ J = I /\ o.flags = k.flags
    BY <1>1, <1>4, <1>10
  <2>. HIDE DEF Late
  <2>. QED BY <1>2, <1>7, <1>8, <1>9, <2>1
<1>11. CASE Asked(s, t) /\ t <= s.end
  <2>1. Q = P \cup {l + 1} /\ J = I \cup {l + 1} /\ o.flags = k.flags \cup answer
    BY <1>1, <1>4, <1>11
  <2>2. Q \ J = P \ I /\ (Q = J <=> P = I)
    BY <1>7, <2>1
  <2>3. Late(Q, J) = Late(P, I)
    BY <2>2
  <2>. HIDE DEF Late
  <2>. QED BY <1>2, <1>3, <1>6, <1>7, <1>8, <1>9, <1>11, <2>1, <2>2, <2>3
<1>12. CASE Asked(s, t) /\ ~(t <= s.end) /\ P # I
  <2>1. Q = P \cup {l + 1} /\ J = I /\ o.flags = k.flags
    BY <1>1, <1>2, <1>4, <1>12
  <2>2. Q \ J = (P \ I) \cup {l + 1} /\ Q # J
    BY <1>7, <2>1
  <2>3. Late(Q, J) = Late(P, I)
    BY <1>5, <1>7, <1>12, <2>2
  <2>. HIDE DEF Late
  <2>. QED BY <1>2, <1>7, <1>8, <1>9, <1>12, <2>1, <2>2, <2>3
<1>13. CASE Asked(s, t) /\ ~(t <= s.end) /\ P = I
  <2>1. /\ Q = P \cup {l + 1} /\ J = I
        /\ o.flags = k.flags \cup {"final"} \cup (answer \ {"review"})
    BY <1>1, <1>2, <1>4, <1>13
  <2>2. Q \ J = (P \ I) \cup {l + 1} /\ Q # J /\ P \ I = {}
    BY <1>7, <1>13, <2>1
  <2>3. Late(Q, J) = {l + 1} /\ Late(P, I) = {}
    BY <1>5, <1>13, <2>2
  <2>. HIDE DEF Late
  <2>. QED BY <1>2, <1>3, <1>6, <1>7, <1>9, <1>13, <2>1, <2>2, <2>3
<1>. QED BY <1>10, <1>11, <1>12, <1>13

LEMMA TellsOn ==
  ASSUME NEW s, s.label \in ScenarioKinds, s.end \in Nat, NEW i, NEW k, NEW A, NEW t \in Nat,
         NEW a, NEW B, Continued(A, t, a, B), Tells(s, i, k, A),
         s.label = Spike /\ Asked(s, t) => a[i] \subseteq {"review", "spike"}
  PROVE  Tells(s, i, Observed(s, t, a[i], k), B)
<1>. DEFINE o == Observed(s, t, a[i], k)
<1>1. FirstTold(s, i, k, A) /\ ShownTold(s, i, k, A) /\ FlagsTold(s, i, k, A)
  BY DEF Tells
<1>2. FirstTold(s, i, o, B) /\ ShownTold(s, i, o, B)
  BY <1>1, FirstOn, ShownOn
<1>3. FlagsTold(s, i, o, B)
  <2>1. CASE s.label = Spike
    <3>1. SpikeTold(s, i, k, A)
      BY <1>1, <2>1 DEF FlagsTold
    <3>2. SpikeTold(s, i, o, B)
      BY <2>1, <3>1, SpikeOn
    <3>. QED BY <2>1, <3>2 DEF FlagsTold
  <2>2. CASE s.label # Spike
    BY <1>1, <2>2, FlagsOn
  <2>. QED BY <2>1, <2>2
<1>. QED BY <1>2, <1>3 DEF Tells

-----------------------------------------------------------------------------
(* The day the evaluator has read.                                         *)

\* The evaluator took the manifest, and its files were accepted.
DayTaken == IInv /\ reader = "accepted" /\ seen[Manifest] # 0

EvaluatedFiles == Files \ {"transaction_failures"}

LEMMA FilesTaken ==
  ASSUME DayTaken
  PROVE  \A f \in EvaluatedFiles : seen[f] \in 1..Len(exports) /\ exports[seen[f]] \in Runs
<1>. SUFFICES ASSUME NEW f \in EvaluatedFiles
              PROVE  seen[f] \in 1..Len(exports) /\ exports[seen[f]] \in Runs
  OBVIOUS
<1>1. PICK i \in 1..7 : f = ReadOrder[i]
  <2>1. /\ ReadOrder[1] = "scenario_manifest" /\ ReadOrder[2] = "scenario_labels"
        /\ ReadOrder[3] = "agents" /\ ReadOrder[4] = "opening_balances"
        /\ ReadOrder[5] = "transactions" /\ ReadOrder[6] = "feed_events"
        /\ ReadOrder[7] = "context_events"
    BY DEF ReadOrder
  <2>. QED BY <2>1 DEF EvaluatedFiles, Files
<1>2. f \in Files /\ seen[f] # 0
  BY <1>1 DEF DayTaken, IInv, ReadSoFar, EvaluatedFiles
<1>3. seen[f] \in Nat /\ disk[f].of \in Nat /\ seen[f] <= disk[f].of /\ disk[f].of <= Now
  BY <1>2 DEF DayTaken, IInv, FilesTypeOK, Written, Readings, NoneNewer
<1>4. Now \in Nat /\ seen[f] \in 1..Now
  BY <1>2, <1>3 DEF DayTaken, IInv, FilesTypeOK, Now
<1>. QED BY <1>4 DEF DayTaken, IInv, Exported, Now

LEMMA RowsTaken ==
  ASSUME DayTaken
  PROVE  /\ \A f \in {"transactions", "feed_events", "scenario_labels"} :
              Rows(f) \in Seq(RowSet(f))
         /\ \A f \in {"transactions", "feed_events"} :
              /\ \A x \in RowSet(f) : x.id \in Nat /\ x.at \in Nat
              /\ \A x, y \in RowSet(f) : x.id = y.id => x = y
         /\ DOMAIN Scenarios = 1..Len(Scenarios) /\ Len(Scenarios) \in Nat
         /\ \A i \in DOMAIN Scenarios :
              Scenarios[i].label \in ScenarioKinds /\ Scenarios[i].end \in Nat
<1>1. \A f \in {"transactions", "feed_events", "scenario_labels"} :
        /\ seen[f] \in 1..Now /\ exports[seen[f]] \in Runs /\ Exportable(exports[seen[f]])
        /\ Rows(f) = Day[exports[seen[f]]][f]
  BY FilesTaken DEF DayTaken, IInv, Exported, EvaluatedFiles, Files, Rows, Now
<1>2. \A f \in {"transactions", "feed_events", "scenario_labels"} : Rows(f) \in Seq(RowSet(f))
  BY <1>1, ShadowAssumption DEF ShadowAssumption, RowSet
<1>3. ASSUME NEW f \in {"transactions", "feed_events"}
      PROVE  /\ \A x \in RowSet(f) : x.id \in Nat /\ x.at \in Nat
             /\ \A x, y \in RowSet(f) : x.id = y.id => x = y
  <2>1. \A x \in RowSet(f) : {x.id, x.at} \subseteq Nat
    BY <1>1, ShadowAssumption DEF ShadowAssumption, RowSet
  <2>2. \A i, j \in DOMAIN Rows(f) : Rows(f)[i].id = Rows(f)[j].id => i = j
    BY <1>1 DEF Exportable
  <2>. QED BY <2>1, <2>2 DEF RowSet, Range
<1>4. DOMAIN Scenarios = 1..Len(Scenarios) /\ Len(Scenarios) \in Nat
  BY <1>2 DEF Scenarios
<1>5. \A i \in DOMAIN Scenarios :
        Scenarios[i].label \in ScenarioKinds /\ Scenarios[i].end \in Nat
  BY <1>1, ShadowAssumption DEF ShadowAssumption, Scenarios, Range
<1>. QED BY <1>2, <1>3, <1>4, <1>5

\* The rows of a file are finitely many.
LEMMA FiniteRows ==
  ASSUME NEW s, NEW S, s \in Seq(S)
  PROVE  IsFiniteSet(Range(s))
<1>1. DOMAIN s = 1..Len(s) /\ IsFiniteSet(DOMAIN s)
  BY FS_Interval
<1>2. s \in Surjection(DOMAIN s, Range(s))
  BY DEF Surjection, Range
<1>. QED BY <1>1, <1>2, FS_Surjection

LEMMA FiniteEvents ==
  ASSUME NEW k, NEW R, IsFiniteSet(R)
  PROVE  IsFiniteSet([kind : {k}, row : R])
<1>. DEFINE E == [kind : {k}, row : R]
            rowOf == [e \in E |-> e.row]
<1>1. \A e \in E : rowOf[e] = e.row /\ e.row \in R /\ e.kind = k /\ e = [kind |-> k, row |-> e.row]
  OBVIOUS
<1>2. rowOf \in [E -> R] /\ DOMAIN rowOf = E
  OBVIOUS
<1>. HIDE DEF E, rowOf
<1>3. rowOf \in Injection(E, R)
  BY <1>1, <1>2 DEF Injection, IsInjective
<1>. QED BY <1>3, FS_Injection DEF E

LEMMA EventsTaken ==
  ASSUME DayTaken
  PROVE  /\ IsFiniteSet(Events)
         /\ \A e \in Events : e.row.at \in Nat
         /\ \A e, f \in Events : e # f => Precedes(e, f) \/ Precedes(f, e)
         /\ \A e, f, g \in Events : Precedes(e, f) /\ Precedes(f, g) => Precedes(e, g)
         /\ \A e \in Events : ~Precedes(e, e)
<1>. DEFINE F == RowSet("feed_events")
            T == RowSet("transactions")
<1>1. IsFiniteSet(F) /\ IsFiniteSet(T)
  BY RowsTaken, FiniteRows DEF RowSet
<1>2. /\ \A x \in F : x.id \in Nat /\ x.at \in Nat
      /\ \A x \in T : x.id \in Nat /\ x.at \in Nat
      /\ \A x, y \in F : x.id = y.id => x = y
      /\ \A x, y \in T : x.id = y.id => x = y
  BY RowsTaken
<1>3. Events = [kind : {0}, row : F] \cup [kind : {1}, row : T]
  BY DEF Events
<1>. HIDE DEF F, T
<1>4. IsFiniteSet(Events)
  <2>1. IsFiniteSet([kind : {0}, row : F]) /\ IsFiniteSet([kind : {1}, row : T])
    BY <1>1, FiniteEvents
  <2>. DEFINE X == [kind : {0}, row : F]
              Y == [kind : {1}, row : T]
  <2>. HIDE DEF X, Y
  <2>2. IsFiniteSet(X \cup Y)
    BY <2>1, FS_Union DEF X, Y
  <2>. QED BY <1>3, <2>2 DEF X, Y
<1>5. \A e \in Events : /\ e.kind \in {0, 1} /\ e.row.id \in Nat /\ e.row.at \in Nat
                        /\ e = [kind |-> e.kind, row |-> e.row]
                        /\ e.kind = 0 => e.row \in F
                        /\ e.kind = 1 => e.row \in T
  BY <1>2, <1>3
<1>6. ASSUME NEW e \in Events, NEW f \in Events, e # f PROVE Precedes(e, f) \/ Precedes(f, e)
  <2>1. CASE e.row.at = f.row.at /\ e.kind = f.kind /\ e.row.id = f.row.id
    <3>1. e.row = f.row
      BY <1>2, <1>5, <2>1
    <3>. QED BY <1>5, <1>6, <2>1, <3>1
  <2>2. CASE ~(e.row.at = f.row.at /\ e.kind = f.kind /\ e.row.id = f.row.id)
    BY <1>5, <2>2 DEF Precedes
  <2>. QED BY <2>1, <2>2
<1>7. ASSUME NEW e \in Events, NEW f \in Events, NEW g \in Events,
             Precedes(e, f), Precedes(f, g)
      PROVE  Precedes(e, g)
  BY <1>5, <1>7 DEF Precedes
<1>8. \A e \in Events : ~Precedes(e, e)
  BY <1>5 DEF Precedes
<1>. QED BY <1>4, <1>5, <1>6, <1>7, <1>8

\* While there are events left, the next one is one of them.
LEMMA NextEvent ==
  ASSUME DayTaken, NEW n \in Nat, n < Cardinality(Events)
  PROVE  EventAfter(n) \in Events /\ EventAfter(n).row.at \in Nat
<1>. DEFINE R == {p \in Events \X Events : Precedes(p[1], p[2])}
<1>1. \A x, y \in Events : <<x, y>> \in R <=> Precedes(x, y)
  OBVIOUS
<1>. HIDE DEF R
<1>2. Ordered(Events, R) /\ IsFiniteSet(Events)
  BY <1>1, EventsTaken DEF Ordered
<1>3. PICK e \in Events : Cardinality({f \in Events : <<f, e>> \in R}) = n
  BY <1>2, RankExists
<1>4. {f \in Events : <<f, e>> \in R} = {f \in Events : Precedes(f, e)}
  BY <1>1
<1>5. Cardinality({f \in Events : Precedes(f, e)}) = n
  BY <1>3, <1>4
<1>6. EventAfter(n) \in Events
  BY <1>5 DEF EventAfter
<1>. QED BY <1>6, EventsTaken

\* The answers to a step: for each scenario asked about, something that may be said of it.
LEMMA FindingsAreFlags ==
  ASSUME NEW s
  PROVE  Findings(s) \subseteq SUBSET AllFlags
BY DEF Findings, AllFlags

LEMMA AnswersFit ==
  ASSUME DayTaken, NEW t
  PROVE  \A a \in AnswersAt(t) :
           /\ a \in Seq(SUBSET AllFlags)
           /\ \A i \in DOMAIN Scenarios :
                Asked(Scenarios[i], t) => a[i] \in Findings(Scenarios[i])
<1>. DEFINE l == Len(Scenarios)
            Choice(s) == IF Asked(s, t) THEN Findings(s) ELSE {{}}
            C == [i \in 1..l |-> Choice(Scenarios[i])]
            P(g) == g = [s \in SUBSET DOMAIN Scenarios |->
                           IF s = {} THEN {<<>>}
                           ELSE {Append(a, f) : a \in g[s \ {Max(s)}],
                                                f \in Choice(Scenarios[Max(s)])}]
            iter == CHOOSE g : P(g)
<1>1. DOMAIN Scenarios = 1..l /\ l \in Nat
  BY RowsTaken
<1>2. \A i \in 1..l : C[i] \subseteq SUBSET AllFlags
  BY FindingsAreFlags
<1>3. ASSUME NEW g PROVE P(g) <=> Multiplies(g, C, SUBSET (1..l))
  <2>. HIDE DEF Choice
  <2>1. ASSUME NEW s \in SUBSET (1..l), s # {} PROVE C[Max(s)] = Choice(Scenarios[Max(s)])
    <3>1. Max(s) \in s
      BY <1>1, <2>1, OneMore
    <3>. QED BY <3>1
  <2>. HIDE DEF C
  <2>. DEFINE one(s) == IF s = {} THEN {<<>>}
                        ELSE {Append(a, f) : a \in g[s \ {Max(s)}],
                                             f \in Choice(Scenarios[Max(s)])}
              two(s) == IF s = {} THEN {<<>>} ELSE Extended(g[s \ {Max(s)}], C[Max(s)])
  <2>2. ASSUME NEW s \in SUBSET (1..l) PROVE one(s) = two(s)
    <3>1. CASE s = {}
      BY <3>1
    <3>2. CASE s # {}
      <4>1. C[Max(s)] = Choice(Scenarios[Max(s)])
        BY <2>1, <3>2
      <4>. QED BY <3>2, <4>1 DEF Extended
    <3>. QED BY <3>1, <3>2
  <2>3. P(g) <=> g = [s \in SUBSET (1..l) |-> one(s)]
    BY <1>1
  <2>4. Multiplies(g, C, SUBSET (1..l)) <=> g = [s \in SUBSET (1..l) |-> two(s)]
    BY DEF Multiplies
  <2>. HIDE DEF one, two, P
  <2>5. [s \in SUBSET (1..l) |-> one(s)] = [s \in SUBSET (1..l) |-> two(s)]
    BY <2>2
  <2>. QED BY <2>3, <2>4, <2>5
<1>4. AnswersAt(t) = iter[DOMAIN Scenarios]
  BY DEF AnswersAt, FoldLeft, MapThenFoldSet
<1>. HIDE DEF C, P
<1>5. PICK h : P(h)
  BY <1>1, <1>3, ProductExists
<1>6. P(iter)
  BY <1>5
<1>. HIDE DEF iter
<1>7. Multiplies(iter, C, SUBSET (1..l))
  BY <1>3, <1>6
<1>8. \A a \in iter[1..l] : a \in Seq(SUBSET AllFlags) /\ \A i \in 1..l : a[i] \in C[i]
  BY <1>1, <1>2, <1>7, ProductMembers
<1>9. \A i \in 1..l : Asked(Scenarios[i], t) => C[i] = Findings(Scenarios[i])
  BY DEF C
<1>. QED BY <1>1, <1>4, <1>8, <1>9

\* Neither an export nor the replay changes what has been read.
LEMMA DayStays ==
  ASSUME DayTaken, seen' = seen,
         exports' = exports \/ \E r \in Runs : exports' = Append(exports, r)
  PROVE  /\ \A f \in EvaluatedFiles : Rows(f)' = Rows(f)
         /\ Scenarios' = Scenarios
         /\ RowSet("transactions")' = RowSet("transactions")
         /\ \A s : Findings(s)' = Findings(s)
<1>1. ASSUME NEW f \in EvaluatedFiles PROVE Rows(f)' = Rows(f)
  <2>1. seen[f] \in 1..Len(exports) /\ exports \in Seq(Runs)
    BY FilesTaken DEF DayTaken, IInv, FilesTypeOK
  <2>2. exports'[seen[f]] = exports[seen[f]]
    BY <2>1
  <2>. QED BY <2>2 DEF Rows
<1>2. /\ Scenarios' = Scenarios
      /\ \A f \in {"transactions", "opening_balances"} : RowSet(f)' = RowSet(f)
  BY <1>1 DEF Scenarios, RowSet, EvaluatedFiles, Files
<1>3. \A s : Findings(s)' = Findings(s)
  BY <1>2 DEF Findings, HasAccount
<1>. QED BY <1>1, <1>2, <1>3

-----------------------------------------------------------------------------
(* What holds while a day is evaluated.                                    *)

Answers == [at : Nat, to : Seq(SUBSET AllFlags)]

\* The engines only said what they may say, and the trackers tell it.
Watched ==
  /\ \A n \in DOMAIN answers : \A i \in DOMAIN Scenarios :
       Asked(Scenarios[i], answers[n].at) => answers[n].to[i] \in Findings(Scenarios[i])
  /\ \A i \in DOMAIN Scenarios : Tells(Scenarios[i], i, trackers[i], answers)

Labelled(S, K) == {i \in DOMAIN S : S[i].label \in K}

\* What a pass of the scenarios S says of the answers A; ids are those of the transactions.
Earned(S, ids, A) ==
  /\ Cardinality(Labelled(S, AnomalyKinds)) >= 2
  /\ Labelled(S, {"HIDDEN_PROVIDER_SHORTAGE"}) # {} /\ Labelled(S, DataQualityKinds) # {}
  /\ \A i \in DOMAIN S :
       LET s == S[i]
           said == {A[n].to[i] : n \in AskedIn(s, A)}
       IN  /\ s.txns \subseteq ids
           /\ s.label = "LEGITIMATE_DEMAND_SPIKE" =>
                \A n \in DuringIn(s, A) : "review" \notin A[n].to[i]
           /\ s.label = "REPEATED_CASH_OUT_CLUSTER" =>
                {"near", "concentrated", "review"} \in said
           /\ s.label = "CROSS_PROVIDER_LINKED_ACTIVITY" => {"linked", "review"} \in said
           /\ s.label = "HIDDEN_PROVIDER_SHORTAGE" => {"risky", "hidden"} \in said
           /\ s.label = "BALANCE_CONFLICT" => {"CONFLICTING"} \in said
           /\ s.label = "FEED_DELAY_RECOVERY" =>
                \E m, n \in DOMAIN A :
                  /\ A[m].at < s.end /\ A[n].at >= s.end
                  /\ A[m].to[i] \in {{"STALE"}, {"MISSING"}}
                  /\ A[n].to[i] = {"HEALTHY"}

TransactionIds == {t.id : t \in RowSet("transactions")}

ReportEarned == report # NoReport /\ report.overall => Earned(Scenarios, TransactionIds, answers)

EvaluationInv ==
  /\ IInv
  /\ phase \in {"idle", "replaying", "raised", "reported"}
  /\ played \in Nat
  /\ answers \in Seq(Answers)
  /\ phase = "idle" => played = 0 /\ answers = <<>>
  /\ phase # "idle" => DayTaken /\ Watched
  /\ report # NoReport => phase = "reported"
  /\ ReportEarned

LEMMA ReportEarnedIs == ReportEarned <=> PassIsEarned
BY DEF ReportEarned, PassIsEarned, Earned, Labelled, OfKinds, AskedIn, AskedOf, DuringIn,
   AskedDuring, TransactionIds

LEMMA StartsEvaluated == ShadowInit => EvaluationInv
<1>. SUFFICES ASSUME ShadowInit PROVE EvaluationInv
  OBVIOUS
<1>1. IInv
  BY InitHolds DEF ShadowInit
<1>. QED BY <1>1 DEF ShadowInit, EvaluationInv, ReportEarned

\* Exports go on beside the evaluation.
LEMMA ExportsBeside ==
  ASSUME EvaluationInv, ExportStep \/ UNCHANGED filesVars, UNCHANGED evaluationVars
  PROVE  EvaluationInv'
<1>. USE DEF EvaluationInv
<1>1. IInv'
  BY FilesKeep DEF FilesNext
<1>2. UNCHANGED <<phase, played, trackers, answers, report>>
  BY DEF evaluationVars
<1>3. CASE phase = "idle"
  BY <1>1, <1>2, <1>3 DEF ReportEarned
<1>4. CASE phase # "idle"
  <2>1. /\ seen' = seen /\ reader' = reader
        /\ exports' = exports \/ \E r \in Runs : exports' = Append(exports, r)
    BY DEF ExportStep, StartExport, OpenTemporary, WriteRows, ReplaceFile, WriteFails, Crash,
       readerVars, filesVars, writerVars
  <2>2. DayTaken'
    BY <1>1, <1>4, <2>1 DEF DayTaken
  <2>3. /\ Scenarios' = Scenarios /\ RowSet("transactions")' = RowSet("transactions")
        /\ \A s : Findings(s)' = Findings(s)
    BY <1>4, <2>1, DayStays
  <2>4. Watched'
    BY <1>2, <1>4, <2>3 DEF Watched
  <2>5. ReportEarned'
    BY <1>2, <2>3 DEF ReportEarned, TransactionIds
  <2>. QED BY <1>1, <1>2, <1>4, <2>2, <2>4, <2>5
<1>. QED BY <1>3, <1>4

LEMMA ReadAgainKeeps ==
  ASSUME EvaluationInv, ReadAgain
  PROVE  EvaluationInv'
<1>1. IInv'
  BY FilesKeep DEF EvaluationInv, ReadAgain, FilesNext
<1>. QED BY <1>1 DEF EvaluationInv, ReadAgain, ReportEarned

LEMMA StartReplayKeeps ==
  ASSUME EvaluationInv, StartReplay
  PROVE  EvaluationInv'
<1>. USE DEF EvaluationInv
<1>1. /\ phase = "idle" /\ phase' = "replaying" /\ answers = <<>> /\ report = NoReport
      /\ UNCHANGED <<exports, seen, reader, played, answers, report>>
      /\ trackers' = [i \in DOMAIN Scenarios |-> EmptyTracker]
  BY DEF StartReplay, filesVars, writerVars, readerVars
<1>2. IInv'
  BY FilesKeep DEF StartReplay
<1>3. DayTaken /\ DayTaken'
  BY <1>1, <1>2 DEF DayTaken, StartReplay, Manifest
<1>4. Scenarios' = Scenarios
  BY <1>1, <1>3, DayStays
<1>5. Watched'
  <2>1. DOMAIN answers' = {}
    BY <1>1
  <2>2. \A i \in DOMAIN Scenarios : trackers'[i] = EmptyTracker
    BY <1>1
  <2>3. \A i \in DOMAIN Scenarios : Tells(Scenarios[i], i, EmptyTracker, answers')
    BY <2>1, EmptyTells
  <2>. QED BY <1>4, <2>1, <2>2, <2>3 DEF Watched
<1>. QED BY <1>1, <1>2, <1>3, <1>5 DEF ReportEarned

LEMMA PlayEventKeeps ==
  ASSUME EvaluationInv, PlayEvent
  PROVE  EvaluationInv'
<1>. USE DEF EvaluationInv
<1>. DEFINE t == EventAfter(played).row.at
<1>1. /\ phase = "replaying" /\ played < Cardinality(Events) /\ played' = played + 1
      /\ UNCHANGED <<exports, seen, reader, phase, report>> /\ UNCHANGED filesVars
      /\ report = NoReport
  BY DEF PlayEvent, filesVars, writerVars, readerVars
<1>2. IInv'
  BY <1>1, FilesKeep
<1>3. DayTaken /\ DayTaken' /\ Watched
  BY <1>1, <1>2 DEF DayTaken
<1>4. Scenarios' = Scenarios /\ \A s : Findings(s)' = Findings(s)
  BY <1>1, <1>3, DayStays
<1>5. t \in Nat
  BY <1>1, <1>3, NextEvent
<1>. HIDE DEF t
<1>6. PICK a \in AnswersAt(t) :
        /\ trackers' = [i \in DOMAIN Scenarios |-> IF Asked(Scenarios[i], t)
                                                   THEN Observe(Scenarios[i], t, a[i], trackers[i])
                                                   ELSE trackers[i]]
        /\ answers' = Append(answers, [at |-> t, to |-> a])
  BY DEF PlayEvent, t
<1>7. /\ a \in Seq(SUBSET AllFlags)
      /\ \A i \in DOMAIN Scenarios : Asked(Scenarios[i], t) => a[i] \in Findings(Scenarios[i])
  BY <1>3, AnswersFit
<1>8. answers' \in Seq(Answers)
  <2>1. [at |-> t, to |-> a] \in Answers
    BY <1>5, <1>7 DEF Answers
  <2>. QED BY <1>6, <2>1
<1>9. Continued(answers, t, a, answers')
  <2>1. answers \in Seq(Answers) /\ \A n \in 1..Len(answers) : answers[n].at \in Nat
    <3>1. answers \in Seq(Answers)
      OBVIOUS
    <3>2. \A n \in 1..Len(answers) : answers[n] \in Answers
      BY <3>1
    <3>3. \A x \in Answers : x.at \in Nat
      BY DEF Answers
    <3>. QED BY <3>1, <3>2, <3>3
  <2>2. /\ DOMAIN answers = 1..Len(answers) /\ Len(answers) \in Nat
        /\ DOMAIN answers' = 1..(Len(answers) + 1)
        /\ \A n \in 1..Len(answers) : answers'[n] = answers[n]
        /\ answers'[Len(answers) + 1] = [at |-> t, to |-> a]
    BY <1>6, <2>1
  <2>. QED BY <2>1, <2>2 DEF Continued
<1>10. ASSUME NEW i \in DOMAIN Scenarios
       PROVE  Tells(Scenarios[i], i, trackers'[i], answers')
  <2>. DEFINE s == Scenarios[i]
  <2>1. s.label \in ScenarioKinds /\ s.end \in Nat /\ Tells(s, i, trackers[i], answers)
    BY <1>3, RowsTaken DEF Watched
  <2>2. trackers'[i] = Observed(s, t, a[i], trackers[i])
    BY <1>6 DEF Observed
  <2>3. s.label = Spike /\ Asked(s, t) => a[i] \subseteq {"review", "spike"}
    <3>1. s.label = Spike => Findings(s) = {{}, {"review"}, {"spike"}}
      BY DEF Findings, Spike
    <3>. QED BY <1>7, <3>1
  <2>. HIDE DEF s
  <2>4. Tells(s, i, Observed(s, t, a[i], trackers[i]), answers')
    BY <1>5, <1>9, <2>1, <2>3, TellsOn
  <2>. QED BY <2>2, <2>4 DEF s
<1>11. ASSUME NEW n \in DOMAIN answers', NEW i \in DOMAIN Scenarios,
              Asked(Scenarios[i], answers'[n].at)
       PROVE  answers'[n].to[i] \in Findings(Scenarios[i])
  <2>1. CASE n = Len(answers) + 1
    BY <1>7, <1>9, <1>11, <2>1 DEF Continued
  <2>2. CASE n # Len(answers) + 1
    <3>1. n \in DOMAIN answers /\ answers'[n] = answers[n]
      BY <1>9, <2>2 DEF Continued
    <3>. QED BY <1>3, <1>11, <3>1 DEF Watched
  <2>. QED BY <2>1, <2>2
<1>12. Watched'
  BY <1>4, <1>10, <1>11 DEF Watched
<1>. QED BY <1>1, <1>2, <1>3, <1>8, <1>12 DEF ReportEarned

LEMMA PlayRaisesKeeps ==
  ASSUME EvaluationInv, PlayRaises
  PROVE  EvaluationInv'
<1>. USE DEF EvaluationInv
<1>1. /\ phase = "replaying" /\ phase' = "raised"
      /\ UNCHANGED <<exports, seen, reader, played, trackers, answers, report>>
      /\ UNCHANGED filesVars /\ report = NoReport
  BY DEF PlayRaises, filesVars, writerVars, readerVars
<1>2. IInv'
  BY <1>1, FilesKeep
<1>3. DayTaken' /\ Watched'
  <2>1. DayTaken' /\ DayTaken
    BY <1>1, <1>2 DEF DayTaken
  <2>2. Scenarios' = Scenarios /\ \A s : Findings(s)' = Findings(s)
    BY <1>1, <2>1, DayStays
  <2>. QED BY <1>1, <2>1, <2>2 DEF Watched
<1>. QED BY <1>1, <1>2, <1>3 DEF ReportEarned

\* A scenario whose flags are all there was answered for.
LEMMA PassedIsEarned ==
  ASSUME DayTaken, Watched, answers \in Seq(Answers), NEW i \in DOMAIN Scenarios,
         ScenarioPassed(i)
  PROVE  LET s == Scenarios[i]
             said == {answers[n].to[i] : n \in AskedIn(s, answers)}
         IN  /\ s.label = "LEGITIMATE_DEMAND_SPIKE" =>
                  \A n \in DuringIn(s, answers) : "review" \notin answers[n].to[i]
             /\ s.label = "REPEATED_CASH_OUT_CLUSTER" =>
                  {"near", "concentrated", "review"} \in said
             /\ s.label = "CROSS_PROVIDER_LINKED_ACTIVITY" => {"linked", "review"} \in said
             /\ s.label = "HIDDEN_PROVIDER_SHORTAGE" => {"risky", "hidden"} \in said
             /\ s.label = "BALANCE_CONFLICT" => {"CONFLICTING"} \in said
             /\ s.label = "FEED_DELAY_RECOVERY" =>
                  \E m, n \in DOMAIN answers :
                    /\ answers[m].at < s.end /\ answers[n].at >= s.end
                    /\ answers[m].to[i] \in {{"STALE"}, {"MISSING"}}
                    /\ answers[n].to[i] = {"HEALTHY"}
<1>. DEFINE s == Scenarios[i]
            k == trackers[i]
            P == AskedIn(s, answers)
            to(n) == answers[n].to[i]
<1>1. \A N \in Needed(s) : N \cap k.flags # {}
  BY DEF ScenarioPassed
<1>2. s.label = Spike => "review" \notin k.flags
  BY DEF ScenarioPassed, FalsePositive, Spike
<1>3. FlagsTold(s, i, k, answers)
  BY DEF Watched, Tells
<1>4. \A n \in P : to(n) \in Findings(s)
  BY DEF Watched, AskedIn
<1>5. s.label # Spike => k.flags = UNION {Worth(s, answers[n].at, to(n)) : n \in P}
  BY <1>3 DEF FlagsTold
<1>6. ASSUME s.label # Spike, NEW x \in k.flags
      PROVE  \E n \in P : x \in Worth(s, answers[n].at, to(n))
  BY <1>5, <1>6
<1>7. s.end \in Nat /\ \A n \in P : n \in DOMAIN answers
  BY RowsTaken DEF AskedIn
<1>. SUFFICES /\ s.label = Spike => \A n \in DuringIn(s, answers) : "review" \notin to(n)
              /\ s.label = "REPEATED_CASH_OUT_CLUSTER" =>
                   \E n \in P : to(n) = {"near", "concentrated", "review"}
              /\ s.label = "CROSS_PROVIDER_LINKED_ACTIVITY" =>
                   \E n \in P : to(n) = {"linked", "review"}
              /\ s.label = "HIDDEN_PROVIDER_SHORTAGE" => \E n \in P : to(n) = {"risky", "hidden"}
              /\ s.label = "BALANCE_CONFLICT" => \E n \in P : to(n) = {"CONFLICTING"}
              /\ s.label = "FEED_DELAY_RECOVERY" =>
                   \E m, n \in P :
                     /\ answers[m].at < s.end /\ ~(answers[n].at < s.end)
                     /\ to(m) \in {{"STALE"}, {"MISSING"}} /\ to(n) = {"HEALTHY"}
  <2>. DEFINE said == {to(n) : n \in P}
  <2>1. \A x : (\E n \in P : to(n) = x) => x \in said
    OBVIOUS
  <2>2. \A n \in P : answers[n].at \in Nat
    <3>1. \A n \in P : answers[n] \in Answers
      BY <1>7
    <3>. QED BY <3>1 DEF Answers
  <2>3. s.label = "FEED_DELAY_RECOVERY" =>
          \E m, n \in DOMAIN answers :
            /\ answers[m].at < s.end /\ answers[n].at >= s.end
            /\ to(m) \in {{"STALE"}, {"MISSING"}} /\ to(n) = {"HEALTHY"}
    <3>. HIDE DEF P, to, s
    <3>. QED BY <1>7, <2>2
  <2>4. /\ s.label = "REPEATED_CASH_OUT_CLUSTER" =>
             {"near", "concentrated", "review"} \in said
        /\ s.label = "CROSS_PROVIDER_LINKED_ACTIVITY" => {"linked", "review"} \in said
        /\ s.label = "HIDDEN_PROVIDER_SHORTAGE" => {"risky", "hidden"} \in said
        /\ s.label = "BALANCE_CONFLICT" => {"CONFLICTING"} \in said
    <3>. HIDE DEF P, to, s, said
    <3>. QED BY <2>1
  <2>. QED BY <2>3, <2>4 DEF Spike
<1>. HIDE DEF s, k, P, to
<1>8. ASSUME s.label = Spike PROVE \A n \in DuringIn(s, answers) : "review" \notin to(n)
  BY <1>2, <1>3, <1>8 DEF FlagsTold, SpikeTold, to
<1>9. ASSUME s.label = "REPEATED_CASH_OUT_CLUSTER"
      PROVE  \E n \in P : to(n) = {"near", "concentrated", "review"}
  <2>1. "review" \in k.flags
    BY <1>1, <1>9 DEF Needed
  <2>2. PICK n \in P : "review" \in Worth(s, answers[n].at, to(n))
    BY <1>6, <1>9, <2>1 DEF Spike
  <2>. QED BY <1>9, <2>2 DEF Worth, RaisedFlags
<1>10. ASSUME s.label = "CROSS_PROVIDER_LINKED_ACTIVITY"
       PROVE  \E n \in P : to(n) = {"linked", "review"}
  <2>1. "linked" \in k.flags
    BY <1>1, <1>10 DEF Needed
  <2>2. PICK n \in P : "linked" \in Worth(s, answers[n].at, to(n))
    BY <1>6, <1>10, <2>1 DEF Spike
  <2>. QED BY <1>10, <2>2 DEF Worth, RaisedFlags
<1>11. ASSUME s.label = "HIDDEN_PROVIDER_SHORTAGE"
       PROVE  \E n \in P : to(n) = {"risky", "hidden"}
  <2>1. "hidden" \in k.flags
    BY <1>1, <1>11 DEF Needed
  <2>2. PICK n \in P : "hidden" \in Worth(s, answers[n].at, to(n))
    BY <1>6, <1>11, <2>1 DEF Spike
  <2>3. "risky" \in to(n) /\ "hidden" \in to(n)
    BY <1>11, <2>2 DEF Worth, RaisedFlags
  <2>4. to(n) \subseteq {"risky", "hidden"}
    BY <1>4, <1>11 DEF Findings
  <2>. QED BY <2>3, <2>4
<1>12. ASSUME s.label = "BALANCE_CONFLICT" PROVE \E n \in P : to(n) = {"CONFLICTING"}
  <2>1. "CONFLICTING" \in k.flags
    BY <1>1, <1>12 DEF Needed
  <2>2. PICK n \in P : "CONFLICTING" \in Worth(s, answers[n].at, to(n))
    BY <1>6, <1>12, <2>1 DEF Spike
  <2>3. "CONFLICTING" \in to(n)
    BY <1>12, <2>2 DEF Worth, RaisedFlags
  <2>4. to(n) \in {{"HEALTHY"}, {"STALE"}, {"MISSING"}, {"CONFLICTING"}}
    BY <1>4, <1>12 DEF Findings
  <2>. QED BY <2>3, <2>4
<1>13. ASSUME s.label = "FEED_DELAY_RECOVERY"
       PROVE  \E m, n \in P :
                /\ answers[m].at < s.end /\ ~(answers[n].at < s.end)
                /\ to(m) \in {{"STALE"}, {"MISSING"}} /\ to(n) = {"HEALTHY"}
  <2>1. "HEALTHY" \in k.flags /\ ("STALE" \in k.flags \/ "MISSING" \in k.flags)
    BY <1>1, <1>13 DEF Needed
  <2>2. PICK n \in P : "HEALTHY" \in Worth(s, answers[n].at, to(n))
    BY <1>6, <1>13, <2>1 DEF Spike
  <2>3. PICK m \in P : \/ "STALE" \in Worth(s, answers[m].at, to(m))
                       \/ "MISSING" \in Worth(s, answers[m].at, to(m))
    BY <1>6, <1>13, <2>1 DEF Spike
  <2>4. "HEALTHY" \in to(n) /\ ~(answers[n].at < s.end)
    BY <1>13, <2>2 DEF Worth, RaisedFlags
  <2>5. ("STALE" \in to(m) \/ "MISSING" \in to(m)) /\ answers[m].at < s.end
    BY <1>13, <2>3 DEF Worth, RaisedFlags
  <2>6. /\ to(n) \in {{"HEALTHY"}, {"STALE"}, {"MISSING"}, {"CONFLICTING"}}
        /\ to(m) \in {{"HEALTHY"}, {"STALE"}, {"MISSING"}, {"CONFLICTING"}}
    BY <1>4, <1>13 DEF Findings
  <2>. QED BY <2>4, <2>5, <2>6
<1>. QED BY <1>8, <1>9, <1>10, <1>11, <1>12, <1>13

\* The report of a day passes it only if the answers earned it.
LEMMA PassedReportEarned ==
  ASSUME DayTaken, Watched, answers \in Seq(Answers), NEW covered, Report(covered).overall
  PROVE  Earned(Scenarios, TransactionIds, answers)
<1>1. /\ PublicDataValid /\ PassedOf(ScenarioKinds) = DOMAIN Scenarios
      /\ Recall >= 80 /\ QualityCovered /\ LiquidityCovered
  BY DEF Report
<1>2. \A i \in DOMAIN Scenarios : ScenarioPassed(i)
  BY <1>1 DEF PassedOf
<1>3. \A i \in DOMAIN Scenarios : Scenarios[i].txns \subseteq TransactionIds
  BY <1>1 DEF PublicDataValid, TransactionIds, RowSet
<1>4. Cardinality(Labelled(Scenarios, AnomalyKinds)) >= 2
  <2>. DEFINE H == PassedOf(AnomalyKinds)
              L == Labelled(Scenarios, AnomalyKinds)
  <2>1. H = L
    BY <1>2 DEF PassedOf, OfKinds, Labelled
  <2>2. IsFiniteSet(L)
    <3>1. DOMAIN Scenarios = 1..Len(Scenarios) /\ Len(Scenarios) \in Nat
      BY RowsTaken
    <3>2. IsFiniteSet(1..Len(Scenarios)) /\ L \in SUBSET (1..Len(Scenarios))
      BY <3>1, FS_Interval DEF Labelled
    <3>. QED BY <3>2, FS_Subset
  <2>3. Cardinality(AnomalyKinds) = 2
    <3>. DEFINE one == {"REPEATED_CASH_OUT_CLUSTER"}
    <3>1. IsFiniteSet(one) /\ Cardinality(one) = 1
      BY FS_Singleton
    <3>2. /\ "CROSS_PROVIDER_LINKED_ACTIVITY" \notin one
          /\ AnomalyKinds = one \cup {"CROSS_PROVIDER_LINKED_ACTIVITY"}
      BY DEF AnomalyKinds
    <3>. HIDE DEF one
    <3>3. Cardinality(one \cup {"CROSS_PROVIDER_LINKED_ACTIVITY"}) = Cardinality(one) + 1
      BY <3>1, <3>2, FS_AddElement
    <3>. QED BY <3>1, <3>2, <3>3
  <2>4. Cardinality(H) \in Nat
    BY <2>1, <2>2, FS_CardinalityType
  <2>5. (100 * Cardinality(H)) \div (Cardinality(H) + (2 - Cardinality(H))) >= 80
    BY <1>1, <2>3 DEF Recall
  <2>. HIDE DEF H, L
  <2>6. (100 * Cardinality(H)) \div 2 >= 80
    BY <2>4, <2>5
  <2>. QED BY <2>1, <2>4, <2>6 DEF L
<1>5. Labelled(Scenarios, DataQualityKinds) # {}
  BY <1>1 DEF QualityCovered, OfKinds, Labelled
<1>6. Labelled(Scenarios, {"HIDDEN_PROVIDER_SHORTAGE"}) # {}
  BY <1>1 DEF LiquidityCovered, OfKinds, Labelled
<1>. QED BY <1>2, <1>3, <1>4, <1>5, <1>6, PassedIsEarned DEF Earned

LEMMA MakeReportKeeps ==
  ASSUME EvaluationInv, MakeReport
  PROVE  EvaluationInv'
<1>. USE DEF EvaluationInv
<1>1. /\ phase = "replaying" /\ phase' = "reported"
      /\ UNCHANGED <<exports, seen, reader, played, trackers, answers>>
      /\ UNCHANGED filesVars
  BY DEF MakeReport, filesVars, writerVars, readerVars
<1>2. PICK covered \in BOOLEAN : report' = Report(covered)
  BY DEF MakeReport
<1>3. IInv'
  BY <1>1, FilesKeep
<1>4. DayTaken' /\ DayTaken
  BY <1>1, <1>3 DEF DayTaken
<1>5. /\ Scenarios' = Scenarios /\ RowSet("transactions")' = RowSet("transactions")
      /\ \A s : Findings(s)' = Findings(s)
  BY <1>1, <1>4, DayStays
<1>6. Watched'
  BY <1>1, <1>5 DEF Watched
<1>7. report'.overall => Earned(Scenarios, TransactionIds, answers)
  BY <1>1, <1>2, <1>4, PassedReportEarned
<1>8. ReportEarned'
  BY <1>1, <1>5, <1>7 DEF ReportEarned, TransactionIds
<1>. QED BY <1>1, <1>3, <1>4, <1>6, <1>8

LEMMA EvaluationKeeps ==
  ASSUME EvaluationInv, [ShadowNext]_shadowVars
  PROVE  EvaluationInv'
<1>1. CASE UNCHANGED shadowVars
  BY <1>1, ExportsBeside DEF shadowVars
<1>2. CASE ExportStep /\ UNCHANGED evaluationVars
  BY <1>2, ExportsBeside
<1>3. CASE ReadAgain
  BY <1>3, ReadAgainKeeps
<1>4. CASE Evaluate
  BY <1>4, StartReplayKeeps, PlayEventKeeps, PlayRaisesKeeps, MakeReportKeeps DEF Evaluate
<1>. QED BY <1>1, <1>2, <1>3, <1>4 DEF ShadowNext

LEMMA Evaluated == ShadowSpec => []EvaluationInv
BY StartsEvaluated, EvaluationKeeps, PTL DEF ShadowSpec

-----------------------------------------------------------------------------
(* What the trackers tell is what the run asks of them.                    *)

\* What an answer to s detects, and shows, in the words of the property.
Detects(s, t, a) ==
  CASE s.label = "HIDDEN_PROVIDER_SHORTAGE" -> "risky" \in a
    [] s.label = "REPEATED_CASH_OUT_CLUSTER" -> {"near", "concentrated", "review"} \subseteq a
    [] s.label = "CROSS_PROVIDER_LINKED_ACTIVITY" -> {"linked", "review"} \subseteq a
    [] s.label = "LEGITIMATE_DEMAND_SPIKE" -> t <= s.end /\ "review" \in a
    [] s.label = "FEED_DELAY_RECOVERY" -> t < s.end /\ a \cap {"STALE", "MISSING"} # {}
    [] s.label = "BALANCE_CONFLICT" -> "CONFLICTING" \in a

LEMMA AnswerTells ==
  ASSUME NEW s, s.label \in ScenarioKinds, NEW t, NEW a \in Findings(s)
  PROVE  /\ Detected(s, t, a) <=> Detects(s, t, a)
         /\ "hidden" \in a => s.label = "HIDDEN_PROVIDER_SHORTAGE"
         /\ s.label # Spike =>
              ("hidden" \in Worth(s, t, a) <=> Detects(s, t, a) /\ "hidden" \in a)
         /\ s.label # Spike =>
              ("HEALTHY" \in Worth(s, t, a) <=>
                 s.label = "FEED_DELAY_RECOVERY" /\ ~(t < s.end) /\ a = {"HEALTHY"})
<1>. USE DEF Detects, Detected, Worth, RaisedFlags, Detecting, Spike, EmptyTracker
<1>1. CASE s.label = "HIDDEN_PROVIDER_SHORTAGE"
  <2>1. a \subseteq {"risky", "hidden"}
    BY <1>1 DEF Findings
  <2>. QED BY <1>1, <2>1
<1>2. CASE s.label = "REPEATED_CASH_OUT_CLUSTER"
  <2>1. a \subseteq {"near", "concentrated", "review"}
    BY <1>2 DEF Findings
  <2>. QED BY <1>2, <2>1
<1>3. CASE s.label = "CROSS_PROVIDER_LINKED_ACTIVITY"
  <2>1. a \subseteq {"linked", "review"}
    BY <1>3 DEF Findings
  <2>. QED BY <1>3, <2>1
<1>4. CASE s.label = "LEGITIMATE_DEMAND_SPIKE"
  <2>1. a \subseteq {"review", "spike"}
    BY <1>4 DEF Findings
  <2>. QED BY <1>4, <2>1
<1>5. CASE s.label \in DataQualityKinds
  <2>1. a \in {{"HEALTHY"}, {"STALE"}, {"MISSING"}, {"CONFLICTING"}}
    BY <1>5 DEF Findings, DataQualityKinds
  <2>2. CASE s.label = "FEED_DELAY_RECOVERY"
    BY <2>1, <2>2
  <2>3. CASE s.label = "BALANCE_CONFLICT"
    BY <2>1, <2>3
  <2>. QED BY <1>5, <2>2, <2>3 DEF DataQualityKinds
<1>. QED BY <1>1, <1>2, <1>3, <1>4, <1>5 DEF ScenarioKinds, DataQualityKinds

LEMMA ToldIsSummary ==
  ASSUME EvaluationInv
  PROVE  TrackersSummarizeAnswers
<1>. SUFFICES ASSUME phase # "idle"
              PROVE  TrackersSummarizeAnswers
  BY DEF TrackersSummarizeAnswers
<1>. DEFINE said(i, n) == answers[n].to[i]
            Noted(i, n) ==
              CASE Scenarios[i].label = "HIDDEN_PROVIDER_SHORTAGE" -> "risky" \in said(i, n)
                [] Scenarios[i].label = "REPEATED_CASH_OUT_CLUSTER" ->
                     {"near", "concentrated", "review"} \subseteq said(i, n)
                [] Scenarios[i].label = "CROSS_PROVIDER_LINKED_ACTIVITY" ->
                     {"linked", "review"} \subseteq said(i, n)
                [] Scenarios[i].label = "LEGITIMATE_DEMAND_SPIKE" ->
                     n \in AskedDuring(i) /\ "review" \in said(i, n)
                [] Scenarios[i].label = "FEED_DELAY_RECOVERY" ->
                     /\ answers[n].at < Scenarios[i].end
                     /\ said(i, n) \cap {"STALE", "MISSING"} # {}
                [] Scenarios[i].label = "BALANCE_CONFLICT" -> "CONFLICTING" \in said(i, n)
            noted(i) == {n \in AskedOf(i) : Noted(i, n)}
<1>1. DayTaken /\ Watched /\ answers \in Seq(Answers)
  BY DEF EvaluationInv
<1>2. ASSUME NEW i \in DOMAIN Scenarios
      PROVE  LET s == Scenarios[i]
                 k == trackers[i]
                 asked == AskedOf(i)
                 during == AskedDuring(i)
             IN  /\ k.first = IF noted(i) = {} THEN Never ELSE answers[Min(noted(i))].at
                 /\ Frozen(s) /\ noted(i) # {} => k.shown = said(i, Min(noted(i)))
                 /\ Frozen(s) /\ noted(i) = {} /\ asked # {} => k.shown = said(i, Max(asked))
                 /\ "hidden" \in k.flags <=> \E n \in noted(i) : "hidden" \in said(i, n)
                 /\ s.label = "LEGITIMATE_DEMAND_SPIKE" =>
                      /\ "final" \in k.flags <=> asked # during
                      /\ "spike" \in k.flags <=>
                           \E n \in during \cup (IF asked = during THEN {}
                                                 ELSE {Min(asked \ during)}) :
                             "spike" \in said(i, n)
                 /\ "HEALTHY" \in k.flags <=>
                      /\ s.label = "FEED_DELAY_RECOVERY"
                      /\ \E n \in asked : answers[n].at >= s.end /\ said(i, n) = {"HEALTHY"}
  <2>. DEFINE s == Scenarios[i]
              k == trackers[i]
              P == AskedIn(s, answers)
              I == DuringIn(s, answers)
              D == DetectionsIn(s, i, answers)
              to(n) == answers[n].to[i]
              at(n) == answers[n].at
  <2>1. AskedOf(i) = P /\ AskedDuring(i) = I
    BY DEF AskedOf, AskedDuring, AskedIn, DuringIn
  <2>2. s.label \in ScenarioKinds /\ s.end \in Nat /\ Tells(s, i, k, answers)
    BY <1>1, RowsTaken DEF Watched
  <2>3. \A n \in P : n \in DOMAIN answers /\ at(n) \in Nat /\ to(n) \in Findings(s)
    <3>1. \A n \in P : n \in DOMAIN answers /\ answers[n] \in Answers
      BY <1>1 DEF AskedIn
    <3>2. \A x \in Answers : x.at \in Nat
      BY DEF Answers
    <3>. QED BY <1>1, <3>1, <3>2 DEF Watched, AskedIn
  <2>4. \A n \in P : Detected(s, at(n), to(n)) <=> Detects(s, at(n), to(n))
    <3>. HIDE DEF s, P, at, to
    <3>. QED BY <2>2, <2>3, AnswerTells
  <2>5. D = {n \in P : Detects(s, at(n), to(n))}
    BY <2>4 DEF DetectionsIn
  <2>6. \A n \in P : n \in AskedDuring(i) <=> at(n) <= s.end
    BY <2>1 DEF DuringIn
  <2>7. \A n \in P : Noted(i, n) <=> Detects(s, at(n), to(n))
    BY <2>6 DEF Detects
  <2>8. noted(i) = D
    BY <2>1, <2>5, <2>7
  <2>9. FirstTold(s, i, k, answers) /\ ShownTold(s, i, k, answers) /\ FlagsTold(s, i, k, answers)
    BY <2>2 DEF Tells
  <2>10. /\ k.first = IF D = {} THEN Never ELSE answers[Min(D)].at
         /\ Frozen(s) /\ D # {} => k.shown = to(Min(D))
         /\ Frozen(s) /\ D = {} /\ P # {} => k.shown = to(Max(P))
    BY <2>9 DEF FirstTold, ShownTold
  <2>11. s.label = Spike => SpikeTold(s, i, k, answers)
    BY <2>9 DEF FlagsTold
  <2>12. s.label # Spike => k.flags = UNION {Worth(s, at(n), to(n)) : n \in P}
    BY <2>9 DEF FlagsTold
  <2>13. "hidden" \in k.flags <=> \E n \in D : "hidden" \in to(n)
    <3>1. CASE s.label = Spike
      <4>1. "hidden" \notin k.flags
        BY <2>11, <3>1 DEF SpikeTold
      <4>2. \A n \in P : "hidden" \notin to(n)
        <5>. HIDE DEF s, P, to
        <5>. QED BY <2>2, <2>3, <3>1, AnswerTells DEF Spike
      <4>3. D \subseteq P
        BY DEF DetectionsIn
      <4>. HIDE DEF s, P, D, to, k
      <4>. QED BY <4>1, <4>2, <4>3
    <3>2. CASE s.label # Spike
      <4>. HIDE DEF s, P, to, at, k, D
      <4>1. \A n \in P : "hidden" \in Worth(s, at(n), to(n)) <=>
                           Detects(s, at(n), to(n)) /\ "hidden" \in to(n)
        BY <2>2, <2>3, <3>2, AnswerTells
      <4>2. "hidden" \in k.flags <=> \E n \in P : "hidden" \in Worth(s, at(n), to(n))
        BY <2>12, <3>2
      <4>. QED BY <2>5, <4>1, <4>2
    <3>. QED BY <3>1, <3>2
  <2>14. s.label = Spike =>
           /\ "final" \in k.flags <=> P # I
           /\ "spike" \in k.flags <=>
                \E n \in I \cup (IF P = I THEN {} ELSE {Min(P \ I)}) : "spike" \in to(n)
    BY <2>11 DEF SpikeTold
  <2>15. "HEALTHY" \in k.flags <=>
           /\ s.label = "FEED_DELAY_RECOVERY"
           /\ \E n \in P : ~(at(n) < s.end) /\ to(n) = {"HEALTHY"}
    <3>1. CASE s.label = Spike
      BY <2>11, <3>1 DEF SpikeTold, Spike
    <3>2. CASE s.label # Spike
      <4>. HIDE DEF s, P, to, at, k, D
      <4>1. \A n \in P : "HEALTHY" \in Worth(s, at(n), to(n)) <=>
                           s.label = "FEED_DELAY_RECOVERY" /\ ~(at(n) < s.end)
                             /\ to(n) = {"HEALTHY"}
        BY <2>2, <2>3, <3>2, AnswerTells
      <4>2. "HEALTHY" \in k.flags <=> \E n \in P : "HEALTHY" \in Worth(s, at(n), to(n))
        BY <2>12, <3>2
      <4>. QED BY <4>1, <4>2
    <3>. QED BY <3>1, <3>2
  <2>16. \A n \in P : ~(at(n) < s.end) <=> at(n) >= s.end
    <3>. HIDE DEF s, P, at
    <3>. QED BY <2>2, <2>3
  <2>17. "HEALTHY" \in k.flags <=>
           /\ s.label = "FEED_DELAY_RECOVERY"
           /\ \E n \in P : at(n) >= s.end /\ to(n) = {"HEALTHY"}
    <3>. HIDE DEF s, P, at, to, k
    <3>. QED BY <2>15, <2>16
  <2>. HIDE DEF noted, P, I, D
  <2>. QED BY <2>1, <2>8, <2>10, <2>13, <2>14, <2>17 DEF Spike
<1>. QED BY <1>2 DEF TrackersSummarizeAnswers

-----------------------------------------------------------------------------
(* Theorems.                                                               *)

\* The exporter and the readers keep their types.
THEOREM TypesHold == FilesSpec => []FilesTypeOK
BY Inductive, PTL DEF IInv

\* However many exports are broken off, by an error or by a crash, each file in its
\* place is whole and none is older than the manifest.
THEOREM ManifestCommits == FilesSpec => []FilesFollowManifest
BY Inductive, PTL DEF IInv

\* An export that runs to its end repairs whatever earlier ones left.
THEOREM FinishedExportRepairs == FilesSpec => []FinishedExportStands
BY Inductive, PTL DEF IInv

\* Readers and exporter need no lock for this much: nothing read is older than the
\* manifest read, and an undisturbed reading is of one export.
THEOREM ReadingsFollow == FilesSpec => []ReadsFollowManifest
BY Inductive, PTL DEF IInv

\* ShadowReplayValidator only reads: whatever it does between its readings is no step of
\* the exporter or of the loader, so what was proved of the files holds beside it too.
THEOREM EvaluatorOnlyReads == ShadowSpec => FilesSpec
<1>1. ShadowInit => FilesInit
  BY DEF ShadowInit
<1>2. [ShadowNext]_shadowVars => [FilesNext]_filesVars
  <2>1. Evaluate => UNCHANGED filesVars
    BY DEF Evaluate, StartReplay, PlayEvent, PlayRaises, MakeReport
  <2>2. ReadAgain => ReadStep
    BY DEF ReadAgain
  <2>. QED BY <2>1, <2>2 DEF ShadowNext, FilesNext, shadowVars
<1>. QED BY <1>1, <1>2, PTL DEF ShadowSpec, FilesSpec

\* However long the day, however many scenarios it labels and whatever the engines say,
\* the trackers of _observe_scenario tell what the engines said: the first detection, the
\* observations of that moment, the flags, and those of a demand spike up to its end.
THEOREM TrackersTell == ShadowSpec => []TrackersSummarizeAnswers
<1>1. EvaluationInv => TrackersSummarizeAnswers
  BY ToldIsSummary
<1>. QED BY <1>1, Evaluated, PTL

\* A day that _build_report passes has two anomalies, a shortage and a data-quality
\* scenario, each answered for while it was watched, and no demand spike sent to review.
THEOREM PassHolds == ShadowSpec => []PassIsEarned
<1>1. EvaluationInv => PassIsEarned
  BY ReportEarnedIs DEF EvaluationInv
<1>. QED BY <1>1, Evaluated, PTL
=============================================================================
