------------------------ MODULE PromptLearningProofs ------------------------
(***************************************************************************)
(* What the prompt-learning pipeline promises about what it keeps and      *)
(* serves, for any number of drafters, reviewers and developers, and about *)
(* a collection of shadow responses, for any plan, schedule, server        *)
(* answers and recording limit, and whatever the agent in a worker repeats.*)
(*                                                                         *)
(* What is kept.  A file that a call acknowledged is Settled: processes    *)
(* see it and the disk has it.  No step can change a settled name, because *)
(* a name is only linked when it is free, only temporary names are         *)
(* removed, and a power failure chooses between two equal versions.  What  *)
(* remains is that a file is settled when its call returns: between its    *)
(* check and its return a call holds what it read (the pinned review, the  *)
(* states it extends), and that is still there.                            *)
(* A snapshot rests on signatures that never come back: a version that     *)
(* changed has another time, a name that was replaced another number.      *)
(*                                                                         *)
(* The collection.  The collector does one thing at a time, so its place   *)
(* says what it knows: at some places that nothing runs, at fewer that     *)
(* nothing is loaded either (KnowledgeInv).  An exception may leave from   *)
(* any of them, and the flags of its handler keep just that much of the    *)
(* knowledge; the marks of the cleanup and of the abort then fit in what   *)
(* every other event left free (JournalInv).  A worker lives from the      *)
(* dispatch of its request to the end of the call, and the server receives *)
(* nothing of it before (RecordInv, WorkerInv).  A response is recorded    *)
(* when the server has answered and nothing runs any more, so that answer  *)
(* stays what it is (AnswersInv), up to the audit that looks each response *)
(* up by the place of its receipt (VerdictInv).                            *)
(* The hints are a matter of their own: what is in the pipe follows what   *)
(* was read and was sent by counters that only grow, until a refused       *)
(* generation leaves its size in one of them (HintsInv).                   *)
(***************************************************************************)
EXTENDS PromptLearning, SequenceTheorems, FiniteSetTheorems, TLAPS

(* All files of a directory are whole and synchronized; its names may not be. *)
Files(contents) == {NoFile} \cup {Written(bytes) : bytes \in contents}

Directories(names, contents) ==
  [seen : [names -> Files(contents)], disk : [names -> Files(contents)]]

Settled(dir, name, bytes) ==
  dir.seen[name] = Written(bytes) /\ dir.disk[name] = Written(bytes)

(* Whatever was settled stays settled. *)
Keeps(before, after, names, contents) ==
  \A n \in names, bytes \in contents :
    Settled(before, n, bytes) => Settled(after, n, bytes)

-----------------------------------------------------------------------------
(* Files and directories (Publication) *)

LEMMA WrittenFiles ==
  /\ \A a : Written(a) # NoFile /\ Written(a).bytes = a /\ Complete(Written(a))
  /\ \A a, b : Written(a) = Written(b) => a = b
  /\ ~ Complete(NoFile)
BY DEF Written, NoFile, Complete

LEMMA FreshDirectory ==
  ASSUME NEW names, NEW contents
  PROVE  EmptyDirectory(names) \in Directories(names, contents)
BY DEF EmptyDirectory, Directories, Files

LEMMA LinkedDirectory ==
  ASSUME NEW names, NEW contents, NEW dir \in Directories(names, contents),
         NEW name \in names, NEW bytes \in contents
  PROVE  /\ Link(dir, name, Written(bytes)) \in Directories(names, contents)
         /\ Link(dir, name, Written(bytes)).seen[name] = Written(bytes)
         /\ \A n \in names \ {name} :
              Link(dir, name, Written(bytes)).seen[n] = dir.seen[n]
         /\ Linkable(dir, name) =>
              Keeps(dir, Link(dir, name, Written(bytes)), names, contents)
BY WrittenFiles DEF Directories, Files, Link, Linkable, Keeps, Settled

LEMMA UnlinkedDirectory ==
  ASSUME NEW names, NEW contents, NEW dir \in Directories(names, contents),
         NEW name \in names
  PROVE  /\ Unlink(dir, name) \in Directories(names, contents)
         /\ \A n \in names \ {name} : Unlink(dir, name).seen[n] = dir.seen[n]
         /\ Unlink(dir, name).disk = dir.disk
BY DEF Directories, Files, Unlink

LEMMA SyncedDirectory ==
  ASSUME NEW names, NEW contents, NEW dir \in Directories(names, contents)
  PROVE  /\ SyncDirectory(dir) \in Directories(names, contents)
         /\ SyncDirectory(dir).seen = dir.seen
         /\ SyncDirectory(dir).disk = dir.seen
         /\ Keeps(dir, SyncDirectory(dir), names, contents)
BY DEF Directories, SyncDirectory, Keeps, Settled

LEMMA SurvivingDirectory ==
  ASSUME NEW names, NEW contents, NEW dir \in Directories(names, contents),
         NEW after \in PowerLosses(dir)
  PROVE  /\ after \in Directories(names, contents)
         /\ Keeps(dir, after, names, contents)
<1>. DEFINE Kept(file) == IF file.state = "cached" THEN Torn ELSE file
            After(kept) == [n \in DOMAIN dir.seen |->
                              Kept(IF n \in kept THEN dir.seen[n] ELSE dir.disk[n])]
<1>1. PICK kept : after = [seen |-> After(kept), disk |-> After(kept)]
  BY DEF PowerLosses
<1>2. /\ DOMAIN dir.seen = names
      /\ \A n \in names : dir.seen[n] \in Files(contents) /\ dir.disk[n] \in Files(contents)
  BY DEF Directories
<1>3. ASSUME NEW file \in Files(contents) PROVE Kept(file) = file
  BY DEF Files, Written, NoFile
<1>4. \A n \in names :
        After(kept)[n] = IF n \in kept THEN dir.seen[n] ELSE dir.disk[n]
  BY <1>2, <1>3
<1>5. After(kept) \in [names -> Files(contents)]
  BY <1>2, <1>4
<1>6. after \in Directories(names, contents)
  BY <1>1, <1>5 DEF Directories
<1>7. after.seen = After(kept) /\ after.disk = After(kept)
  BY <1>1
<1>. HIDE DEF After, Kept
<1>. QED
  BY <1>4, <1>6, <1>7 DEF Keeps, Settled

-----------------------------------------------------------------------------
(* The candidate store *)

Drafts == Seq(Drafters)

StoreInv ==
  /\ quarantine \in Directories({Target}, Drafts)
  /\ freezing \in [Drafters -> {"idle", "written", "linked"}]
  /\ frozen \subseteq Drafters
  /\ \A d \in Drafters :
       freezing[d] = "linked" => quarantine.seen[Target] = Written(<<d>>)
  /\ \A d \in frozen : Settled(quarantine, Target, <<d>>)

LEMMA StoreInitially ==
  ASSUME StoreInit PROVE StoreInv
<1>1. quarantine \in Directories({Target}, Drafts)
  BY FreshDirectory DEF StoreInit
<1>. QED
  BY <1>1 DEF StoreInit, StoreInv

LEMMA StorePreserved ==
  ASSUME StoreInv, StoreStage
  PROVE  StoreInv'
<1>. USE DEF StoreInv
<1>. \A d \in Drafters : <<d>> \in Drafts
  BY DEF Drafts
<1>1. ASSUME NEW d \in Drafters, WriteDraft(d) PROVE StoreInv'
  BY <1>1 DEF WriteDraft
<1>2. ASSUME NEW d \in Drafters, LinkCandidate(d) PROVE StoreInv'
  <2>1. quarantine.seen[Target] = NoFile
    BY <1>2 DEF LinkCandidate, Linkable
  <2>2. frozen = {} /\ \A e \in Drafters : freezing[e] # "linked"
    BY <2>1, WrittenFiles DEF Settled
  <2>3. /\ quarantine' \in Directories({Target}, Drafts)
        /\ quarantine'.seen[Target] = Written(<<d>>)
    BY <1>2, LinkedDirectory DEF LinkCandidate
  <2>. QED  BY <1>2, <2>2, <2>3 DEF LinkCandidate
<1>3. ASSUME NEW d \in Drafters, AcknowledgeCandidate(d) PROVE StoreInv'
  <2>1. /\ quarantine' \in Directories({Target}, Drafts)
        /\ quarantine'.seen = quarantine.seen /\ quarantine'.disk = quarantine.seen
    BY <1>3, SyncedDirectory DEF AcknowledgeCandidate
  <2>. QED  BY <1>3, <2>1 DEF AcknowledgeCandidate, Settled
<1>4. ASSUME NEW d \in Drafters, StopFreezing(d) PROVE StoreInv'
  BY <1>4 DEF StopFreezing
<1>5. CASE StorePowerLoss
  <2>1. /\ quarantine' \in Directories({Target}, Drafts)
        /\ Keeps(quarantine, quarantine', {Target}, Drafts)
    BY <1>5, SurvivingDirectory DEF StorePowerLoss
  <2>. QED  BY <1>5, <2>1 DEF StorePowerLoss, Keeps
<1>6. CASE UNCHANGED freezeVars
  BY <1>6 DEF freezeVars, Settled
<1>. QED
  BY <1>1, <1>2, <1>3, <1>4, <1>5, <1>6 DEF StoreStage, StoreStep

-----------------------------------------------------------------------------
(* The snapshot *)

Signatures == Nat \X Nat
Versions == [parts : [Parts -> BOOLEAN], changed : Nat]

Readers ==
  [at : {"idle", "opening", "reading", "checking", "returned"},
   pin : Drafters \cup {"none"}, next : Artifacts, fd : Nat,
   before : Signatures \cup {<<>>}, parts : Seq(BOOLEAN), checked : Seq(Signatures),
   together : BOOLEAN]

SnapshotTypes ==
  /\ inodes \in Seq(Versions)
  /\ entry \in [Artifacts -> DOMAIN inodes]
  /\ reader \in Readers

(* A signature that was taken of a file. *)
Taken(sig) == sig[1] \in DOMAIN inodes /\ sig[2] <= inodes[sig[1]].changed

(* What was read of a file is in it, unless it changed since. *)
ReadingHolds ==
  reader.at = "reading" =>
    /\ reader.before \in Signatures
    /\ reader.before[1] = reader.fd
    /\ Taken(reader.before)
    /\ Len(reader.parts) <= 2
    /\ inodes[reader.fd].changed = reader.before[2] =>
         \A j \in 1 .. Len(reader.parts) : reader.parts[j] = inodes[reader.fd].parts[j]

(* A file that was verified is right, unless it changed since. *)
CheckedHolds(j) ==
  /\ Taken(reader.checked[j])
  /\ inodes[reader.checked[j][1]].changed = reader.checked[j][2] =>
       \A part \in Parts : inodes[reader.checked[j][1]].parts[part]

AllVerified == reader.at \in {"checking", "returned"}

(* If the names did not lead to right files when the last was verified, a check
   that is still to come finds it. *)
ChecksWillTell ==
  /\ reader.at = "checking" /\ ~ reader.together =>
       \E a \in Artifacts : a >= reader.next /\ ~ StillUnchanged(a)
  /\ reader.at = "returned" => reader.together

SnapshotInv ==
  /\ SnapshotTypes
  /\ ReadingHolds
  /\ reader.at \in {"opening", "reading"} => Len(reader.checked) = reader.next - 1
  /\ AllVerified => Len(reader.checked) = 2
  /\ \A j \in DOMAIN reader.checked : CheckedHolds(j)
  /\ ChecksWillTell

LEMMA FreshReader == NoRead \in Readers
<1>1. 1 \in Artifacts /\ <<>> \in Seq(BOOLEAN) /\ <<>> \in Seq(Signatures)
  BY DEF Artifacts
<1>. QED
  BY <1>1 DEF Readers, NoRead

LEMMA SnapshotInitially ==
  ASSUME StoreInit PROVE SnapshotInv
<1>0. WholeFiles \subseteq [Parts -> BOOLEAN]
  BY DEF WholeFiles
<1>1. inodes \in [Artifacts -> Versions]
  <2>1. ASSUME NEW v \in [parts : WholeFiles, changed : {0}] PROVE v \in Versions
    <3>. DEFINE Whole == [Parts -> BOOLEAN]
    <3>1. /\ v = [parts |-> v.parts, changed |-> v.changed]
          /\ v.parts \in Whole /\ v.changed \in Nat
      BY <1>0
    <3>2. Versions = [parts : Whole, changed : Nat]
      BY DEF Versions
    <3>. HIDE DEF Whole
    <3>. QED  BY <3>1, <3>2
  <2>. QED  BY <2>1 DEF StoreInit
<1>2. inodes \in Seq(Versions) /\ DOMAIN inodes = Artifacts
  <2>1. inodes \in [1 .. 2 -> Versions] /\ DOMAIN inodes = 1 .. 2
    BY <1>1 DEF Artifacts
  <2>. HIDE DEF Versions
  <2>2. inodes = <<inodes[1], inodes[2]>>
    BY <2>1
  <2>3. inodes[1] \in Versions /\ inodes[2] \in Versions
    BY <2>1
  <2>4. \A v, w \in Versions : <<v, w>> \in Seq(Versions)
    OBVIOUS
  <2>5. inodes \in Seq(Versions)
    BY <2>2, <2>3, <2>4, Zenon
  <2>. QED  BY <2>1, <2>5 DEF Artifacts
<1>3. entry \in [Artifacts -> DOMAIN inodes]
  BY <1>2 DEF StoreInit
<1>4. reader = NoRead
  BY DEF StoreInit
<1>. QED
  BY <1>2, <1>3, <1>4
  DEF SnapshotInv, SnapshotTypes, Readers, NoRead, Artifacts, ReadingHolds, AllVerified,
      ChecksWillTell

(* Whoever writes to the files, a version that changed never looks unchanged
   again, and no new version takes the number of an old one. *)
LEMMA WritesShow ==
  ASSUME SnapshotInv, SnapshotTypes', UNCHANGED reader,
         Len(inodes) <= Len(inodes'),
         \A i \in DOMAIN inodes :
           \/ inodes'[i] = inodes[i]
           \/ inodes'[i].changed > inodes[i].changed,
         \A a \in Artifacts : entry'[a] = entry[a] \/ entry'[a] > Len(inodes)
  PROVE  SnapshotInv'
<1>. USE DEF SnapshotInv
<1>0. /\ DOMAIN inodes = 1 .. Len(inodes) /\ DOMAIN inodes' = 1 .. Len(inodes')
      /\ Len(inodes) \in Nat /\ Len(inodes') \in Nat
      /\ \A i \in DOMAIN inodes : /\ i \in DOMAIN inodes' /\ i \in Nat
                                  /\ inodes[i] \in Versions /\ inodes'[i] \in Versions
  BY DEF SnapshotTypes
<1>1. ASSUME NEW sig \in Signatures, Taken(sig)
      PROVE  /\ Taken(sig)'
             /\ inodes'[sig[1]].changed = sig[2] => inodes'[sig[1]] = inodes[sig[1]]
  <2>1. /\ sig[1] \in DOMAIN inodes /\ sig[2] <= inodes[sig[1]].changed /\ sig[2] \in Nat
        /\ inodes[sig[1]].changed \in Nat /\ inodes'[sig[1]].changed \in Nat
    BY <1>0, <1>1 DEF Taken, Signatures, Versions
  <2>. QED  BY <1>0, <2>1 DEF Taken
<1>2. ReadingHolds'
  <2>1. SUFFICES ASSUME reader.at = "reading" PROVE ReadingHolds'
    BY DEF ReadingHolds
  <2>2. reader.before \in Signatures /\ Taken(reader.before) /\ reader.before[1] = reader.fd
    BY <2>1 DEF ReadingHolds
  <2>. QED  BY <1>1, <2>1, <2>2 DEF ReadingHolds, Taken
<1>3. ASSUME NEW j \in DOMAIN reader.checked PROVE CheckedHolds(j)'
  <2>1. reader.checked[j] \in Signatures /\ Taken(reader.checked[j])
    BY DEF SnapshotTypes, Readers, CheckedHolds
  <2>. QED  BY <1>1, <2>1 DEF CheckedHolds
<1>4. ASSUME reader.at = "checking", NEW a \in Artifacts, ~ StillUnchanged(a)
      PROVE  ~ StillUnchanged(a)'
  <2>1. a \in DOMAIN reader.checked
    BY <1>4 DEF AllVerified, SnapshotTypes, Readers, Artifacts
  <2>2. reader.checked[a] \in Signatures /\ Taken(reader.checked[a])
    BY <2>1 DEF SnapshotTypes, Readers, CheckedHolds
  <2>3. reader.checked[a][1] \in DOMAIN inodes
    BY <2>2 DEF Taken
  <2>4. entry[a] \in DOMAIN inodes /\ entry'[a] \in Nat
    BY <1>0 DEF SnapshotTypes
  <2>5. CASE entry'[a] > Len(inodes)
    BY <1>0, <2>2, <2>3, <2>4, <2>5 DEF StillUnchanged, Signature, Signatures
  <2>6. CASE entry'[a] = entry[a]
    BY <1>1, <1>4, <2>2, <2>4, <2>6 DEF StillUnchanged, Signature, Signatures
  <2>. QED  BY <2>5, <2>6
<1>5. ChecksWillTell'
  BY <1>4 DEF ChecksWillTell
<1>6. /\ reader'.at \in {"opening", "reading"} => Len(reader'.checked) = reader'.next - 1
      /\ AllVerified' => Len(reader'.checked) = 2
  BY DEF AllVerified
<1>. QED
  BY <1>2, <1>3, <1>5, <1>6

LEMMA SnapshotWritten ==
  ASSUME SnapshotInv, ArtifactWrite PROVE SnapshotInv'
<1>0. /\ SnapshotTypes /\ DOMAIN inodes = 1 .. Len(inodes) /\ Len(inodes) \in Nat
      /\ \A i \in DOMAIN inodes : inodes[i] \in Versions
      /\ \A a \in Artifacts : entry[a] \in DOMAIN inodes
  BY DEF SnapshotInv, SnapshotTypes
<1>1. ASSUME NEW a \in Artifacts, NEW part \in Parts, NEW right \in BOOLEAN,
             WritePart(a, part, right)
      PROVE  SnapshotInv'
  <2>. DEFINE written == [inodes[entry[a]] EXCEPT !.parts[part] = right, !.changed = @ + 1]
  <2>1. /\ inodes' = [inodes EXCEPT ![entry[a]] = written]
        /\ UNCHANGED <<entry, reader>>
    BY <1>1 DEF WritePart
  <2>2. inodes[entry[a]] \in Versions
    BY <1>0
  <2>3. written \in Versions /\ written.changed > inodes[entry[a]].changed
    <3>. DEFINE file  == inodes[entry[a]]
                parts == [file.parts EXCEPT ![part] = right]
                count == file.changed + 1
    <3>1. parts \in [Parts -> BOOLEAN] /\ count \in Nat /\ count > file.changed
      BY <2>2 DEF Versions
    <3>2. written = [file EXCEPT !.parts = parts, !.changed = count]
      BY <2>2 DEF Versions
    <3>. HIDE DEF parts, count, written
    <3>. QED  BY <2>2, <3>1, <3>2 DEF Versions
  <2>. HIDE DEF written
  <2>4. inodes' \in Seq(Versions) /\ Len(inodes') = Len(inodes)
        /\ \A i \in DOMAIN inodes : inodes'[i] = IF i = entry[a] THEN written ELSE inodes[i]
    BY <1>0, <2>1, <2>3 DEF SnapshotTypes
  <2>5. SnapshotTypes'
    BY <1>0, <2>1, <2>4 DEF SnapshotTypes
  <2>. QED  BY <1>0, <2>1, <2>3, <2>4, <2>5, WritesShow
<1>2. ASSUME NEW a \in Artifacts, NEW parts \in WholeFiles, ReplaceFile(a, parts)
      PROVE  SnapshotInv'
  <2>. DEFINE file == [parts |-> parts, changed |-> 0]
  <2>1. /\ inodes' = Append(inodes, file)
        /\ entry' = [entry EXCEPT ![a] = Len(inodes')]
        /\ UNCHANGED reader
    BY <1>2 DEF ReplaceFile
  <2>2. file \in Versions
    BY DEF Versions, WholeFiles
  <2>. HIDE DEF file
  <2>3. /\ inodes' \in Seq(Versions) /\ Len(inodes') = Len(inodes) + 1
        /\ \A i \in DOMAIN inodes : inodes'[i] = inodes[i]
    BY <1>0, <2>1, <2>2 DEF SnapshotTypes
  <2>4. SnapshotTypes'
    BY <1>0, <2>1, <2>3 DEF SnapshotTypes
  <2>5. \A b \in Artifacts : entry'[b] = entry[b] \/ entry'[b] > Len(inodes)
    BY <1>0, <2>1, <2>3 DEF SnapshotTypes
  <2>. QED  BY <1>0, <2>1, <2>3, <2>4, <2>5, WritesShow
<1>. QED
  BY <1>1, <1>2 DEF ArtifactWrite

LEMMA SnapshotPreserved ==
  ASSUME SnapshotInv, StoreStage PROVE SnapshotInv'
<1>a. /\ SnapshotTypes /\ DOMAIN inodes = 1 .. Len(inodes) /\ Len(inodes) \in Nat
      /\ \A i \in DOMAIN inodes : inodes[i] \in Versions /\ i \in Nat
      /\ \A a \in Artifacts : entry[a] \in DOMAIN inodes
      /\ reader \in Readers
  BY DEF SnapshotInv, SnapshotTypes
<1>0. /\ SnapshotTypes /\ DOMAIN inodes = 1 .. Len(inodes) /\ Len(inodes) \in Nat
      /\ \A i \in DOMAIN inodes : inodes[i] \in Versions /\ inodes[i].changed \in Nat /\ i \in Nat
      /\ \A a \in Artifacts : entry[a] \in DOMAIN inodes
      /\ reader \in Readers
  BY <1>a DEF Versions
<1>b. reader \in Readers
  BY <1>a
<1>c. ASSUME UNCHANGED artifactVars, reader' \in Readers PROVE SnapshotTypes'
  BY <1>a, <1>c DEF SnapshotTypes, artifactVars
<1>1. CASE UNCHANGED <<artifactVars, reader>>
  BY <1>1 DEF SnapshotInv, SnapshotTypes, ReadingHolds, Taken, CheckedHolds, AllVerified,
              ChecksWillTell, StillUnchanged, Signature, artifactVars
<1>2. CASE StorePowerLoss \/ RefuseSnapshot
  <2>1. reader' = NoRead /\ UNCHANGED artifactVars
    BY <1>2 DEF StorePowerLoss, RefuseSnapshot
  <2>2. SnapshotTypes'
    BY <1>c, <2>1, FreshReader DEF SnapshotTypes
  <2>. QED  BY <2>1, <2>2 DEF SnapshotInv, SnapshotTypes, NoRead, ReadingHolds, AllVerified, ChecksWillTell
<1>3. CASE ArtifactWrite
  BY <1>3, SnapshotWritten
<1>4. ASSUME NEW id \in Drafters, BeginSnapshot(id) PROVE SnapshotInv'
  <2>1. reader' = [NoRead EXCEPT !.at = "opening", !.pin = id] /\ UNCHANGED artifactVars
    BY <1>4 DEF BeginSnapshot
  <2>2. SnapshotTypes'
    <3>. reader' \in Readers
      BY <2>1, FreshReader DEF Readers
    <3>. QED  BY <1>c, <2>1
  <2>. QED
    BY <2>1, <2>2 DEF SnapshotInv, NoRead, ReadingHolds, AllVerified, ChecksWillTell
<1>5. CASE OpenArtifact
  <2>. DEFINE sig == Signature(entry[reader.next])
              fd == entry[reader.next]
  <2>1. /\ reader.at = "opening" /\ UNCHANGED artifactVars
        /\ reader' = [reader EXCEPT !.at = "reading", !.fd = fd, !.before = sig,
                                    !.parts = <<>>]
    BY <1>5 DEF OpenArtifact
  <2>2. fd \in DOMAIN inodes /\ sig = <<fd, inodes[fd].changed>> /\ sig \in Signatures
    BY <1>0 DEF SnapshotTypes, Readers, Signature, Signatures
  <2>. HIDE DEF sig, fd
  <2>3. /\ reader'.at = "reading" /\ reader'.fd = fd /\ reader'.before = sig
        /\ reader'.parts = <<>> /\ reader'.checked = reader.checked
        /\ reader'.next = reader.next /\ reader'.together = reader.together
    BY <1>0, <2>1 DEF SnapshotTypes, Readers
  <2>4. SnapshotTypes'
    <3>1. fd \in Nat /\ sig \in Signatures \cup {<<>>} /\ <<>> \in Seq(BOOLEAN)
      BY <1>0, <2>2
    <3>. reader' \in Readers
      BY <1>b, <2>1, <3>1 DEF Readers
    <3>. QED  BY <1>c, <2>1
  <2>5. ReadingHolds'
    BY <1>0, <2>1, <2>2, <2>3 DEF ReadingHolds, Taken, artifactVars
  <2>. QED
    BY <2>1, <2>3, <2>4, <2>5
    DEF SnapshotInv, CheckedHolds, Taken, artifactVars, AllVerified, ChecksWillTell
<1>6. CASE ReadPart
  <2>. DEFINE part == inodes[reader.fd].parts[Len(reader.parts) + 1]
  <2>1. /\ reader.at = "reading" /\ Len(reader.parts) < 2 /\ UNCHANGED artifactVars
        /\ reader' = [reader EXCEPT !.parts = Append(@, part)]
    BY <1>6 DEF ReadPart
  <2>2. reader.parts \in Seq(BOOLEAN) /\ reader.fd \in DOMAIN inodes
    BY <1>0, <2>1 DEF SnapshotInv, SnapshotTypes, Readers, ReadingHolds, Taken
  <2>3. part \in BOOLEAN
    BY <1>0, <2>1, <2>2 DEF Versions, Parts
  <2>4. /\ reader'.at = "reading" /\ reader'.fd = reader.fd /\ reader'.before = reader.before
        /\ reader'.parts = Append(reader.parts, part) /\ reader'.checked = reader.checked
        /\ reader'.next = reader.next
    BY <1>0, <2>1 DEF SnapshotTypes, Readers
  <2>5. /\ Append(reader.parts, part) \in Seq(BOOLEAN)
        /\ Len(Append(reader.parts, part)) = Len(reader.parts) + 1
        /\ \A j \in 1 .. Len(reader.parts) + 1 :
             Append(reader.parts, part)[j] =
               IF j = Len(reader.parts) + 1 THEN part ELSE reader.parts[j]
    BY <2>2, <2>3
  <2>6. SnapshotTypes'
    <3>. reader' \in Readers
      BY <1>b, <2>1, <2>5 DEF Readers
    <3>. QED  BY <1>c, <2>1
  <2>7. ReadingHolds'
    <3>1. \A j \in 1 .. Len(reader.parts) + 1 :
            j = Len(reader.parts) + 1 \/ j \in 1 .. Len(reader.parts)
      BY <2>2
    <3>. QED
      BY <2>1, <2>2, <2>4, <2>5, <3>1 DEF SnapshotInv, ReadingHolds, Taken, artifactVars
  <2>. QED
    BY <2>1, <2>4, <2>6, <2>7
    DEF SnapshotInv, CheckedHolds, Taken, artifactVars, AllVerified, ChecksWillTell
<1>7. CASE VerifyArtifact
  <2>. DEFINE checked == Append(reader.checked, reader.before)
              at == IF reader.next = 2 THEN "checking" ELSE "opening"
              next == IF reader.next = 2 THEN 1 ELSE 2
              together == \A a \in Artifacts : IsRight(a)
  <2>1. /\ reader.at = "reading" /\ Len(reader.parts) = 2 /\ UNCHANGED artifactVars
        /\ Signature(reader.fd) = reader.before
        /\ \A part \in Parts : reader.parts[part]
        /\ reader' = [reader EXCEPT !.at = at, !.next = next, !.checked = checked,
                                    !.together = together]
    BY <1>7 DEF VerifyArtifact
  <2>2. /\ reader.checked \in Seq(Signatures) /\ reader.before \in Signatures
        /\ Taken(reader.before) /\ reader.before[1] = reader.fd
        /\ Len(reader.checked) = reader.next - 1 /\ reader.next \in {1, 2}
    BY <1>0, <2>1 DEF SnapshotInv, SnapshotTypes, Readers, ReadingHolds, Artifacts
  <2>3. /\ checked \in Seq(Signatures) /\ Len(checked) = reader.next
        /\ \A j \in 1 .. reader.next :
             checked[j] = IF j = reader.next THEN reader.before ELSE reader.checked[j]
    BY <2>2
  <2>4. inodes[reader.before[1]].changed = reader.before[2]
    BY <2>1, <2>2 DEF Signature
  <2>5. \A part \in Parts : inodes[reader.before[1]].parts[part]
    BY <2>1, <2>2, <2>4 DEF SnapshotInv, ReadingHolds, Parts
  <2>. HIDE DEF checked, together
  <2>6. /\ reader'.at = at /\ reader'.next = next /\ reader'.checked = checked
        /\ reader'.together = together
    BY <1>0, <2>1 DEF SnapshotTypes, Readers
  <2>7. together \in BOOLEAN
    BY DEF together
  <2>8. SnapshotTypes'
    <3>1. at \in {"checking", "opening"} /\ next \in Artifacts
      BY DEF Artifacts
    <3>. HIDE DEF at, next
    <3>. reader' \in Readers
      BY <1>b, <2>1, <2>3, <2>7, <3>1 DEF Readers
    <3>. QED  BY <1>c, <2>1
  <2>9. \A j \in 1 .. reader.next : CheckedHolds(j)'
    <3>1. \A j \in 1 .. reader.next : j = reader.next \/ j \in DOMAIN reader.checked
      BY <2>2
    <3>. QED
      BY <2>1, <2>2, <2>3, <2>5, <2>6, <3>1 DEF SnapshotInv, CheckedHolds, Taken, artifactVars
  <2>10. ChecksWillTell'
    <3>1. SUFFICES ASSUME reader.next = 2, ~ together
                   PROVE  \E a \in Artifacts : ~ StillUnchanged(a)'
      BY <2>6, <2>2 DEF ChecksWillTell, Artifacts
    <3>2. PICK a \in Artifacts : ~ IsRight(a)
      BY <3>1 DEF together
    <3>3. SUFFICES ASSUME StillUnchanged(a)' PROVE FALSE
      OBVIOUS
    <3>4. a \in 1 .. reader.next /\ CheckedHolds(a)'
      BY <2>9, <3>1 DEF Artifacts
    <3>5. <<entry[a], inodes[entry[a]].changed>> = checked[a]
      BY <2>1, <2>6, <3>3 DEF StillUnchanged, Signature, artifactVars
    <3>6. checked[a][1] = entry[a] /\ checked[a][2] = inodes[entry[a]].changed
      BY <3>5
    <3>7. \A part \in Parts : inodes[entry[a]].parts[part]
      BY <2>1, <2>6, <3>4, <3>6 DEF CheckedHolds, artifactVars
    <3>. QED  BY <3>2, <3>7 DEF IsRight
  <2>11. DOMAIN reader'.checked = 1 .. reader.next
    BY <2>3, <2>6
  <2>12. ReadingHolds'
    BY <2>6 DEF ReadingHolds
  <2>. QED
    BY <2>2, <2>3, <2>6, <2>8, <2>9, <2>10, <2>11, <2>12 DEF SnapshotInv, AllVerified
<1>8. CASE CheckEntry
  <2>. DEFINE at == IF reader.next = 2 THEN "returned" ELSE "checking"
  <2>1. /\ reader.at = "checking" /\ StillUnchanged(reader.next) /\ UNCHANGED artifactVars
        /\ reader' = [reader EXCEPT !.at = at, !.next = 2]
    BY <1>8 DEF CheckEntry
  <2>2. /\ reader'.at = at /\ reader'.next = 2 /\ reader'.checked = reader.checked
        /\ reader'.together = reader.together
    BY <1>0, <2>1 DEF SnapshotTypes, Readers
  <2>3. SnapshotTypes'
    <3>1. at \in {"returned", "checking"} /\ 2 \in Artifacts
      BY DEF Artifacts
    <3>. HIDE DEF at
    <3>. reader' \in Readers
      BY <1>b, <2>1, <3>1 DEF Readers
    <3>. QED  BY <1>c, <2>1
  <2>4. ChecksWillTell'
    <3>1. reader.next \in {1, 2}
      BY <1>0 DEF SnapshotTypes, Readers, Artifacts
    <3>2. ASSUME NEW a \in Artifacts PROVE StillUnchanged(a)' <=> StillUnchanged(a)
      BY <2>1, <2>2 DEF StillUnchanged, Signature, artifactVars
    <3>3. ~ reader.together =>
            \E a \in Artifacts : a >= reader.next /\ a # reader.next /\ ~ StillUnchanged(a)
      BY <2>1 DEF SnapshotInv, ChecksWillTell
    <3>. QED
      BY <2>2, <3>1, <3>2, <3>3 DEF ChecksWillTell, Artifacts
  <2>. QED
    BY <2>1, <2>2, <2>3, <2>4
    DEF SnapshotInv, ReadingHolds, CheckedHolds, Taken, artifactVars, AllVerified
<1>. QED
  BY <1>1, <1>2, <1>3, <1>4, <1>5, <1>6, <1>7, <1>8 DEF StoreStage, StoreStep

-----------------------------------------------------------------------------
(* The reviews *)

Entries == [decision : Decisions, by : Reviewers]
Chains  == Seq(Entries)

ReviewTypes ==
  /\ reviews \in Directories(Indices, Chains)
  /\ reviewing \in [Reviewers ->
       [at : {"idle", "scanned", "admitted", "linked"},
        decision : Decisions \cup {"none"}, pin : Chains]]
  /\ reviewed \subseteq Chains

(* A reviewer under way appends to what it found, which is still there. *)
Reviewing(r) ==
  reviewing[r].at # "idle" =>
    /\ reviewing[r].decision \in Decisions
    /\ Len(reviewing[r].pin) \in Indices
    /\ Len(reviewing[r].pin) = 1 => reviews.seen[0] = Written(reviewing[r].pin)
    /\ reviewing[r].at = "linked" =>
         reviews.seen[Len(reviewing[r].pin)] = Written(HeadOf(r))

ReviewSettled(head) ==
  /\ Len(head) \in 1 .. 2
  /\ Settled(reviews, Len(head) - 1, head)
  /\ Len(head) = 2 => Settled(reviews, 0, SubSeq(head, 1, 1))

ReviewInv ==
  /\ ReviewTypes
  /\ \A r \in Reviewers : Reviewing(r)
  /\ \A head \in reviewed : ReviewSettled(head)

LEMMA ReviewInitially ==
  ASSUME ReviewInit PROVE ReviewInv
<1>1. reviews \in Directories(Indices, Chains)
  BY FreshDirectory DEF ReviewInit
<1>2. <<>> \in Chains
  BY DEF Chains
<1>. QED
  BY <1>1, <1>2 DEF ReviewInit, ReviewInv, ReviewTypes, Reviewing, NoReview

LEMMA SettledReviewsStay ==
  ASSUME ReviewTypes, NEW after, Keeps(reviews, after, Indices, Chains),
         NEW head \in Chains, ReviewSettled(head)
  PROVE  /\ Settled(after, Len(head) - 1, head)
         /\ Len(head) = 2 => Settled(after, 0, SubSeq(head, 1, 1))
<1>1. Len(head) - 1 \in Indices /\ 0 \in Indices
  BY DEF ReviewSettled, Indices
<1>2. Len(head) = 2 => SubSeq(head, 1, 1) \in Chains
  BY DEF Chains
<1>. QED
  BY <1>1, <1>2 DEF Keeps, ReviewSettled

(* A scan that is valid found nothing, a first review, or a recommendation and
   its revocation. *)
LEMMA ScannedReviews ==
  ASSUME ReviewTypes, ScanIsValid
  PROVE  /\ ScannedChain \in Chains /\ Found = Len(ScannedChain) /\ Found \in 0 .. 2
         /\ Found # 0 => reviews.seen[Found - 1] = Written(ScannedChain)
         /\ Found = 2 => ScannedChain[2].decision = "revoke"
<1>1. \A i \in Indices : reviews.seen[i] \in Files(Chains)
  BY DEF ReviewTypes, Directories
<1>2. 0 \in Indices /\ 1 \in Indices
  BY DEF Indices
<1>3. ASSUME NEW i \in Indices, Complete(reviews.seen[i])
      PROVE  /\ reviews.seen[i] = Written(reviews.seen[i].bytes)
             /\ reviews.seen[i].bytes \in Chains
  BY <1>1, <1>3, WrittenFiles DEF Files
<1>4. CASE Found = 0
  BY <1>4 DEF ScannedChain, Chains
<1>5. CASE Found = 1
  <2>1. /\ ScannedChain = reviews.seen[0].bytes /\ Complete(reviews.seen[0])
        /\ ScannedChain = SubSeq(ScannedChain, 1, 1)
    BY <1>5 DEF ScannedChain, ScanIsValid
  <2>2. ScannedChain \in Chains /\ reviews.seen[0] = Written(ScannedChain)
    BY <1>2, <1>3, <2>1
  <2>3. Len(ScannedChain) = 1
    <3>. DEFINE chain == ScannedChain
    <3>1. chain \in Seq(Entries) /\ chain = SubSeq(chain, 1, 1)
      BY <2>1, <2>2 DEF Chains
    <3>. HIDE DEF chain
    <3>2. Len(chain) = 1
      BY <3>1
    <3>. QED  BY <3>2 DEF chain
  <2>. QED  BY <1>5, <2>2, <2>3
<1>6. CASE Found = 2
  <2>1. /\ ScannedChain = reviews.seen[1].bytes /\ Complete(reviews.seen[1])
        /\ ScannedChain = SubSeq(ScannedChain, 1, 2) /\ Legal(ScannedChain)
    BY <1>6 DEF ScannedChain, ScanIsValid
  <2>2. ScannedChain \in Chains /\ reviews.seen[1] = Written(ScannedChain)
    BY <1>2, <1>3, <2>1
  <2>3. Len(ScannedChain) = 2
    <3>. DEFINE chain == ScannedChain
    <3>1. chain \in Seq(Entries) /\ chain = SubSeq(chain, 1, 2)
      BY <2>1, <2>2 DEF Chains
    <3>. HIDE DEF chain
    <3>2. Len(chain) = 2
      BY <3>1
    <3>. QED  BY <3>2 DEF chain
  <2>4. ScannedChain[2].decision = "revoke"
    BY <2>1, <2>3 DEF Legal
  <2>. QED  BY <1>6, <2>2, <2>3, <2>4
<1>. QED
  BY <1>4, <1>5, <1>6 DEF Found

LEMMA HeadIsChain ==
  ASSUME ReviewTypes, NEW r \in Reviewers, Reviewing(r), reviewing[r].at # "idle"
  PROVE  /\ HeadOf(r) \in Chains /\ Len(HeadOf(r)) = Len(reviewing[r].pin) + 1
         /\ SubSeq(HeadOf(r), 1, Len(reviewing[r].pin)) = reviewing[r].pin
<1>. DEFINE pin == reviewing[r].pin
            entry1 == [decision |-> reviewing[r].decision, by |-> r]
<1>1. pin \in Seq(Entries) /\ entry1 \in Entries
  BY DEF ReviewTypes, Reviewing, Chains, Entries
<1>. HIDE DEF pin, entry1
<1>2. /\ Append(pin, entry1) \in Seq(Entries)
      /\ Len(Append(pin, entry1)) = Len(pin) + 1
      /\ SubSeq(Append(pin, entry1), 1, Len(pin)) = pin
  <2>1. Append(pin, entry1) \in Seq(Entries) /\ Len(Append(pin, entry1)) = Len(pin) + 1
    BY <1>1
  <2>. DEFINE front == SubSeq(Append(pin, entry1), 1, Len(pin))
  <2>2. /\ front \in Seq(Entries) /\ Len(front) = Len(pin)
        /\ \A i \in 1 .. Len(pin) : front[i] = pin[i]
    BY <1>1
  <2>. HIDE DEF front
  <2>3. front = pin
    BY <1>1, <2>2, SeqEqual
  <2>. QED  BY <2>1, <2>3 DEF front
<1>. QED
  BY <1>2 DEF HeadOf, Chains, pin, entry1

LEMMA ReviewPreserved ==
  ASSUME ReviewInv, NEW r \in Reviewers, ReviewStep(r)
  PROVE  ReviewInv' /\ Keeps(reviews, reviews', Indices, Chains)
<1>t. /\ ReviewTypes
      /\ \A q \in Reviewers : Reviewing(q)
      /\ \A head \in reviewed : ReviewSettled(head)
  BY DEF ReviewInv
<1>. USE DEF ReviewTypes
<1>0. UNCHANGED reviews => Keeps(reviews, reviews', Indices, Chains)
  BY DEF Keeps
<1>1. ASSUME NEW decision \in Decisions, BeginReview(r, decision)
      PROVE  ReviewInv'
  <2>0. ScanIsValid /\ Admissible(ScannedChain, decision)
    BY <1>1 DEF BeginReview
  <2>. DEFINE chain == ScannedChain
  <2>1. /\ chain \in Chains /\ Len(chain) \in 0 .. 2
        /\ Len(chain) = 1 => reviews.seen[0] = Written(chain)
        /\ Len(chain) = 2 => chain[2].decision = "revoke"
    <3>1. /\ chain \in Chains /\ Found = Len(chain) /\ Found \in 0 .. 2
          /\ Found # 0 => reviews.seen[Found - 1] = Written(chain)
          /\ Found = 2 => chain[2].decision = "revoke"
      BY <1>t, <2>0, ScannedReviews
    <3>. HIDE DEF chain
    <3>. QED  BY <3>1
  <2>2. Len(chain) # 2
    <3>. SUFFICES ASSUME Len(chain) = 2 PROVE FALSE
      OBVIOUS
    <3>1. Admissible(chain, decision)
      BY <2>0
    <3>. HIDE DEF chain
    <3>2. chain # <<>>
      OBVIOUS
    <3>. QED  BY <2>1, <3>1, <3>2 DEF Admissible
  <2>3. /\ reviewing' = [reviewing EXCEPT ![r] =
             [at |-> "scanned", decision |-> decision, pin |-> ScannedChain]]
        /\ UNCHANGED <<reviews, reviewed>>
    BY <1>1 DEF BeginReview
  <2>4. \A q \in Reviewers : Reviewing(q)'
    BY <1>t, <2>1, <2>2, <2>3 DEF Reviewing, HeadOf, Indices
  <2>5. \A head \in reviewed' : ReviewSettled(head)'
    BY <1>t, <2>3 DEF ReviewSettled, Settled
  <2>. HIDE DEF chain
  <2>6. ReviewTypes'
    BY <1>t, <2>1, <2>3 DEF chain
  <2>. QED  BY <2>4, <2>5, <2>6 DEF ReviewInv
<1>2. CASE AdmitReview(r)
  <2>1. /\ reviewing' = [reviewing EXCEPT ![r].at = "admitted"]
        /\ UNCHANGED <<reviews, reviewed>>
        /\ reviewing[r].at = "scanned"
    BY <1>2 DEF AdmitReview
  <2>2. \A q \in Reviewers : Reviewing(q)'
    BY <1>t, <2>1 DEF Reviewing, HeadOf
  <2>3. \A head \in reviewed' : ReviewSettled(head)'
    BY <1>t, <2>1 DEF ReviewSettled, Settled
  <2>4. ReviewTypes'
    BY <1>t, <2>1
  <2>. QED  BY <1>0, <2>1, <2>2, <2>3, <2>4 DEF ReviewInv
<1>3. CASE PublishReview(r)
  <2>. DEFINE index == Len(reviewing[r].pin)
  <2>1. index \in Indices /\ HeadOf(r) \in Chains
    BY <1>t, <1>3, HeadIsChain DEF PublishReview, Reviewing
  <2>2. /\ reviews' = Link(reviews, index, Written(HeadOf(r)))
        /\ Linkable(reviews, index)
        /\ reviewing' = [reviewing EXCEPT ![r].at = "linked"]
        /\ reviewed' = reviewed
    BY <1>3 DEF PublishReview
  <2>. HIDE DEF index
  <2>3. /\ reviews' \in Directories(Indices, Chains)
        /\ reviews'.seen[index] = Written(HeadOf(r))
        /\ \A i \in Indices \ {index} : reviews'.seen[i] = reviews.seen[i]
        /\ Keeps(reviews, reviews', Indices, Chains)
    BY <1>t, <2>1, <2>2, LinkedDirectory
  <2>4. \A q \in Reviewers : HeadOf(q)' = HeadOf(q)
    BY <2>2 DEF HeadOf
  <2>5. reviews.seen[index] = NoFile
    BY <2>2 DEF Linkable
  <2>6. ASSUME NEW q \in Reviewers PROVE Reviewing(q)'
    <3>1. CASE q = r
      <4>1. /\ reviewing'[r].at = "linked" /\ reviewing'[r].pin = reviewing[r].pin
            /\ reviewing'[r].decision = reviewing[r].decision
            /\ reviewing[r].at # "idle"
        BY <1>t, <1>3, <2>2 DEF PublishReview
      <4>2. reviews'.seen[index] = Written(HeadOf(r)')
        BY <2>3, <2>4
      <4>3. /\ reviewing[r].decision \in Decisions /\ Len(reviewing[r].pin) \in Indices
            /\ Len(reviewing[r].pin) = 1 => reviews.seen[0] = Written(reviewing[r].pin)
        BY <1>t, <4>1 DEF Reviewing
      <4>4. Len(reviewing[r].pin) = 1 => reviews'.seen[0] = reviews.seen[0]
        BY <2>3 DEF index, Indices
      <4>. QED  BY <3>1, <4>1, <4>2, <4>3, <4>4 DEF Reviewing, index
    <3>2. CASE q # r
      <4>1. reviewing'[q] = reviewing[q]
        BY <1>t, <2>2, <3>2
      <4>2. \A i \in Indices, bytes \in Chains :
              reviews.seen[i] = Written(bytes) => reviews'.seen[i] = Written(bytes)
        BY <2>3, <2>5, WrittenFiles
      <4>3. Reviewing(q) /\ (reviewing[q].at # "idle" => HeadOf(q) \in Chains)
        BY <1>t, HeadIsChain
      <4>4. reviewing[q].pin \in Chains /\ 0 \in Indices
        BY <1>t DEF Indices
      <4>. QED  BY <2>4, <4>1, <4>2, <4>3, <4>4 DEF Reviewing
    <3>. QED  BY <3>1, <3>2
  <2>7. \A head \in reviewed' : ReviewSettled(head)'
    BY <1>t, <2>2, <2>3, SettledReviewsStay DEF ReviewSettled
  <2>8. ReviewTypes'
    BY <1>t, <2>2, <2>3
  <2>. QED  BY <2>3, <2>6, <2>7, <2>8 DEF ReviewInv
<1>4. CASE AcknowledgeReview(r)
  <2>1. /\ reviews' = SyncDirectory(reviews)
        /\ reviewed' = reviewed \cup {HeadOf(r)}
        /\ reviewing' = [reviewing EXCEPT ![r] = NoReview]
        /\ reviewing[r].at = "linked"
    BY <1>4 DEF AcknowledgeReview
  <2>2. /\ reviews' \in Directories(Indices, Chains)
        /\ reviews'.seen = reviews.seen /\ reviews'.disk = reviews.seen
        /\ Keeps(reviews, reviews', Indices, Chains)
    BY <1>t, <2>1, SyncedDirectory
  <2>3. /\ HeadOf(r) \in Chains /\ Len(HeadOf(r)) = Len(reviewing[r].pin) + 1
        /\ SubSeq(HeadOf(r), 1, Len(reviewing[r].pin)) = reviewing[r].pin
    BY <1>t, <2>1, HeadIsChain
  <2>. PICK head \in Chains : head = HeadOf(r)
    BY <2>3
  <2>4. ReviewSettled(head)'
    <3>1. /\ Len(reviewing[r].pin) \in {0, 1}
          /\ Len(reviewing[r].pin) = 1 => reviews.seen[0] = Written(reviewing[r].pin)
          /\ reviews.seen[Len(reviewing[r].pin)] = Written(head)
      BY <1>t, <2>1 DEF Reviewing, Indices
    <3>2. /\ Len(head) = Len(reviewing[r].pin) + 1
          /\ Len(reviewing[r].pin) = 1 => SubSeq(head, 1, 1) = reviewing[r].pin
      BY <2>3
    <3>3. CASE Len(reviewing[r].pin) = 0
      <4>1. Len(head) = 1
        BY <3>2, <3>3
      <4>. QED  BY <2>2, <3>1, <3>3, <4>1 DEF ReviewSettled, Settled
    <3>4. CASE Len(reviewing[r].pin) = 1
      <4>1. Len(head) = 2 /\ SubSeq(head, 1, 1) = reviewing[r].pin
        BY <3>2, <3>4
      <4>2. reviews'.seen[1] = Written(head) /\ reviews'.disk[1] = Written(head)
        BY <2>2, <3>1, <3>4
      <4>3. /\ reviews'.seen[0] = Written(SubSeq(head, 1, 1))
            /\ reviews'.disk[0] = Written(SubSeq(head, 1, 1))
        BY <2>2, <3>1, <3>4, <4>1
      <4>4. Settled(reviews', Len(head) - 1, head)
        BY <4>1, <4>2 DEF Settled
      <4>5. Settled(reviews', 0, SubSeq(head, 1, 1))
        BY <4>3 DEF Settled
      <4>. QED  BY <4>1, <4>4, <4>5 DEF ReviewSettled
    <3>. QED  BY <3>1, <3>3, <3>4
  <2>5. \A other \in reviewed' : ReviewSettled(other)'
    <3>1. \A other \in reviewed : ReviewSettled(other)'
      BY <1>t, <2>2, SettledReviewsStay DEF ReviewSettled
    <3>. QED  BY <2>1, <2>4, <3>1
  <2>6. \A q \in Reviewers : Reviewing(q)'
    BY <1>t, <2>1, <2>2 DEF Reviewing, HeadOf, NoReview
  <2>7. ReviewTypes'
    BY <1>t, <2>1, <2>2, <2>3 DEF NoReview, Chains
  <2>. QED  BY <2>2, <2>5, <2>6, <2>7 DEF ReviewInv
<1>5. CASE StopReview(r)
  <2>1. reviewing' = [reviewing EXCEPT ![r] = NoReview] /\ UNCHANGED <<reviews, reviewed>>
    BY <1>5 DEF StopReview
  <2>2. \A q \in Reviewers : Reviewing(q)'
    BY <1>t, <2>1 DEF Reviewing, HeadOf, NoReview
  <2>3. \A head \in reviewed' : ReviewSettled(head)'
    BY <1>t, <2>1 DEF ReviewSettled, Settled
  <2>4. ReviewTypes'
    BY <1>t, <2>1 DEF NoReview, Chains
  <2>. QED  BY <1>0, <2>1, <2>2, <2>3, <2>4 DEF ReviewInv
<1>. QED
  BY <1>0, <1>1, <1>2, <1>3, <1>4, <1>5
  DEF ReviewStep, BeginReview, AdmitReview, StopReview

LEMMA ReviewSurvives ==
  ASSUME ReviewInv, ReviewPowerLoss
  PROVE  ReviewInv'
<1>1. /\ reviews' \in Directories(Indices, Chains)
      /\ Keeps(reviews, reviews', Indices, Chains)
  BY SurvivingDirectory DEF ReviewPowerLoss, ReviewInv, ReviewTypes
<1>2. ReviewTypes'
  BY <1>1 DEF ReviewPowerLoss, ReviewInv, ReviewTypes, NoReview, Chains
<1>3. \A r \in Reviewers : Reviewing(r)'
  BY DEF ReviewPowerLoss, Reviewing, NoReview
<1>4. \A head \in reviewed' : ReviewSettled(head)'
  <2>1. reviewed' = reviewed /\ reviewed \subseteq Chains
    BY DEF ReviewPowerLoss, ReviewInv, ReviewTypes
  <2>. QED  BY <1>1, <2>1, SettledReviewsStay DEF ReviewInv, ReviewSettled
<1>. QED
  BY <1>2, <1>3, <1>4 DEF ReviewInv

LEMMA ReviewsAreOrdered ==
  ASSUME ReviewInv
  PROVE  /\ Ordered(reviewed)
         /\ \A head \in reviewed : reviews.seen[Len(head) - 1] = Written(head)
<1>1. \A head \in reviewed :
        /\ head \in Seq(Entries) /\ Len(head) \in 1 .. 2
        /\ reviews.seen[Len(head) - 1] = Written(head)
        /\ Len(head) = 2 => reviews.seen[0] = Written(SubSeq(head, 1, 1))
  BY DEF ReviewInv, ReviewTypes, ReviewSettled, Settled, Chains
<1>2. ASSUME NEW a \in reviewed, NEW b \in reviewed, Len(a) <= Len(b)
      PROVE  IsPrefix(a, b)
  <2>1. CASE Len(a) = Len(b)
    <3>1. Written(a) = Written(b)
      BY <1>1, <2>1
    <3>2. a = b
      BY <3>1, WrittenFiles
    <3>. QED  BY <1>1, <3>2 DEF IsPrefix
  <2>2. CASE Len(a) = 1 /\ Len(b) = 2
    <3>1. a = SubSeq(b, 1, 1)
      <4>1. reviews.seen[0] = Written(a)
        <5>1. reviews.seen[Len(a) - 1] = Written(a) /\ Len(a) - 1 = 0
          BY <1>1, <2>2
        <5>. QED  BY <5>1
      <4>2. reviews.seen[0] = Written(SubSeq(b, 1, 1))
        BY <1>1, <2>2
      <4>. QED  BY <4>1, <4>2, WrittenFiles
    <3>2. a = SubSeq(a, 1, 1)
      <4>1. a \in Seq(Entries)
        BY <1>1
      <4>. QED  BY <2>2, <4>1, SubSeqFull
    <3>. QED  BY <2>2, <3>1, <3>2 DEF IsPrefix
  <2>. QED  BY <1>1, <1>2, <2>1, <2>2
<1>3. \A a, b \in reviewed : Len(a) <= Len(b) \/ Len(b) <= Len(a)
  BY <1>1
<1>. QED
  BY <1>1, <1>2, <1>3 DEF Ordered

-----------------------------------------------------------------------------
(* The development selection *)

StateEntries == [transition : {"initialize", "adopt", "revert"}, review : Chains]
Histories    == Seq(StateEntries)
Items        == [name : {"baseline", "candidate"} \cup States, bytes : Histories]

Writing == {"writing", "written", "linked", "removing", "removed"}

Calls ==
  [at : {"idle", "loaded", "scanned"} \cup Writing,
   op : Operations \cup {"none", "initialize"},
   states : Histories, reviews : Chains, queue : Seq(Items),
   failed : BOOLEAN, late : BOOLEAN]

SelectionTypes ==
  /\ store \in Directories(StoreNames, Histories)
  /\ selecting \in [Developers -> Calls]
  /\ selected \subseteq Histories

(* The first n states of a history are the files processes see. *)
FilesHold(dir, history, n) ==
  \A i \in 1 .. n : dir.seen[StateName[i]] = Written(SubSeq(history, 1, i))

Published(item) == store.seen[item.name] = Written(item.bytes)

(* The call of the lock's holder extends the history it loaded, file by file,
   and its last file is the whole of it. *)
Selecting(d) ==
  LET call == selecting[d] IN
  call.at # "idle" =>
    /\ holder = d /\ created
    /\ Len(call.states) \in 1 .. 3
    /\ call.at \notin Writing =>
         /\ FilesHold(store, call.states, Len(call.states))
         /\ call.op = "adopt" => Len(call.states) = 1
    /\ call.at \in Writing =>
         /\ FilesHold(store, call.states, Len(call.states) - 1)
         /\ call.queue # <<>>
         /\ Last(call.queue) =
              [name |-> StateName[Len(call.states)], bytes |-> call.states]
    /\ call.at = "written" => store.seen[d] = Written(Head(call.queue).bytes)
    /\ call.at \in {"linked", "removing", "removed"} /\ ~ call.failed =>
         Published(Head(call.queue))

SelectionSettled(head) ==
  /\ Len(head) \in 1 .. 3
  /\ \A i \in 1 .. Len(head) : Settled(store, StateName[i], SubSeq(head, 1, i))

SelectionInv ==
  /\ SelectionTypes
  /\ \A d \in Developers : Selecting(d)
  /\ \A head \in selected : SelectionSettled(head)

LEMMA StateNames ==
  /\ \A i \in 1 .. 3 : StateName[i] \in States
  /\ States \subseteq StoreNames
  /\ \A d \in Developers :
       /\ d \in StoreNames /\ d # Nobody
       /\ d \notin States /\ d \notin {"baseline", "candidate"}
<1>1. States = {"state-0", "state-1", "state-2"}
  BY DEF States, StateName, Range
<1>. QED
  BY <1>1, DevelopersAssumption DEF StateName, StoreNames, Nobody

LEMMA SelectionInitially ==
  ASSUME SelectionInit PROVE SelectionInv
<1>1. store \in Directories(StoreNames, Histories)
  BY FreshDirectory DEF SelectionInit
<1>2. NoSelection \in Calls
  BY DEF NoSelection, Calls, Histories, Chains
<1>. QED
  BY <1>1, <1>2 DEF SelectionInit, SelectionInv, SelectionTypes, Selecting, NoSelection

LEMMA LastOfTail ==
  ASSUME NEW S, NEW s \in Seq(S), s # <<>>, Tail(s) # <<>>
  PROVE  Tail(s) \in Seq(S) /\ Last(Tail(s)) = Last(s)
BY HeadTailProperties DEF Last

LEMMA OnlyOne ==
  ASSUME NEW S, NEW s \in Seq(S), s # <<>>, Tail(s) = <<>>
  PROVE  Head(s) = Last(s)
<1>1. Len(s) = 1
  <2>1. Len(Tail(s)) = Len(s) - 1 /\ Len(s) \in Nat
    BY HeadTailProperties
  <2>2. Len(Tail(s)) = 0
    BY EmptySeq
  <2>. QED  BY <2>1, <2>2
<1>. QED
  BY <1>1 DEF Last

LEMMA AppendKeepsStart ==
  ASSUME NEW S, NEW s \in Seq(S), NEW x \in S, NEW i \in 1 .. Len(s)
  PROVE  SubSeq(Append(s, x), 1, i) = SubSeq(s, 1, i)
<1>. DEFINE u == SubSeq(Append(s, x), 1, i)
            v == SubSeq(s, 1, i)
<1>1. u \in Seq(S) /\ Len(u) = i /\ \A j \in 1 .. i : u[j] = s[j]
  OBVIOUS
<1>2. v \in Seq(S) /\ Len(v) = i /\ \A j \in 1 .. i : v[j] = s[j]
  OBVIOUS
<1>. HIDE DEF u, v
<1>3. u = v
  BY <1>1, <1>2, SeqEqual
<1>. QED
  BY <1>3 DEF u, v

(* What a successful load returns is the history the state files hold. *)
LEMMA LoadedHistory ==
  ASSUME SelectionTypes, Loads
  PROVE  /\ LoadedStates \in Histories
         /\ Len(LoadedStates) \in 1 .. 3
         /\ FilesHold(store, LoadedStates, Len(LoadedStates))
         /\ Last(LoadedStates) \in StateEntries
         /\ Last(LoadedStates).transition = Transitions[Len(LoadedStates)]
<1>. DEFINE P(n) == /\ \A i \in 1 .. n : StateName[i] \in Present(store)
                    /\ n < 3 => StateName[n + 1] \notin Present(store)
<1>1. \E n \in 0 .. 3 : P(n)
  <2>1. CASE StateName[1] \notin Present(store)
    <3>1. P(0)
      BY <2>1
    <3>. QED  BY <3>1
  <2>2. CASE StateName[1] \in Present(store) /\ StateName[2] \notin Present(store)
    <3>1. P(1)
      BY <2>2
    <3>. QED  BY <3>1
  <2>3. CASE /\ StateName[1] \in Present(store) /\ StateName[2] \in Present(store)
             /\ StateName[3] \notin Present(store)
    <3>1. P(2)
      BY <2>3
    <3>. QED  BY <3>1
  <2>4. CASE /\ StateName[1] \in Present(store) /\ StateName[2] \in Present(store)
             /\ StateName[3] \in Present(store)
    <3>1. P(3)
      BY <2>4
    <3>. QED  BY <3>1
  <2>. QED  BY <2>1, <2>2, <2>3, <2>4
<1>2. StatesFound \in 0 .. 3
  BY <1>1 DEF StatesFound
<1>. DEFINE n == StatesFound
            history == LoadedStates
<1>3. n \in 1 .. 3
  BY <1>2 DEF Loads
<1>4. \A i \in 1 .. n :
        /\ Complete(store.seen[StateName[i]])
        /\ store.seen[StateName[i]].bytes = SubSeq(history, 1, i)
        /\ store.seen[StateName[i]].bytes[i].transition = Transitions[i]
  BY DEF Loads
<1>5. \A i \in 1 .. n :
        /\ store.seen[StateName[i]] = Written(SubSeq(history, 1, i))
        /\ SubSeq(history, 1, i) \in Histories
  <2>1. ASSUME NEW i \in 1 .. n
        PROVE  store.seen[StateName[i]] \in Files(Histories)
    BY <1>3, StateNames DEF SelectionTypes, Directories
  <2>2. ASSUME NEW file \in Files(Histories), Complete(file)
        PROVE  file = Written(file.bytes) /\ file.bytes \in Histories
    BY <2>2, WrittenFiles DEF Files
  <2>. QED  BY <1>4, <2>1, <2>2
<1>6. history = SubSeq(history, 1, n) /\ history[n].transition = Transitions[n]
  <2>1. history = store.seen[StateName[n]].bytes
    BY DEF LoadedStates
  <2>2. n \in 1 .. n
    BY <1>3
  <2>. QED  BY <1>4, <2>1, <2>2
<1>7. history \in Histories
  <2>1. n \in 1 .. n
    BY <1>3
  <2>2. SubSeq(history, 1, n) \in Histories
    BY <1>5, <2>1
  <2>. HIDE DEF history, n
  <2>. QED  BY <1>6, <2>2
<1>. HIDE DEF n, history
<1>8. Len(history) = n
  BY <1>3, <1>6, <1>7 DEF Histories
<1>9. history[n] \in StateEntries
  BY <1>3, <1>7, <1>8 DEF Histories
<1>. QED
  BY <1>3, <1>5, <1>6, <1>7, <1>8, <1>9 DEF FilesHold, Last, history

(* Only one developer is in a call; the others stay out of it. *)
LEMMA OthersIdle ==
  ASSUME SelectionInv, NEW d \in Developers, SelectionStep(d),
         NEW e \in Developers, e # d
  PROVE  selecting[e].at = "idle" /\ selecting'[e] = selecting[e]
<1>1. /\ selecting[e].at # "idle" => holder = e /\ created
      /\ selecting[d].at # "idle" => holder = d
      /\ e # Nobody
  BY StateNames DEF SelectionInv, Selecting
<1>2. selecting[d].at # "idle" \/ ~ created \/ holder = Nobody
  BY DEF SelectionStep, InitializeSelection, OpenSelection, ScanApproval, AdoptCandidate,
         ReadCandidate, WriteTemporary, LinkName, SyncName, PublishFails,
         RemoveTemporary, SyncRemoval, StopSelection
<1>3. selecting[e].at = "idle"
  BY <1>1, <1>2
<1>4. selecting \in [Developers -> Calls]
  BY DEF SelectionInv, SelectionTypes
<1>5. selecting' = selecting \/ \E call : selecting' = [selecting EXCEPT ![d] = call]
  <2>1. CASE InitializeSelection(d) \/ (\E op \in Operations : OpenSelection(d, op))
    BY <2>1 DEF InitializeSelection, OpenSelection
  <2>2. CASE ScanApproval(d) \/ AdoptCandidate(d) \/ ReadCandidate(d) \/ StopSelection(d)
    BY <2>2 DEF ScanApproval, AdoptCandidate, ReadCandidate, StopSelection
  <2>3. CASE WriteTemporary(d) \/ LinkName(d) \/ SyncName(d) \/ PublishFails(d)
               \/ RemoveTemporary(d)
    BY <2>3 DEF WriteTemporary, LinkName, SyncName, PublishFails, RemoveTemporary
  <2>4. CASE SyncRemoval(d)
    BY <2>4 DEF SyncRemoval
  <2>. QED  BY <2>1, <2>2, <2>3, <2>4 DEF SelectionStep
<1>. QED
  BY <1>3, <1>4, <1>5

(* A call does not disturb a state file. *)
StateFilesStay ==
  /\ store' \in Directories(StoreNames, Histories)
  /\ \A n \in States, bytes \in Histories :
       /\ store.seen[n] = Written(bytes) => store'.seen[n] = Written(bytes)
       /\ Settled(store, n, bytes) => Settled(store', n, bytes)

LEMMA CallsInProgress ==
  ASSUME SelectionInv, NEW d \in Developers, selecting[d].at \in Writing
  PROVE  /\ selecting[d] \in Calls
         /\ selecting[d].queue \in Seq(Items) /\ selecting[d].queue # <<>>
         /\ Head(selecting[d].queue) \in Items
         /\ Head(selecting[d].queue).name \in StoreNames \ Developers
         /\ Head(selecting[d].queue).bytes \in Histories
<1>1. selecting[d] \in Calls /\ selecting[d].queue # <<>>
  BY DEF SelectionInv, SelectionTypes, Selecting, Writing
<1>2. selecting[d].queue \in Seq(Items)
  BY <1>1 DEF Calls
<1>3. Head(selecting[d].queue) \in Items
  BY <1>1, <1>2
<1>4. Head(selecting[d].queue).name \in {"baseline", "candidate"} \cup States
  BY <1>3 DEF Items
<1>5. Head(selecting[d].queue).name \in StoreNames \ Developers
  BY <1>4, StateNames DEF StoreNames
<1>. QED
  BY <1>1, <1>2, <1>3, <1>5 DEF Items

LEMMA StoreStays ==
  ASSUME SelectionInv, NEW d \in Developers, SelectionStep(d)
  PROVE  StateFilesStay
<1>. USE DEF StateFilesStay
<1>1. store \in Directories(StoreNames, Histories)
  BY DEF SelectionInv, SelectionTypes
<1>2. CASE UNCHANGED store
  BY <1>1, <1>2
<1>3. CASE WriteTemporary(d)
  <2>. DEFINE bytes == Head(selecting[d].queue).bytes
  <2>1. store' = Link(store, d, Written(bytes)) /\ bytes \in Histories
    BY <1>3, CallsInProgress DEF WriteTemporary, Writing
  <2>2. d \in StoreNames /\ d \notin States /\ States \subseteq StoreNames
    BY StateNames
  <2>. HIDE DEF bytes
  <2>3. /\ store' \in Directories(StoreNames, Histories)
        /\ \A n \in StoreNames \ {d} : store'.seen[n] = store.seen[n]
    BY <1>1, <2>1, <2>2, LinkedDirectory
  <2>4. store'.disk = store.disk
    BY <1>1, <2>1 DEF Link, Directories
  <2>. QED  BY <2>2, <2>3, <2>4 DEF Settled
<1>4. CASE LinkName(d)
  <2>. DEFINE item == Head(selecting[d].queue)
  <2>1. /\ store' = Link(store, item.name, Written(item.bytes))
        /\ Linkable(store, item.name)
        /\ item.name \in StoreNames /\ item.bytes \in Histories
    BY <1>4, CallsInProgress DEF LinkName, Writing, SelectionInv, Selecting
  <2>. HIDE DEF item
  <2>2. /\ store' \in Directories(StoreNames, Histories)
        /\ \A n \in StoreNames \ {item.name} : store'.seen[n] = store.seen[n]
        /\ Keeps(store, store', StoreNames, Histories)
    BY <1>1, <2>1, LinkedDirectory
  <2>3. store.seen[item.name] = NoFile
    BY <2>1 DEF Linkable
  <2>. QED  BY <2>2, <2>3, StateNames, WrittenFiles DEF Keeps
<1>5. CASE SyncName(d) \/ SyncRemoval(d)
  <2>1. store' = SyncDirectory(store)
    BY <1>5 DEF SyncName, SyncRemoval
  <2>. QED  BY <1>1, <2>1, SyncedDirectory, StateNames DEF Keeps
<1>6. CASE RemoveTemporary(d)
  <2>1. store' = Unlink(store, d) /\ d \in StoreNames /\ d \notin States
    BY <1>6, StateNames DEF RemoveTemporary
  <2>2. /\ store' \in Directories(StoreNames, Histories)
        /\ \A n \in StoreNames \ {d} : store'.seen[n] = store.seen[n]
        /\ store'.disk = store.disk
    BY <1>1, <2>1, UnlinkedDirectory
  <2>. QED  BY <2>1, <2>2, StateNames DEF Settled
<1>. QED
  BY <1>2, <1>3, <1>4, <1>5, <1>6
  DEF SelectionStep, InitializeSelection, OpenSelection, ScanApproval, AdoptCandidate,
      ReadCandidate, PublishFails, StopSelection

LEMMA SettledStatesStay ==
  ASSUME SelectionTypes, StateFilesStay, NEW head \in Histories, SelectionSettled(head)
  PROVE  SelectionSettled(head)'
<1>1. Len(head) \in 1 .. 3
  BY DEF SelectionSettled
<1>2. ASSUME NEW i \in 1 .. Len(head)
      PROVE  Settled(store', StateName[i], SubSeq(head, 1, i))
  <2>1. StateName[i] \in States
    <3>. PICK n \in 1 .. 3 : n = Len(head)
      BY <1>1
    <3>0. i \in 1 .. n
      OBVIOUS
    <3>1. i \in 1 .. 3
      BY <3>0
    <3>. QED  BY <3>1, StateNames
  <2>2. SubSeq(head, 1, i) \in Histories
    BY DEF Histories
  <2>. QED  BY <2>1, <2>2 DEF StateFilesStay, SelectionSettled
<1>. QED
  BY <1>1, <1>2 DEF SelectionSettled

LEMMA FilesStillHold ==
  ASSUME StateFilesStay, NEW history \in Histories, NEW n \in 0 .. 3,
         n <= Len(history), FilesHold(store, history, n)
  PROVE  FilesHold(store', history, n)
<1>1. ASSUME NEW i \in 1 .. n
      PROVE  store'.seen[StateName[i]] = Written(SubSeq(history, 1, i))
  <2>1. StateName[i] \in States
    BY StateNames
  <2>2. SubSeq(history, 1, i) \in Histories
    BY DEF Histories
  <2>. QED  BY <2>1, <2>2 DEF StateFilesStay, FilesHold
<1>. QED
  BY <1>1 DEF FilesHold

(* A call that goes on writing: what it extends is still there. *)
LEMMA WritingGoesOn ==
  ASSUME SelectionInv, NEW d \in Developers, StateFilesStay,
         selecting[d].at \in Writing, selecting'[d].at \in Writing,
         UNCHANGED <<holder, created>>,
         selecting'[d].states = selecting[d].states,
         selecting'[d].queue \in Seq(Items), selecting'[d].queue # <<>>,
         Last(selecting'[d].queue) = Last(selecting[d].queue),
         selecting'[d].at = "written" =>
           store'.seen[d] = Written(Head(selecting'[d].queue).bytes),
         selecting'[d].at \in {"linked", "removing", "removed"}
             /\ ~ selecting'[d].failed =>
           Published(Head(selecting[d].queue))'
  PROVE  Selecting(d)'
<1>1. /\ holder = d /\ created /\ Len(selecting[d].states) \in 1 .. 3
      /\ FilesHold(store, selecting[d].states, Len(selecting[d].states) - 1)
      /\ Last(selecting[d].queue) = [name |-> StateName[Len(selecting[d].states)],
                                     bytes |-> selecting[d].states]
  BY DEF SelectionInv, Selecting, Writing
<1>. PICK history \in Histories : history = selecting[d].states
  BY CallsInProgress DEF Calls
<1>2. Len(history) - 1 \in 0 .. 3 /\ Len(history) - 1 <= Len(history)
  BY <1>1
<1>3. FilesHold(store', history, Len(history) - 1)
  BY <1>1, <1>2, FilesStillHold
<1>4. selecting'[d].states = history
  OBVIOUS
<1>5. FilesHold(store', selecting'[d].states, Len(selecting'[d].states) - 1)
  BY <1>3, <1>4
<1>6. /\ holder' = d /\ created' /\ Len(selecting'[d].states) \in 1 .. 3
      /\ Last(selecting'[d].queue) = [name |-> StateName[Len(selecting'[d].states)],
                                     bytes |-> selecting'[d].states]
  BY <1>1, <1>4
<1>. QED
  BY <1>5, <1>6 DEF Selecting, Published

(* A call that begins to write a history of which only the last state is new. *)
LEMMA WritingBegins ==
  ASSUME NEW d \in Developers, NEW history \in Histories, Len(history) \in 1 .. 3,
         holder' = d, created', selecting'[d].at = "writing",
         selecting'[d].states = history, FilesHold(store', history, Len(history) - 1),
         selecting'[d].queue # <<>>,
         Last(selecting'[d].queue) =
           [name |-> StateName[Len(history)], bytes |-> history]
  PROVE  Selecting(d)'
BY DEF Selecting, Writing

LEMMA StoredItem ==
  ASSUME NEW name \in {"baseline", "candidate"} \cup States, NEW bytes \in Histories
  PROVE  /\ Stores(name, bytes) \in Seq(Items) /\ Stores(name, bytes) # <<>>
         /\ Len(Stores(name, bytes)) = 1
         /\ Last(Stores(name, bytes)) = [name |-> name, bytes |-> bytes]
<1>. PICK item \in Items : item = [name |-> name, bytes |-> bytes]
  BY DEF Items
<1>1. Stores(name, bytes) = <<item>>
  BY DEF Stores
<1>2. <<item>> \in Seq(Items) /\ <<item>> # <<>> /\ Len(<<item>>) = 1 /\ <<item>>[1] = item
  OBVIOUS
<1>. QED
  BY <1>1, <1>2 DEF Last

LEMMA LastOfConcat ==
  ASSUME NEW S, NEW s \in Seq(S), NEW t \in Seq(S), t # <<>>
  PROVE  s \o t \in Seq(S) /\ s \o t # <<>> /\ Last(s \o t) = Last(t)
BY ConcatProperties DEF Last

LEMMA ExtendedHistory ==
  ASSUME NEW history \in Histories, NEW transition \in {"adopt", "revert"},
         NEW review \in Chains
  PROVE  LET extended == Append(history, State(transition, review))
         IN /\ extended \in Histories /\ Len(extended) = Len(history) + 1
            /\ Last(extended).transition = transition
            /\ \A i \in 1 .. Len(history) : SubSeq(extended, 1, i) = SubSeq(history, 1, i)
<1>. PICK entry1 \in StateEntries : entry1 = State(transition, review)
  BY DEF State, StateEntries
<1>1. entry1.transition = transition
  BY DEF State
<1>2. history \in Seq(StateEntries)
  BY DEF Histories
<1>3. /\ Append(history, entry1) \in Seq(StateEntries)
      /\ Len(Append(history, entry1)) = Len(history) + 1
      /\ Append(history, entry1)[Len(history) + 1] = entry1
  BY <1>2
<1>. QED
  BY <1>1, <1>2, <1>3, AppendKeepsStart DEF Histories, Last

LEMMA ExtensionHolds ==
  ASSUME NEW dir, NEW history \in Histories, NEW extended \in Histories,
         Len(extended) = Len(history) + 1, FilesHold(dir, history, Len(history)),
         \A i \in 1 .. Len(history) : SubSeq(extended, 1, i) = SubSeq(history, 1, i)
  PROVE  FilesHold(dir, extended, Len(extended) - 1)
<1>1. Len(extended) - 1 = Len(history)
  BY DEF Histories
<1>. QED
  BY <1>1 DEF FilesHold

LEMMA TransitionOrder ==
  \A n \in 1 .. 3 : /\ Transitions[n] = "initialize" => n = 1
                    /\ Transitions[n] = "adopt" => n = 2
<1>1. \A n \in 1 .. 3 : n = 1 \/ n = 2 \/ n = 3
  OBVIOUS
<1>. QED
  BY <1>1 DEF Transitions

LEMMA SelectionPreserved ==
  ASSUME SelectionInv, ReviewTypes, NEW d \in Developers, SelectionStep(d)
  PROVE  SelectionInv'
<1>1. /\ SelectionTypes /\ StateFilesStay
      /\ Selecting(d) /\ selecting[d] \in Calls
      /\ \A head \in selected : SelectionSettled(head)
  BY StoreStays DEF SelectionInv, SelectionTypes
<1>2. /\ selecting \in [Developers -> Calls] /\ selected \subseteq Histories
      /\ store' \in Directories(StoreNames, Histories)
  BY <1>1 DEF SelectionTypes, StateFilesStay
<1>3. NoSelection \in Calls /\ NoSelection.at = "idle"
  BY DEF NoSelection, Calls, Histories, Chains
<1>4. \A head \in selected : SelectionSettled(head)'
  BY <1>1, <1>2, SettledStatesStay
<1>5. \A e \in Developers \ {d} : Selecting(e)'
  BY OthersIdle DEF Selecting
(* It is left to look at the call itself and at what it returns. *)
<1>. SUFFICES /\ selecting' \in [Developers -> Calls]
              /\ Selecting(d)'
              /\ \A head \in selected' : head \in Histories /\ SelectionSettled(head)'
  BY <1>2, <1>5 DEF SelectionInv, SelectionTypes
<1>6. ASSUME selecting' = [selecting EXCEPT ![d] = NoSelection]
      PROVE  selecting' \in [Developers -> Calls] /\ Selecting(d)'
  BY <1>2, <1>3, <1>6 DEF Selecting
<1>7. CASE InitializeSelection(d)
  <2>. PICK first \in Histories :
         /\ first = <<State("initialize", <<>>)>> /\ Len(first) = 1
    <3>0. <<>> \in Chains
      BY DEF Chains
    <3>. PICK entry1 \in StateEntries : entry1 = State("initialize", <<>>)
      BY <3>0 DEF State, StateEntries
    <3>1. <<entry1>> \in Seq(StateEntries) /\ Len(<<entry1>>) = 1
      OBVIOUS
    <3>. QED  BY <3>1 DEF Histories
  <2>. DEFINE queue == Stores("baseline", <<>>) \o Stores("candidate", <<>>)
                         \o Stores("state-0", first)
              call == [NewCall(d, "initialize") EXCEPT
                         !.at = "writing", !.states = first, !.queue = queue]
  <2>1. /\ selecting' = [selecting EXCEPT ![d] = call]
        /\ created' = TRUE /\ holder' = d /\ selected' = selected
    BY <1>7 DEF InitializeSelection
  <2>2. /\ queue \in Seq(Items) /\ queue # <<>>
        /\ Last(queue) = [name |-> StateName[1], bytes |-> first]
    <3>1. <<>> \in Histories
      BY DEF Histories
    <3>2. StateName[1] = "state-0" /\ "state-0" \in States
      BY StateNames DEF StateName
    <3>3. /\ Stores("state-0", first) \in Seq(Items) /\ Stores("state-0", first) # <<>>
          /\ Last(Stores("state-0", first)) = [name |-> StateName[1], bytes |-> first]
      BY <3>2, StoredItem
    <3>4. Stores("baseline", <<>>) \o Stores("candidate", <<>>) \in Seq(Items)
      BY <3>1, StoredItem, LastOfConcat
    <3>. QED  BY <3>3, <3>4, LastOfConcat
  <2>. HIDE DEF queue
  <2>3. /\ call \in Calls /\ call.at = "writing" /\ call.states = first
        /\ call.queue = queue
    BY <1>3, <2>2 DEF NewCall, NoSelection, Calls, Writing, Operations
  <2>. HIDE DEF call
  <2>4. /\ selecting' \in [Developers -> Calls] /\ selecting'[d] = call
    BY <1>2, <2>1, <2>3
  <2>5. FilesHold(store', first, Len(first) - 1)
    BY DEF FilesHold
  <2>6. /\ Len(first) \in 1 .. 3 /\ holder' = d /\ created'
        /\ selecting'[d].at = "writing" /\ selecting'[d].states = first
        /\ selecting'[d].queue # <<>>
        /\ Last(selecting'[d].queue) =
             [name |-> StateName[Len(first)], bytes |-> first]
    BY <2>1, <2>2, <2>3, <2>4
  <2>7. Selecting(d)'
    BY <2>5, <2>6, WritingBegins
  <2>. QED  BY <1>2, <1>4, <2>1, <2>4, <2>7
<1>8. ASSUME NEW op \in Operations, OpenSelection(d, op)
      PROVE  /\ selecting' \in [Developers -> Calls] /\ Selecting(d)'
             /\ selected' = selected
  <2>. PICK history \in Histories :
         /\ history = LoadedStates /\ Len(history) \in 1 .. 3
         /\ FilesHold(store, history, Len(history))
         /\ Last(history) \in StateEntries
         /\ Last(history).transition = Transitions[Len(history)]
    BY <1>1, <1>8, LoadedHistory DEF OpenSelection
  <2>. DEFINE call == [NewCall(d, op) EXCEPT !.states = history]
              reverted == Append(history, State("revert", Last(history).review))
              writing == [call EXCEPT !.at = "writing", !.states = reverted,
                                      !.queue = Stores("state-2", reverted)]
  <2>1. /\ UNCHANGED <<store, created, selected>> /\ created
        /\ \/ UNCHANGED <<selecting, holder>>
           \/ /\ selecting' = [selecting EXCEPT ![d] = [call EXCEPT !.at = "loaded"]]
              /\ holder' = d
              /\ op = "adopt" => Last(history).transition = "initialize"
           \/ /\ selecting' = [selecting EXCEPT ![d] = writing]
              /\ holder' = d
              /\ Last(history).transition = "adopt"
    BY <1>8 DEF OpenSelection
  <2>2. FilesHold(store', history, Len(history))
    BY <2>1 DEF FilesHold
  <2>3. CASE UNCHANGED <<selecting, holder>>
    BY <1>1, <1>2, <2>1, <2>3 DEF Selecting, FilesHold, Published
  <2>4. CASE /\ selecting' = [selecting EXCEPT ![d] = [call EXCEPT !.at = "loaded"]]
             /\ holder' = d
             /\ op = "adopt" => Last(history).transition = "initialize"
    <3>1. op = "adopt" => Len(history) = 1
      BY <2>4, TransitionOrder
    <3>2. /\ [call EXCEPT !.at = "loaded"] \in Calls
          /\ [call EXCEPT !.at = "loaded"].states = history
          /\ [call EXCEPT !.at = "loaded"].op = op
          /\ [call EXCEPT !.at = "loaded"].at = "loaded"
      BY <1>3 DEF NewCall, NoSelection, Calls
    <3>. HIDE DEF call
    <3>3. /\ selecting' \in [Developers -> Calls]
          /\ selecting'[d].states = history /\ selecting'[d].op = op
          /\ selecting'[d].at = "loaded"
      BY <1>2, <2>4, <3>2
    <3>. QED  BY <2>1, <2>2, <2>4, <3>1, <3>3 DEF Selecting, Writing, FilesHold
  <2>5. CASE /\ selecting' = [selecting EXCEPT ![d] = writing]
             /\ holder' = d
             /\ Last(history).transition = "adopt"
    <3>1. Len(history) = 2
      BY <2>5, TransitionOrder
    <3>2. /\ reverted \in Histories /\ Len(reverted) = 3
          /\ Len(reverted) = Len(history) + 1
          /\ \A i \in 1 .. Len(history) :
               SubSeq(reverted, 1, i) = SubSeq(history, 1, i)
      <4>1. Last(history).review \in Chains
        BY DEF StateEntries
      <4>2. /\ reverted \in Histories /\ Len(reverted) = Len(history) + 1
            /\ \A i \in 1 .. Len(history) :
                 SubSeq(reverted, 1, i) = SubSeq(history, 1, i)
        BY <4>1, ExtendedHistory
      <4>. QED  BY <3>1, <4>2
    <3>. HIDE DEF reverted
    <3>3. /\ Stores("state-2", reverted) \in Seq(Items)
          /\ Stores("state-2", reverted) # <<>>
          /\ Last(Stores("state-2", reverted)) =
               [name |-> StateName[3], bytes |-> reverted]
      <4>1. StateName[3] = "state-2" /\ "state-2" \in States
        BY StateNames DEF StateName
      <4>. QED  BY <3>2, <4>1, StoredItem
    <3>4. /\ writing \in Calls /\ writing.states = reverted /\ writing.at = "writing"
          /\ writing.queue = Stores("state-2", reverted)
      BY <1>3, <3>2, <3>3 DEF NewCall, NoSelection, Calls, Writing
    <3>. HIDE DEF writing
    <3>5. selecting' \in [Developers -> Calls] /\ selecting'[d] = writing
      BY <1>2, <2>5, <3>4
    <3>6. FilesHold(store', reverted, Len(reverted) - 1)
      <4>1. FilesHold(store', history, Len(history))
        BY <2>1, <2>2
      <4>. QED  BY <3>2, <4>1, ExtensionHolds
    <3>7. /\ Len(reverted) \in 1 .. 3 /\ holder' = d /\ created'
          /\ selecting'[d].at = "writing" /\ selecting'[d].states = reverted
          /\ selecting'[d].queue # <<>>
          /\ Last(selecting'[d].queue) =
               [name |-> StateName[Len(reverted)], bytes |-> reverted]
      BY <2>1, <2>5, <3>2, <3>3, <3>4, <3>5
    <3>8. Selecting(d)'
      BY <3>2, <3>6, <3>7, WritingBegins
    <3>. QED  BY <2>1, <3>5, <3>8
  <2>. QED  BY <2>1, <2>3, <2>4, <2>5
<1>9. CASE ScanApproval(d)
  <2>1. /\ selecting' = [selecting EXCEPT ![d].at = "scanned",
                                          ![d].reviews = ScannedChain]
        /\ UNCHANGED <<store, created, holder, selected>>
        /\ selecting[d].at = "loaded" /\ ScannedChain \in Chains
    BY <1>9, ScannedReviews DEF ScanApproval
  <2>2. /\ selecting' \in [Developers -> Calls]
        /\ selecting'[d].at = "scanned" /\ selecting'[d].op = selecting[d].op
        /\ selecting'[d].states = selecting[d].states
    BY <1>2, <2>1 DEF Calls
  <2>. QED  BY <1>1, <1>4, <1>2, <2>1, <2>2 DEF Selecting, Writing, FilesHold
<1>10. CASE AdoptCandidate(d)
  <2>. PICK history \in Histories : history = selecting[d].states
    BY <1>1 DEF Calls
  <2>. DEFINE adopted == Append(history, State("adopt", selecting[d].reviews))
  <2>1. /\ selecting' = [selecting EXCEPT ![d].at = "writing", ![d].states = adopted,
                                          ![d].queue = Stores("state-1", adopted)]
        /\ UNCHANGED <<store, created, holder, selected>>
        /\ selecting[d].at = "scanned" /\ selecting[d].op = "adopt"
    BY <1>10 DEF AdoptCandidate
  <2>2. /\ holder = d /\ created /\ Len(history) = 1 /\ FilesHold(store, history, 1)
    BY <1>1, <2>1 DEF Selecting, Writing
  <2>3. /\ adopted \in Histories /\ Len(adopted) = 2
        /\ Len(adopted) = Len(history) + 1
        /\ \A i \in 1 .. Len(history) :
             SubSeq(adopted, 1, i) = SubSeq(history, 1, i)
    <3>1. selecting[d].reviews \in Chains
      BY <1>1 DEF Calls
    <3>2. /\ adopted \in Histories /\ Len(adopted) = Len(history) + 1
          /\ \A i \in 1 .. Len(history) :
               SubSeq(adopted, 1, i) = SubSeq(history, 1, i)
      BY <3>1, ExtendedHistory
    <3>. QED  BY <2>2, <3>2
  <2>. HIDE DEF adopted
  <2>4. /\ Stores("state-1", adopted) \in Seq(Items)
        /\ Stores("state-1", adopted) # <<>>
        /\ Last(Stores("state-1", adopted)) = [name |-> StateName[2], bytes |-> adopted]
    <3>1. StateName[2] = "state-1" /\ "state-1" \in States
      BY StateNames DEF StateName
    <3>. QED  BY <2>3, <3>1, StoredItem
  <2>5. /\ selecting' \in [Developers -> Calls]
        /\ selecting'[d].states = adopted /\ selecting'[d].at = "writing"
        /\ selecting'[d].queue = Stores("state-1", adopted)
    <3>. DEFINE call == [selecting[d] EXCEPT !.at = "writing", !.states = adopted,
                                             !.queue = Stores("state-1", adopted)]
    <3>1. selecting' = [selecting EXCEPT ![d] = call]
      BY <1>2, <2>1
    <3>2. /\ call \in Calls /\ call.states = adopted /\ call.at = "writing"
          /\ call.queue = Stores("state-1", adopted)
      BY <1>1, <2>3, <2>4 DEF Calls, Writing
    <3>. HIDE DEF call
    <3>. QED  BY <1>2, <3>1, <3>2
  <2>6. FilesHold(store', adopted, Len(adopted) - 1)
    <3>1. FilesHold(store', history, Len(history))
      BY <2>1, <2>2
    <3>. QED  BY <2>3, <3>1, ExtensionHolds
  <2>7. /\ Len(adopted) \in 1 .. 3 /\ holder' = d /\ created'
        /\ selecting'[d].at = "writing" /\ selecting'[d].states = adopted
        /\ selecting'[d].queue # <<>>
        /\ Last(selecting'[d].queue) =
             [name |-> StateName[Len(adopted)], bytes |-> adopted]
    BY <2>1, <2>2, <2>3, <2>4, <2>5
  <2>8. Selecting(d)'
    BY <2>3, <2>6, <2>7, WritingBegins
  <2>. QED  BY <1>2, <1>4, <2>1, <2>5, <2>8
<1>11. CASE ReadCandidate(d) \/ StopSelection(d)
  <2>1. /\ selecting' = [selecting EXCEPT ![d] = NoSelection]
        /\ UNCHANGED <<store, selected>>
    BY <1>11 DEF ReadCandidate, StopSelection
  <2>. QED  BY <1>2, <1>4, <1>6, <2>1
<1>12. CASE WriteTemporary(d)
  <2>1. /\ selecting' = [selecting EXCEPT ![d].at = "written"]
        /\ store' = Link(store, d, Written(Head(selecting[d].queue).bytes))
        /\ selecting[d].at = "writing" /\ UNCHANGED <<created, holder, selected>>
    BY <1>12 DEF WriteTemporary
  <2>2. /\ selecting' \in [Developers -> Calls]
        /\ selecting'[d] = [selecting[d] EXCEPT !.at = "written"]
    BY <1>2, <2>1 DEF Calls, Writing
  <2>3. /\ selecting[d].queue \in Seq(Items) /\ selecting[d].queue # <<>>
        /\ Head(selecting[d].queue).bytes \in Histories
    BY <2>1, CallsInProgress DEF Writing
  <2>4. store'.seen[d] = Written(Head(selecting[d].queue).bytes)
    BY <1>1, <2>1, <2>3, LinkedDirectory, StateNames DEF SelectionTypes
  <2>5. /\ selecting'[d].at = "written" /\ selecting'[d].queue = selecting[d].queue
        /\ selecting'[d].states = selecting[d].states
    BY <1>1, <2>2 DEF Calls
  <2>6. Selecting(d)'
    BY <1>1, <2>1, <2>3, <2>4, <2>5, WritingGoesOn DEF Writing
  <2>. QED  BY <1>2, <1>4, <2>1, <2>2, <2>6
<1>13. CASE LinkName(d)
  <2>. DEFINE item == Head(selecting[d].queue)
  <2>1. /\ selecting' = [selecting EXCEPT ![d].at = "linked"]
        /\ store' = Link(store, item.name, store.seen[d])
        /\ selecting[d].at = "written" /\ UNCHANGED <<created, holder, selected>>
    BY <1>13 DEF LinkName
  <2>2. store.seen[d] = Written(item.bytes)
    BY <1>1, <2>1 DEF Selecting
  <2>3. /\ selecting' \in [Developers -> Calls]
        /\ selecting'[d] = [selecting[d] EXCEPT !.at = "linked"]
    BY <1>2, <2>1 DEF Calls, Writing
  <2>4. /\ selecting[d].queue \in Seq(Items) /\ selecting[d].queue # <<>>
        /\ item.bytes \in Histories /\ item.name \in StoreNames
    BY <2>1, CallsInProgress DEF Writing
  <2>5. store'.seen[item.name] = Written(item.bytes)
    <3>. HIDE DEF item
    <3>. QED  BY <1>1, <2>1, <2>2, <2>4, LinkedDirectory DEF SelectionTypes
  <2>6. /\ selecting'[d].at = "linked" /\ selecting'[d].queue = selecting[d].queue
        /\ selecting'[d].states = selecting[d].states
    BY <1>1, <2>3 DEF Calls
  <2>7. Published(Head(selecting[d].queue))'
    BY <2>5, <2>6 DEF Published
  <2>8. Selecting(d)'
    BY <1>1, <2>1, <2>4, <2>6, <2>7, WritingGoesOn DEF Writing
  <2>. QED  BY <1>2, <1>4, <2>1, <2>3, <2>8
<1>14. CASE SyncName(d) \/ PublishFails(d) \/ RemoveTemporary(d)
  <2>1. /\ selecting[d].at \in {"written", "linked", "removing"}
        /\ UNCHANGED <<created, holder, selected>>
        /\ \/ /\ selecting' = [selecting EXCEPT ![d].at = "removing", ![d].failed = TRUE]
              /\ UNCHANGED store
           \/ /\ selecting' = [selecting EXCEPT ![d].at = "removing"]
              /\ selecting[d].at = "linked" /\ store' = SyncDirectory(store)
           \/ /\ selecting' = [selecting EXCEPT ![d].at = "removed"]
              /\ selecting[d].at = "removing" /\ store' = Unlink(store, d)
    BY <1>14 DEF SyncName, PublishFails, RemoveTemporary
  <2>2. /\ selecting' \in [Developers -> Calls]
        /\ selecting'[d].at \in {"removing", "removed"}
        /\ selecting'[d].queue = selecting[d].queue
        /\ selecting'[d].states = selecting[d].states
        /\ \/ selecting'[d].failed
           \/ /\ selecting'[d].failed = selecting[d].failed
              /\ selecting[d].at \in {"linked", "removing"}
              /\ store' = SyncDirectory(store) \/ store' = Unlink(store, d)
    <3>1. ASSUME NEW call \in Calls, selecting' = [selecting EXCEPT ![d] = call]
          PROVE  selecting' \in [Developers -> Calls] /\ selecting'[d] = call
      BY <1>2, <3>1
    <3>2. CASE selecting' = [selecting EXCEPT ![d].at = "removing", ![d].failed = TRUE]
      <4>. DEFINE call == [selecting[d] EXCEPT !.at = "removing", !.failed = TRUE]
      <4>1. selecting' = [selecting EXCEPT ![d] = call]
        BY <1>2, <3>2
      <4>2. /\ call \in Calls /\ call.at = "removing" /\ call.failed = TRUE
            /\ call.queue = selecting[d].queue /\ call.states = selecting[d].states
        BY <1>1 DEF Calls, Writing
      <4>. HIDE DEF call
      <4>. QED  BY <3>1, <4>1, <4>2
    <3>3. ASSUME NEW at \in {"removing", "removed"},
                 selecting' = [selecting EXCEPT ![d].at = at]
          PROVE  /\ selecting' \in [Developers -> Calls] /\ selecting'[d].at = at
                 /\ selecting'[d].queue = selecting[d].queue
                 /\ selecting'[d].states = selecting[d].states
                 /\ selecting'[d].failed = selecting[d].failed
      <4>. DEFINE call == [selecting[d] EXCEPT !.at = at]
      <4>1. selecting' = [selecting EXCEPT ![d] = call]
        BY <1>2, <3>3
      <4>2. /\ call \in Calls /\ call.at = at /\ call.failed = selecting[d].failed
            /\ call.queue = selecting[d].queue /\ call.states = selecting[d].states
        BY <1>1 DEF Calls, Writing
      <4>. HIDE DEF call
      <4>. QED  BY <3>1, <4>1, <4>2
    <3>. QED  BY <2>1, <3>2, <3>3
  <2>3. /\ selecting[d].queue \in Seq(Items) /\ selecting[d].queue # <<>>
        /\ Head(selecting[d].queue).name \in StoreNames \ Developers
    BY <2>1, CallsInProgress DEF Writing
  <2>4. ASSUME ~ selecting'[d].failed
        PROVE  Published(Head(selecting[d].queue))'
    <3>0. /\ ~ selecting[d].failed /\ selecting[d].at \in {"linked", "removing"}
          /\ store' = SyncDirectory(store) \/ store' = Unlink(store, d)
      BY <2>2, <2>4
    <3>1. Published(Head(selecting[d].queue))
      BY <1>1, <3>0 DEF Selecting
    <3>2. \A n \in StoreNames \ Developers : store'.seen[n] = store.seen[n]
      <4>1. store \in Directories(StoreNames, Histories) /\ d \in StoreNames
        BY <1>1, StateNames DEF SelectionTypes
      <4>2. CASE store' = SyncDirectory(store)
        BY <4>1, <4>2, SyncedDirectory
      <4>3. CASE store' = Unlink(store, d)
        BY <4>1, <4>3, UnlinkedDirectory
      <4>. QED  BY <3>0, <4>2, <4>3
    <3>. QED  BY <2>2, <2>3, <3>1, <3>2 DEF Published
  <2>5. Selecting(d)'
    BY <1>1, <2>1, <2>2, <2>3, <2>4, WritingGoesOn DEF Writing
  <2>. QED  BY <1>2, <1>4, <2>1, <2>2, <2>5
<1>15. CASE SyncRemoval(d)
  <2>1. selecting[d].at = "removed" /\ store' = SyncDirectory(store) /\ created' = created
    BY <1>15 DEF SyncRemoval
  <2>2. /\ selecting[d].queue \in Seq(Items) /\ selecting[d].queue # <<>>
    BY <2>1, CallsInProgress DEF Writing
  <2>3. CASE /\ Tail(selecting[d].queue) # <<>>
             /\ selecting' = [selecting EXCEPT ![d].at = "writing",
                                               ![d].queue = Tail(selecting[d].queue)]
             /\ UNCHANGED <<holder, selected>>
    <3>1. /\ Tail(selecting[d].queue) \in Seq(Items)
          /\ Last(Tail(selecting[d].queue)) = Last(selecting[d].queue)
      BY <2>2, <2>3, LastOfTail
    <3>2. /\ selecting' \in [Developers -> Calls]
          /\ selecting'[d].at = "writing"
          /\ selecting'[d].queue = Tail(selecting[d].queue)
          /\ selecting'[d].states = selecting[d].states
      BY <1>2, <2>3, <3>1 DEF Calls, Writing
    <3>3. Selecting(d)'
      BY <1>1, <2>1, <2>3, <3>1, <3>2, WritingGoesOn DEF Writing
    <3>. QED  BY <1>2, <1>4, <2>3, <3>2, <3>3
  <2>4. CASE /\ ~ selecting[d].failed /\ Tail(selecting[d].queue) = <<>>
             /\ selecting' = [selecting EXCEPT ![d] = NoSelection]
             /\ selected' = selected \cup {selecting[d].states}
    <3>. PICK history \in Histories : history = selecting[d].states
      BY <1>1 DEF Calls
    <3>1. /\ Len(history) \in 1 .. 3 /\ FilesHold(store, history, Len(history) - 1)
          /\ Last(selecting[d].queue) = [name |-> StateName[Len(history)],
                                         bytes |-> history]
          /\ Published(Head(selecting[d].queue))
      BY <1>1, <2>1, <2>4 DEF Selecting, Writing
    <3>2. store.seen[StateName[Len(history)]] = Written(history)
      <4>1. Head(selecting[d].queue) = Last(selecting[d].queue)
        BY <2>2, <2>4, OnlyOne
      <4>. QED  BY <3>1, <4>1 DEF Published
    <3>3. SubSeq(history, 1, Len(history)) = history
      BY SubSeqFull DEF Histories
    <3>4. \A i \in 1 .. Len(history) :
            store.seen[StateName[i]] = Written(SubSeq(history, 1, i))
      <4>1. \A i \in 1 .. Len(history) : i \in 1 .. Len(history) - 1 \/ i = Len(history)
        BY <3>1
      <4>. QED  BY <3>1, <3>2, <3>3, <4>1 DEF FilesHold
    <3>5. store'.seen = store.seen /\ store'.disk = store.seen
      BY <1>1, <2>1, SyncedDirectory DEF SelectionTypes
    <3>6. SelectionSettled(history)'
      BY <3>1, <3>4, <3>5 DEF SelectionSettled, Settled
    <3>. QED  BY <1>2, <1>4, <1>6, <2>4, <3>6
  <2>5. CASE selecting' = [selecting EXCEPT ![d] = NoSelection] /\ UNCHANGED selected
    BY <1>2, <1>4, <1>6, <2>5
  <2>. QED  BY <1>15, <2>3, <2>4, <2>5 DEF SyncRemoval
<1>. QED
  BY <1>2, <1>4, <1>7, <1>8, <1>9, <1>10, <1>11, <1>12, <1>13, <1>14, <1>15
  DEF SelectionStep

LEMMA SelectionSurvives ==
  ASSUME SelectionInv, SelectionPowerLoss
  PROVE  SelectionInv'
<1>1. /\ store' \in Directories(StoreNames, Histories)
      /\ Keeps(store, store', StoreNames, Histories)
  BY SurvivingDirectory DEF SelectionPowerLoss, SelectionInv, SelectionTypes
<1>2. /\ selecting' = [d \in Developers |-> NoSelection] /\ selected' = selected
      /\ selected \subseteq Histories
  BY DEF SelectionPowerLoss, SelectionInv, SelectionTypes
<1>3. NoSelection \in Calls /\ NoSelection.at = "idle"
  BY DEF NoSelection, Calls, Histories, Chains
<1>4. ASSUME NEW head \in Histories, head \in selected PROVE SelectionSettled(head)'
  <2>1. Len(head) \in 1 .. 3
    BY <1>4 DEF SelectionInv, SelectionSettled
  <2>2. ASSUME NEW i \in 1 .. Len(head)
        PROVE  Settled(store', StateName[i], SubSeq(head, 1, i))
    <3>1. Settled(store, StateName[i], SubSeq(head, 1, i))
      BY <1>4 DEF SelectionInv, SelectionSettled
    <3>2. StateName[i] \in StoreNames
      <4>. PICK n \in 1 .. 3 : n = Len(head)
        BY <2>1
      <4>0. i \in 1 .. n
        OBVIOUS
      <4>1. i \in 1 .. 3
        BY <4>0
      <4>. QED  BY <4>1, StateNames
    <3>3. SubSeq(head, 1, i) \in Histories
      BY DEF Histories
    <3>. QED  BY <1>1, <3>1, <3>2, <3>3 DEF Keeps
  <2>. QED  BY <2>1, <2>2 DEF SelectionSettled
<1>5. \A d \in Developers : Selecting(d)'
  BY <1>2, <1>3 DEF Selecting
<1>6. SelectionTypes'
  BY <1>1, <1>2, <1>3 DEF SelectionTypes
<1>. QED
  BY <1>2, <1>4, <1>5, <1>6 DEF SelectionInv

LEMMA SelectionsAreOrdered ==
  ASSUME SelectionInv
  PROVE  /\ Ordered(selected)
         /\ \A head \in selected : store.seen[StateName[Len(head)]] = Written(head)
<1>1. ASSUME NEW head \in selected
      PROVE  /\ head \in Seq(StateEntries) /\ Len(head) \in 1 .. 3
             /\ SubSeq(head, 1, Len(head)) = head
             /\ \A i \in 1 .. Len(head) :
                  store.seen[StateName[i]] = Written(SubSeq(head, 1, i))
  <2>1. head \in Seq(StateEntries) /\ Len(head) \in 1 .. 3
    BY DEF SelectionInv, SelectionTypes, SelectionSettled, Histories
  <2>2. SubSeq(head, 1, Len(head)) = head
    BY <2>1, SubSeqFull
  <2>. QED  BY <2>1, <2>2 DEF SelectionInv, SelectionSettled, Settled
<1>2. ASSUME NEW head \in selected
      PROVE  store.seen[StateName[Len(head)]] = Written(head)
  <2>1. head \in Seq(StateEntries) /\ Len(head) \in 1 .. 3
    BY <1>1
  <2>2. Len(head) \in 1 .. Len(head)
    BY <2>1
  <2>. QED  BY <1>1, <2>2
<1>3. ASSUME NEW a \in Seq(StateEntries), NEW b \in Seq(StateEntries),
             a \in selected, b \in selected, Len(a) <= Len(b)
      PROVE  IsPrefix(a, b)
  <2>0. Len(a) \in 1 .. 3
    BY <1>1, <1>3
  <2>1. Len(a) \in 1 .. Len(b)
    <3>1. Len(b) \in Nat
      OBVIOUS
    <3>. PICK m \in 1 .. 3, n \in Nat : m = Len(a) /\ n = Len(b)
      BY <2>0, <3>1
    <3>2. m <= n
      BY <1>3
    <3>3. m \in 1 .. n
      BY <3>2
    <3>. QED  BY <3>3
  <2>2. Written(a) = Written(SubSeq(b, 1, Len(a)))
    BY <1>1, <1>2, <1>3, <2>1
  <2>3. a = SubSeq(b, 1, Len(a))
    BY <2>2, WrittenFiles
  <2>. QED  BY <1>1, <1>3, <2>3 DEF IsPrefix
<1>4. ASSUME NEW a \in selected, NEW b \in selected
      PROVE  IsPrefix(a, b) \/ IsPrefix(b, a)
  <2>1. a \in Seq(StateEntries) /\ b \in Seq(StateEntries)
    BY <1>1
  <2>2. Len(a) \in Nat /\ Len(b) \in Nat
    BY <2>1
  <2>3. Len(a) <= Len(b) \/ Len(b) <= Len(a)
    BY <2>2
  <2>. QED  BY <1>3, <2>1, <2>3
<1>. QED
  BY <1>2, <1>4 DEF Ordered

-----------------------------------------------------------------------------
(* The approval *)

Revoked == \E head \in reviewed : Len(head) = 2

(* A call that got past the scan began before a revocation was acknowledged:
   the revocation would have been found. *)
Approved(call) ==
  /\ call.at = "loaded" /\ call.late => Revoked
  /\ call.at = "scanned" => result = "positive" /\ ~ call.late
  /\ call.at \in Writing /\ Selects(call.states) = "candidate" =>
       result = "positive" /\ ~ call.late

ApprovalInv ==
  /\ \A d \in Developers : Approved(selecting[d])
  /\ CandidateIsApproved

LEMMA ApprovalInitially ==
  ASSUME SelectionInit PROVE ApprovalInv
BY DEF SelectionInit, NoSelection, ApprovalInv, Approved, CandidateIsApproved, Writing

LEMMA RevocationIsFound ==
  ASSUME ReviewInv, ScanIsValid, Revoked
  PROVE  ScannedChain # <<>> /\ Last(ScannedChain).decision # "recommend"
<1>. PICK head \in reviewed : Len(head) = 2
  BY DEF Revoked
<1>1. Settled(reviews, 1, head) /\ Settled(reviews, 0, SubSeq(head, 1, 1))
  <2>1. ReviewSettled(head)
    BY DEF ReviewInv
  <2>2. Len(head) - 1 = 1
    OBVIOUS
  <2>. QED  BY <2>1, <2>2 DEF ReviewSettled
<1>2. Found = 2
  BY <1>1, WrittenFiles DEF Settled, Found
<1>. PICK chain \in Chains : chain = ScannedChain /\ Len(chain) = 2
                             /\ chain[2].decision = "revoke"
  BY <1>2, ScannedReviews DEF ReviewInv
<1>. QED
  BY DEF Last

LEMMA ApprovalPreserved ==
  ASSUME SelectionInv, ReviewInv, ApprovalInv, NEW d \in Developers,
         SelectionStep(d), UNCHANGED <<result, reviewed>>
  PROVE  ApprovalInv'
<1>1. /\ selecting \in [Developers -> Calls] /\ selecting[d] \in Calls
      /\ Approved(selecting[d]) /\ CandidateIsApproved
  BY DEF SelectionInv, SelectionTypes, ApprovalInv
<1>2. ASSUME NEW e \in Developers, e # d PROVE Approved(selecting[e])'
  <2>1. selecting'[e].at = "idle"
    BY <1>2, OthersIdle
  <2>. QED  BY <2>1 DEF Approved, Writing
<1>3. ASSUME NEW call, selecting' = [selecting EXCEPT ![d] = call], Approved(call),
             served' # served /\ served'.prompt = "candidate" =>
               result = "positive" /\ ~ served'.late
      PROVE  ApprovalInv'
  <2>1. selecting'[d] = call
    BY <1>1, <1>3
  <2>2. Approved(selecting[d])'
    BY <1>3, <2>1 DEF Approved, Revoked
  <2>3. CandidateIsApproved'
    BY <1>1, <1>3 DEF CandidateIsApproved
  <2>. QED  BY <1>2, <2>2, <2>3 DEF ApprovalInv
<1>4. Approved(NoSelection)
  BY DEF NoSelection, Approved, Writing
<1>5. ASSUME NEW history \in Histories, NEW transition \in {"adopt", "revert"},
             NEW review \in Chains
      PROVE  Selects(Append(history, State(transition, review))) =
               IF transition = "adopt" THEN "candidate" ELSE "baseline"
  BY ExtendedHistory DEF Selects
<1>6. CASE InitializeSelection(d)
  <2>. DEFINE first == <<State("initialize", <<>>)>>
              queue == Stores("baseline", <<>>) \o Stores("candidate", <<>>)
                         \o Stores("state-0", first)
              call == [NewCall(d, "initialize") EXCEPT
                         !.at = "writing", !.states = first, !.queue = queue]
  <2>1. selecting' = [selecting EXCEPT ![d] = call] /\ served' = served
    BY <1>6 DEF InitializeSelection
  <2>2. Selects(first) = "baseline"
    BY DEF Selects, Last, State
  <2>. HIDE DEF first, queue
  <2>3. call.at = "writing" /\ call.states = first
    BY DEF NewCall, NoSelection
  <2>. HIDE DEF call
  <2>4. Approved(call)
    BY <2>2, <2>3 DEF Approved
  <2>. QED  BY <1>3, <2>1, <2>4
<1>7. ASSUME NEW op \in Operations, OpenSelection(d, op) PROVE ApprovalInv'
  <2>. PICK history \in Histories :
         history = LoadedStates /\ Last(history) \in StateEntries
    BY <1>7, LoadedHistory DEF OpenSelection, SelectionInv
  <2>. DEFINE call == [NewCall(d, op) EXCEPT !.states = history]
              reverted == Append(history, State("revert", Last(history).review))
              loaded == [call EXCEPT !.at = "loaded"]
              writing == [call EXCEPT !.at = "writing", !.states = reverted,
                                      !.queue = Stores("state-2", reverted)]
  <2>1. \/ selecting' = selecting /\ served'.prompt = "baseline"
        \/ selecting' = [selecting EXCEPT ![d] = loaded] /\ served' = served
        \/ selecting' = [selecting EXCEPT ![d] = writing] /\ served' = served
    BY <1>7 DEF OpenSelection, Serves
  <2>2. Selects(reverted) = "baseline"
    <3>1. Last(history).review \in Chains
      BY DEF StateEntries
    <3>. QED  BY <1>5, <3>1
  <2>. HIDE DEF reverted
  <2>3. /\ loaded.at = "loaded" /\ loaded.late = Revoked
        /\ writing.at = "writing" /\ writing.states = reverted
    BY DEF NewCall, NoSelection, Revoked
  <2>. HIDE DEF loaded, writing, call
  <2>4. Approved(loaded)
    BY <2>3 DEF Approved, Writing
  <2>5. Approved(writing)
    BY <2>2, <2>3 DEF Approved
  <2>6. CASE selecting' = selecting /\ served'.prompt = "baseline"
    <3>1. Approved(selecting[d])' /\ CandidateIsApproved'
      BY <1>1, <2>6 DEF Approved, Revoked, CandidateIsApproved
    <3>. QED  BY <1>2, <3>1 DEF ApprovalInv
  <2>. QED  BY <1>3, <2>1, <2>4, <2>5, <2>6
<1>8. CASE ScanApproval(d)
  <2>. DEFINE call == [selecting[d] EXCEPT !.at = "scanned", !.reviews = ScannedChain]
  <2>1. /\ selecting' = [selecting EXCEPT ![d] = call] /\ served' = served
        /\ selecting[d].at = "loaded" /\ result = "positive" /\ ScanIsValid
        /\ Last(ScannedChain).decision = "recommend"
    BY <1>1, <1>8 DEF ScanApproval
  <2>2. ~ Revoked
    BY <2>1, RevocationIsFound
  <2>3. call.at = "scanned" /\ call.late = selecting[d].late
    BY <1>1 DEF Calls
  <2>. HIDE DEF call
  <2>4. selecting[d].late \in BOOLEAN /\ ~ selecting[d].late
    BY <1>1, <2>1, <2>2 DEF Approved, Calls
  <2>5. Approved(call)
    BY <2>1, <2>3, <2>4 DEF Approved, Writing
  <2>. QED  BY <1>3, <2>1, <2>5
<1>9. CASE AdoptCandidate(d)
  <2>. DEFINE adopted == Append(selecting[d].states, State("adopt", selecting[d].reviews))
              call == [selecting[d] EXCEPT !.at = "writing", !.states = adopted,
                                           !.queue = Stores("state-1", adopted)]
  <2>1. /\ selecting' = [selecting EXCEPT ![d] = call] /\ served' = served
        /\ selecting[d].at = "scanned"
    BY <1>1, <1>9 DEF AdoptCandidate
  <2>. HIDE DEF adopted
  <2>2. call.at = "writing" /\ call.late = selecting[d].late
    BY <1>1 DEF Calls
  <2>. HIDE DEF call
  <2>3. result = "positive" /\ ~ selecting[d].late
    BY <1>1, <2>1 DEF Approved
  <2>4. Approved(call)
    BY <2>2, <2>3 DEF Approved
  <2>. QED  BY <1>3, <2>1, <2>4
<1>10. CASE ReadCandidate(d)
  <2>1. /\ selecting' = [selecting EXCEPT ![d] = NoSelection]
        /\ served'.late = selecting[d].late /\ selecting[d].at = "scanned"
    BY <1>10 DEF ReadCandidate, Serves
  <2>2. result = "positive" /\ ~ selecting[d].late
    BY <1>1, <2>1 DEF Approved
  <2>. QED  BY <1>3, <1>4, <2>1, <2>2
<1>11. CASE StopSelection(d)
  BY <1>3, <1>4, <1>11 DEF StopSelection
(* The steps of a publication keep what is published, and when it began. *)
<1>12. ASSUME NEW call, selecting' = [selecting EXCEPT ![d] = call],
              selecting[d].at \in Writing, call.at \in Writing,
              call.states = selecting[d].states, call.late = selecting[d].late,
              served' = served
       PROVE  ApprovalInv'
  <2>1. Approved(call)
    BY <1>1, <1>12 DEF Approved, Writing
  <2>. QED  BY <1>3, <1>12, <2>1
<1>13. CASE WriteTemporary(d) \/ LinkName(d) \/ SyncName(d) \/ PublishFails(d)
              \/ RemoveTemporary(d)
  <2>1. ASSUME NEW at \in Writing, selecting' = [selecting EXCEPT ![d].at = at],
               selecting[d].at \in Writing, served' = served
        PROVE  ApprovalInv'
    <3>. DEFINE call == [selecting[d] EXCEPT !.at = at]
    <3>1. selecting' = [selecting EXCEPT ![d] = call]
      BY <1>1, <2>1
    <3>2. /\ call.at \in Writing /\ call.states = selecting[d].states
          /\ call.late = selecting[d].late
      BY <1>1 DEF Calls
    <3>. HIDE DEF call
    <3>. QED  BY <1>12, <2>1, <3>1, <3>2
  <2>2. CASE WriteTemporary(d) \/ LinkName(d)
    BY <2>1, <2>2 DEF WriteTemporary, LinkName, Writing
  <2>3. CASE SyncName(d) \/ RemoveTemporary(d)
    BY <2>1, <2>3 DEF SyncName, RemoveTemporary, Writing
  <2>4. CASE PublishFails(d)
    <3>. DEFINE call == [selecting[d] EXCEPT !.at = "removing", !.failed = TRUE]
    <3>1. /\ selecting' = [selecting EXCEPT ![d] = call] /\ served' = served
          /\ selecting[d].at \in Writing
      BY <1>1, <2>4 DEF PublishFails, Writing
    <3>2. /\ call.at \in Writing /\ call.states = selecting[d].states
          /\ call.late = selecting[d].late
      BY <1>1 DEF Calls, Writing
    <3>. HIDE DEF call
    <3>. QED  BY <1>12, <3>1, <3>2
  <2>. QED  BY <1>13, <2>2, <2>3, <2>4
<1>14. CASE SyncRemoval(d)
  <2>. DEFINE call == [selecting[d] EXCEPT !.at = "writing",
                                           !.queue = Tail(selecting[d].queue)]
  <2>0. ASSUME selecting' = [selecting EXCEPT ![d].at = "writing",
                                             ![d].queue = Tail(selecting[d].queue)]
        PROVE  selecting' = [selecting EXCEPT ![d] = call]
    BY <1>1, <2>0
  <2>1. /\ selecting[d].at \in Writing
        /\ \/ selecting' = [selecting EXCEPT ![d] = call] /\ served' = served
           \/ /\ selecting' = [selecting EXCEPT ![d] = NoSelection]
              /\ \/ served' = served
                 \/ served' = [prompt |-> Selects(selecting[d].states),
                               late |-> selecting[d].late]
    <3>. HIDE DEF call
    <3>. QED  BY <1>14, <2>0 DEF SyncRemoval, Serves, Writing
  <2>2. /\ call.at \in Writing /\ call.states = selecting[d].states
        /\ call.late = selecting[d].late
    BY <1>1 DEF Calls, Writing
  <2>. HIDE DEF call
  <2>3. Selects(selecting[d].states) = "candidate" =>
          result = "positive" /\ ~ selecting[d].late
    BY <1>1, <2>1 DEF Approved
  <2>. QED  BY <1>3, <1>4, <1>12, <2>1, <2>2, <2>3
<1>. QED
  BY <1>6, <1>7, <1>8, <1>9, <1>10, <1>11, <1>13, <1>14 DEF SelectionStep

-----------------------------------------------------------------------------
(* The pipeline *)

IInv == StoreInv /\ SnapshotInv /\ ReviewInv /\ SelectionInv /\ ApprovalInv

LEMMA UntouchedReviews ==
  ASSUME ReviewInv, UNCHANGED reviewVars PROVE ReviewInv'
BY DEF ReviewInv, ReviewTypes, Reviewing, ReviewSettled, Settled, HeadOf, reviewVars

LEMMA UntouchedSelection ==
  ASSUME SelectionInv, UNCHANGED selectionVars PROVE SelectionInv'
BY DEF SelectionInv, SelectionTypes, Selecting, SelectionSettled, FilesHold, Published,
       Settled, selectionVars

LEMMA UntouchedStore ==
  ASSUME StoreInv, SnapshotInv, UNCHANGED storeVars PROVE StoreInv' /\ SnapshotInv'
<1>1. StoreInv'
  BY DEF StoreInv, Settled, storeVars
<1>2. SnapshotInv'
  BY DEF SnapshotInv, SnapshotTypes, ReadingHolds, Taken, CheckedHolds, AllVerified,
         ChecksWillTell, StillUnchanged, Signature, storeVars
<1>. QED
  BY <1>1, <1>2

(* A head that was returned stays in the observation. *)
LEMMA ApprovalStays ==
  ASSUME ApprovalInv, UNCHANGED <<result, selectionVars>>, reviewed \subseteq reviewed'
  PROVE  ApprovalInv'
BY DEF ApprovalInv, Approved, Revoked, CandidateIsApproved, selectionVars

LEMMA IInvInit == Init => IInv
BY StoreInitially, SnapshotInitially, ReviewInitially, SelectionInitially, ApprovalInitially DEF Init, IInv

LEMMA IInvNext == IInv /\ [Next]_vars => IInv'
<1>. SUFFICES ASSUME IInv, [Next]_vars PROVE IInv'
  OBVIOUS
<1>. USE DEF IInv
<1>1. CASE UNCHANGED vars
  <2>1. UNCHANGED <<storeVars, reviewVars, selectionVars, result, reviewed>>
    BY <1>1 DEF vars, reviewVars
  <2>. QED
    BY <2>1, UntouchedStore, UntouchedReviews, UntouchedSelection, ApprovalStays
<1>2. CASE /\ StoreStage
           /\ UNCHANGED <<stage, collectionVars, result, reviewVars, selectionVars>>
  <2>1. reviewed' = reviewed
    BY <1>2 DEF reviewVars
  <2>. QED
    BY <1>2, <2>1, StorePreserved, SnapshotPreserved, UntouchedReviews, UntouchedSelection, ApprovalStays
<1>3. CASE UNCHANGED <<stage, storeVars, result, reviewVars, selectionVars>>
  <2>1. reviewed' = reviewed
    BY <1>3 DEF reviewVars
  <2>. QED
    BY <1>3, <2>1, UntouchedStore, UntouchedReviews, UntouchedSelection, ApprovalStays
<1>4. CASE ReviewStage /\ UNCHANGED <<stage, storeVars, collectionVars, result>>
  <2>0. StoreInv' /\ SnapshotInv'
    BY <1>4, UntouchedStore
  <2>1. ASSUME NEW r \in Reviewers, ReviewStep(r), UNCHANGED selectionVars PROVE IInv'
    <3>1. reviewed \subseteq reviewed'
      BY <2>1 DEF ReviewStep, BeginReview, AdmitReview, PublishReview,
                  AcknowledgeReview, StopReview
    <3>. QED
      BY <1>4, <2>0, <2>1, <3>1, ReviewPreserved, UntouchedSelection, ApprovalStays
  <2>2. ASSUME NEW d \in Developers, SelectionStep(d), UNCHANGED reviewVars PROVE IInv'
    <3>1. ReviewTypes /\ UNCHANGED <<result, reviewed>>
      BY <1>4, <2>2 DEF ReviewInv, reviewVars
    <3>. QED
      BY <2>0, <2>2, <3>1, UntouchedReviews, SelectionPreserved, ApprovalPreserved
  <2>3. CASE PowerLoss
    <3>1. ApprovalInv'
      <4>1. /\ selecting' = [d \in Developers |-> NoSelection]
            /\ UNCHANGED <<result, served>>
        BY <1>4, <2>3 DEF PowerLoss, SelectionPowerLoss
      <4>2. \A d \in Developers : selecting'[d].at = "idle"
        BY <4>1 DEF NoSelection
      <4>. QED
        BY <4>1, <4>2 DEF ApprovalInv, Approved, CandidateIsApproved, Writing
    <3>. QED
      BY <2>0, <2>3, <3>1, ReviewSurvives, SelectionSurvives DEF PowerLoss
  <2>. QED  BY <1>4, <2>1, <2>2, <2>3 DEF ReviewStage
<1>. QED
  BY <1>1, <1>2, <1>3, <1>4 DEF Next

THEOREM Invariance == Spec => []IInv
BY IInvInit, IInvNext, PTL DEF Spec

(* However drafters, reviewers and developers race for a name, and whenever the
   power fails, what freeze_candidate, record_collection_review and the calls of
   development.py returned is on disk, and the heads each of the last two
   returned are prefixes of one another. *)
THEOREM AcknowledgementsSurvive == Spec => []AcknowledgedSurvive
<1>1. IInv => AcknowledgedSurvive
  BY ReviewsAreOrdered, SelectionsAreOrdered
  DEF IInv, StoreInv, Settled, AcknowledgedSurvive
<1>. QED
  BY <1>1, Invariance, PTL

(* The calls of development.py hand out the candidate prompt only for a positive
   collection, and never in a call that began after record_collection_review
   had returned a revocation. *)
THEOREM ApprovedCandidate == Spec => []CandidateIsApproved
<1>1. IInv => CandidateIsApproved
  BY DEF IInv, ApprovalInv
<1>. QED
  BY <1>1, Invariance, PTL

(* Whoever else writes to the artifacts, in place or by renaming, while
   load_artifact_snapshot opens, reads and looks again: when it returns, there was a
   moment at which every name led to the content its digest names. *)
THEOREM SnapshotConsistent == Spec => []SnapshotIsConsistent
<1>1. IInv => SnapshotIsConsistent
  BY DEF IInv, SnapshotInv, ChecksWillTell, SnapshotIsConsistent
<1>. QED
  BY <1>1, Invariance, PTL

-----------------------------------------------------------------------------
(* The collection: the number of its requests *)

N == Cardinality(Requests)

LEMMA RequestsAreNumbered ==
  /\ N \in Nat /\ N >= 4 /\ N = 2 * Cardinality(Cases)
  /\ Requests = 1 .. N
  /\ Cases = 1 .. Cardinality(Cases) /\ Cardinality(Cases) \in Nat
<1>1. Cardinality(Cases) \in Nat /\ Cardinality(Cases) >= 2
  BY PlanAssumption, FS_CardinalityType DEF PlanAssumption
<1>2. Requests = 1 .. 2 * Cardinality(Cases) /\ Cases = 1 .. Cardinality(Cases)
  BY CollectionAssumption DEF CollectionAssumption
<1>3. Cardinality(1 .. 2 * Cardinality(Cases)) = 2 * Cardinality(Cases)
  BY <1>1, FS_Interval
<1>. QED
  BY <1>1, <1>2, <1>3 DEF N

-----------------------------------------------------------------------------
(* Sequences *)

LEMMA Appended ==
  ASSUME NEW S, NEW s \in Seq(S), NEW e \in S
  PROVE  /\ Append(s, e) \in Seq(S) /\ Len(Append(s, e)) = Len(s) + 1
         /\ Range(Append(s, e)) = Range(s) \cup {e}
         /\ Last(Append(s, e)) = e
         /\ \A i \in 1 .. Len(s) : Append(s, e)[i] = s[i]
<1>1. /\ Append(s, e) \in Seq(S) /\ Len(Append(s, e)) = Len(s) + 1
      /\ DOMAIN Append(s, e) = 1 .. Len(s) + 1 /\ DOMAIN s = 1 .. Len(s) /\ Len(s) \in Nat
      /\ Append(s, e)[Len(s) + 1] = e
      /\ \A i \in 1 .. Len(s) : Append(s, e)[i] = s[i]
  OBVIOUS
<1>2. Range(Append(s, e)) = Range(s) \cup {e}
  BY <1>1 DEF Range
<1>. QED
  BY <1>1, <1>2 DEF Last

-----------------------------------------------------------------------------
(* Hints *)

Hints == [sequence : Nat, posts : Nat, bytes : Nat]

Channels ==
  [open : BOOLEAN, sent : Nat, queue : Seq(Hints), received : Nat, last : Hints,
   status : {"unavailable", "observed", "rejected"}]

(* A hint that may follow another, and one that a writer at these counters may
   have sent. *)
Follows(hint, previous) ==
  /\ hint.sequence > previous.sequence
  /\ hint.posts >= previous.posts
  /\ hint.bytes >= previous.bytes

Sendable(hint, sent, posts, bytes) ==
  hint.sequence <= sent /\ hint.posts <= posts /\ hint.bytes <= bytes

(* What is still to be read follows what was read, in order. *)
Sound(channel, posts, bytes) ==
  /\ channel.status # "rejected"
  /\ channel.received + Len(channel.queue) <= channel.sent
  /\ channel.sent <= MaxPackets
  /\ Sendable(channel.last, channel.sent, posts, bytes)
  /\ \A i \in 1 .. Len(channel.queue) :
       /\ Sendable(channel.queue[i], channel.sent, posts, bytes)
       /\ Follows(channel.queue[i], channel.last)
  /\ \A i, j \in 1 .. Len(channel.queue) :
       i < j => Follows(channel.queue[j], channel.queue[i])

LEMMA FreshChannels ==
  /\ NoChannel \in Channels /\ OpenChannel \in Channels
  /\ \A posts, bytes \in Nat :
       Sound(NoChannel, posts, bytes) /\ Sound(OpenChannel, posts, bytes)
<1>1. NoHint \in Hints /\ <<>> \in Seq(Hints)
  BY DEF NoHint, Hints
<1>2. NoChannel \in Channels
  BY <1>1 DEF NoChannel, Channels
<1>3. OpenChannel \in Channels
  BY <1>2 DEF OpenChannel, Channels
<1>4. MaxPackets \in Nat
  BY PacketsAssumption DEF PacketsAssumption
<1>5. /\ OpenChannel.status = "unavailable" /\ OpenChannel.received = 0 /\ OpenChannel.sent = 0
      /\ OpenChannel.queue = <<>> /\ OpenChannel.last = NoHint
  BY DEF OpenChannel, NoChannel
<1>. QED
  BY <1>2, <1>3, <1>4, <1>5 DEF Sound, Sendable, NoChannel, NoHint

LEMMA EmittedIsSound ==
  ASSUME NEW channel \in Channels, NEW posts \in Nat, NEW bytes \in Nat,
         NEW after \in Emit(channel, posts, bytes)
  PROVE  /\ after \in Channels
         /\ \A p, b \in Nat :
              p <= posts /\ b <= bytes /\ Sound(channel, p, b) => Sound(after, posts, bytes)
<1>0. /\ MaxPackets \in Nat /\ channel.sent \in Nat /\ channel.received \in Nat
      /\ channel.queue \in Seq(Hints) /\ channel.last \in Hints
      /\ Len(channel.queue) \in Nat
      /\ \A i \in 1 .. Len(channel.queue) : channel.queue[i] \in Hints
  BY PacketsAssumption DEF PacketsAssumption, Channels
<1>. DEFINE hint == [sequence |-> channel.sent + 1, posts |-> posts, bytes |-> bytes]
            numbered == [channel EXCEPT !.sent = channel.sent + 1]
            queued == [numbered EXCEPT !.queue = Append(channel.queue, hint)]
<1>1. \/ after = channel
      \/ channel.sent < MaxPackets /\ (after = numbered \/ after = queued)
  BY <1>0 DEF Emit, Channels
<1>2. hint \in Hints /\ hint.sequence = channel.sent + 1 /\ hint.posts = posts /\ hint.bytes = bytes
  BY <1>0 DEF Hints
<1>3. /\ numbered \in Channels
      /\ numbered.sent = channel.sent + 1 /\ numbered.queue = channel.queue
      /\ numbered.last = channel.last /\ numbered.received = channel.received
      /\ numbered.status = channel.status
  BY <1>0 DEF Channels
<1>. HIDE DEF hint
<1>4. /\ Append(channel.queue, hint) \in Seq(Hints)
      /\ Len(Append(channel.queue, hint)) = Len(channel.queue) + 1
      /\ \A i \in 1 .. Len(channel.queue) + 1 :
           Append(channel.queue, hint)[i] =
             IF i = Len(channel.queue) + 1 THEN hint ELSE channel.queue[i]
  BY <1>0, <1>2
<1>. HIDE DEF numbered
<1>5. /\ queued \in Channels
      /\ queued.sent = channel.sent + 1 /\ queued.queue = Append(channel.queue, hint)
      /\ queued.last = channel.last /\ queued.received = channel.received
      /\ queued.status = channel.status
  BY <1>3, <1>4 DEF Channels
<1>. HIDE DEF queued
<1>6. ASSUME NEW p \in Nat, NEW b \in Nat, p <= posts, b <= bytes, Sound(channel, p, b)
      PROVE  Sound(after, posts, bytes)
  <2>1. /\ channel.last.sequence \in Nat /\ channel.last.posts \in Nat
        /\ channel.last.bytes \in Nat
        /\ \A i \in 1 .. Len(channel.queue) :
             /\ channel.queue[i].sequence \in Nat /\ channel.queue[i].posts \in Nat
             /\ channel.queue[i].bytes \in Nat
    BY <1>0 DEF Hints
  <2>2. ASSUME NEW h \in Hints, Sendable(h, channel.sent, p, b)
        PROVE  /\ Sendable(h, channel.sent, posts, bytes)
               /\ Sendable(h, channel.sent + 1, posts, bytes)
               /\ Follows(hint, h)
    <3>1. h.sequence \in Nat /\ h.posts \in Nat /\ h.bytes \in Nat
      BY DEF Hints
    <3>. QED  BY <1>0, <1>2, <1>6, <2>2, <3>1 DEF Sendable, Follows
  <2>6. /\ channel.status # "rejected"
        /\ channel.received + Len(channel.queue) <= channel.sent
        /\ channel.sent <= MaxPackets
        /\ Sendable(channel.last, channel.sent, p, b)
        /\ \A i \in 1 .. Len(channel.queue) :
             /\ Sendable(channel.queue[i], channel.sent, p, b)
             /\ Follows(channel.queue[i], channel.last)
        /\ \A i, j \in 1 .. Len(channel.queue) :
             i < j => Follows(channel.queue[j], channel.queue[i])
    BY <1>6 DEF Sound
  <2>7. /\ Sendable(channel.last, channel.sent, posts, bytes)
        /\ Sendable(channel.last, channel.sent + 1, posts, bytes)
        /\ Follows(hint, channel.last)
    BY <1>0, <2>2, <2>6
  <2>8. ASSUME NEW i \in 1 .. Len(channel.queue)
        PROVE  /\ Sendable(channel.queue[i], channel.sent, posts, bytes)
               /\ Sendable(channel.queue[i], channel.sent + 1, posts, bytes)
               /\ Follows(channel.queue[i], channel.last)
               /\ Follows(hint, channel.queue[i])
    BY <1>0, <2>2, <2>6
  <2>3. CASE after = channel
    BY <2>3, <2>6, <2>7, <2>8 DEF Sound
  <2>4. CASE channel.sent < MaxPackets /\ after = numbered
    <3>1. /\ channel.received + Len(channel.queue) <= channel.sent + 1
          /\ channel.sent + 1 <= MaxPackets
      BY <1>0, <2>4, <2>6
    <3>. QED  BY <1>3, <2>4, <2>6, <2>7, <2>8, <3>1 DEF Sound
  <2>5. CASE channel.sent < MaxPackets /\ after = queued
    <3>0. /\ after.queue = Append(channel.queue, hint) /\ after.sent = channel.sent + 1
          /\ after.last = channel.last /\ after.received = channel.received
          /\ after.status = channel.status /\ Len(after.queue) = Len(channel.queue) + 1
      BY <1>4, <1>5, <2>5
    <3>1. Sendable(hint, channel.sent + 1, posts, bytes)
      BY <1>0, <1>2 DEF Sendable
    <3>2. ASSUME NEW i \in 1 .. Len(channel.queue) + 1
          PROVE  \/ i = Len(channel.queue) + 1 /\ after.queue[i] = hint
                 \/ i \in 1 .. Len(channel.queue) /\ after.queue[i] = channel.queue[i]
      BY <1>0, <1>4, <3>0
    <3>3. ASSUME NEW i \in 1 .. Len(after.queue)
          PROVE  /\ Sendable(after.queue[i], after.sent, posts, bytes)
                 /\ Follows(after.queue[i], after.last)
      BY <2>7, <2>8, <3>0, <3>1, <3>2
    <3>4. ASSUME NEW i \in 1 .. Len(after.queue), NEW j \in 1 .. Len(after.queue), i < j
          PROVE  Follows(after.queue[j], after.queue[i])
      <4>1. i \in 1 .. Len(channel.queue) /\ after.queue[i] = channel.queue[i]
        BY <1>0, <3>0, <3>2, <3>4
      <4>. QED  BY <2>6, <2>8, <3>0, <3>2, <3>4, <4>1
    <3>5. /\ after.received + Len(after.queue) <= after.sent
          /\ after.sent <= MaxPackets
      BY <1>0, <2>5, <2>6, <3>0
    <3>. QED
      BY <2>6, <2>7, <3>0, <3>3, <3>4, <3>5 DEF Sound
  <2>. QED  BY <1>1, <2>3, <2>4, <2>5
<1>. QED
  BY <1>1, <1>3, <1>5, <1>6

LEMMA ReceivedIsSound ==
  ASSUME NEW channel \in Channels, Readable(channel)
  PROVE  /\ Receive(channel) \in Channels
         /\ \A posts, bytes \in Nat :
              posts <= 1 /\ Sound(channel, posts, bytes) =>
                Sound(Receive(channel), posts, bytes)
<1>0. /\ MaxPackets \in Nat /\ channel.sent \in Nat /\ channel.received \in Nat
      /\ channel.queue \in Seq(Hints) /\ channel.last \in Hints
      /\ Len(channel.queue) \in Nat
      /\ \A i \in 1 .. Len(channel.queue) : channel.queue[i] \in Hints
      /\ channel.queue # <<>>
  BY PacketsAssumption DEF PacketsAssumption, Channels, Readable
<1>. DEFINE hint == Head(channel.queue)
            rest == Tail(channel.queue)
            next == [channel EXCEPT !.queue = rest, !.received = channel.received + 1]
            read == [next EXCEPT !.last = hint, !.status = "observed"]
            refused == [next EXCEPT !.last = NoHint, !.status = "rejected"]
<1>1. Receive(channel) =
        IF next.received <= MaxPackets /\ Advances(hint, channel.last) THEN read ELSE refused
  BY DEF Receive, Channels
<1>2. /\ hint = channel.queue[1] /\ hint \in Hints
      /\ rest \in Seq(Hints) /\ Len(rest) = Len(channel.queue) - 1
      /\ \A i \in 1 .. Len(rest) : rest[i] = channel.queue[i + 1]
      /\ Len(channel.queue) >= 1
  BY <1>0
<1>. HIDE DEF hint, rest
<1>3. /\ next \in Channels /\ next.queue = rest /\ next.received = channel.received + 1
      /\ next.sent = channel.sent
  <2>1. channel.received + 1 \in Nat
    BY <1>0
  <2>. QED  BY <1>2, <2>1 DEF Channels
<1>. HIDE DEF next
<1>4. /\ read \in Channels /\ read.queue = rest /\ read.received = channel.received + 1
      /\ read.sent = channel.sent /\ read.last = hint /\ read.status = "observed"
  BY <1>2, <1>3 DEF Channels
<1>5. NoHint \in Hints
  BY DEF NoHint, Hints
<1>6. refused \in Channels
  BY <1>3, <1>5 DEF Channels
<1>7. ASSUME NEW posts \in Nat, NEW bytes \in Nat, posts <= 1, Sound(channel, posts, bytes)
      PROVE  Sound(Receive(channel), posts, bytes)
  <2>1. /\ Sendable(hint, channel.sent, posts, bytes) /\ Follows(hint, channel.last)
        /\ \A i \in 1 .. Len(rest) :
             /\ i + 1 \in 1 .. Len(channel.queue)
             /\ Sendable(rest[i], channel.sent, posts, bytes) /\ Follows(rest[i], hint)
        /\ \A i, j \in 1 .. Len(rest) : i < j => Follows(rest[j], rest[i])
    <3>1. 1 \in 1 .. Len(channel.queue)
      BY <1>0, <1>2
    <3>2. \A i \in 1 .. Len(rest) : i + 1 \in 1 .. Len(channel.queue) /\ 1 < i + 1
      BY <1>0, <1>2
    <3>3. \A i, j \in 1 .. Len(rest) : i < j => i + 1 < j + 1
      BY <1>0, <1>2
    <3>. QED  BY <1>2, <1>7, <3>1, <3>2, <3>3 DEF Sound
  <2>2. Advances(hint, channel.last) /\ next.received <= MaxPackets
    <3>1. /\ hint.sequence \in Nat /\ hint.posts \in Nat /\ hint.bytes \in Nat
          /\ channel.last.sequence \in Nat /\ channel.last.posts \in Nat
          /\ channel.last.bytes \in Nat
      BY <1>0, <1>2 DEF Hints
    <3>2. /\ hint.sequence <= channel.sent /\ hint.posts <= posts
          /\ channel.received + Len(channel.queue) <= channel.sent
          /\ channel.sent <= MaxPackets
      BY <1>7, <2>1 DEF Sound, Sendable
    <3>3. Advances(hint, channel.last)
      BY <1>0, <1>7, <2>1, <3>1, <3>2 DEF Follows, Advances
    <3>. QED
      BY <1>0, <1>2, <1>3, <3>2, <3>3
  <2>3. Receive(channel) = read
    BY <1>1, <2>2
  <2>. HIDE DEF read
  <2>4. /\ channel.received + Len(channel.queue) <= channel.sent
        /\ channel.sent <= MaxPackets
    BY <1>7 DEF Sound
  <2>5. read.received + Len(read.queue) <= read.sent
    BY <1>0, <1>2, <1>4, <2>4
  <2>. QED
    BY <1>4, <2>1, <2>3, <2>4, <2>5 DEF Sound
<1>. QED
  BY <1>1, <1>4, <1>6, <1>7

-----------------------------------------------------------------------------
(* The states of a collection *)

Receipts ==
  [status : {"none", "failed", "completed"}, content : Contents \cup {"none"}]

Events ==
  [kind : {"manifest", "started", "dispatch", "terminal", "finished", "aborted"},
   request : 0 .. N, receipt : Receipts]

Journals ==
  [events : Seq(Events), disk : Seq(Events), size : Nat, limit : RecordingLimits,
   failures : Nat]

Servers ==
  [loaded : BOOLEAN, foreign : BOOLEAN, work : 0 .. N, received : [Requests -> Nat],
   answer : [Requests -> Answers \cup {NoAnswer}]]

Workers ==
  [at : {"none", "agent", "sending", "exited"}, request : 0 .. N, posts : Nat,
   denied : BOOLEAN, metadata : Nat, bytes : Nat, refused : BOOLEAN,
   delivered : BOOLEAN, finished : BOOLEAN, parsed : Answers \cup {NoAnswer},
   completed : BOOLEAN, matches : BOOLEAN, channel : Channels]

Idle == worker = NoWorker /\ server.work = 0
Quiet == Idle /\ ~ server.loaded

(* Where the collector is: before the call for the next request, where it knows
   that nothing runs, where it knows that nothing is loaded either, and where no
   more requests will be made. *)
Before == {"new", "starting", "started", "dispatching", "generating"}
Known  == Before \cup {"returned", "closing", "polling", "finished", "auditing", "done",
                       "cleaning", "cleaned"}
Empty  == {"new", "starting", "started", "finished", "auditing", "done", "cleaned"}
Ending == {"excepting", "cleaning", "cleaned", "marking", "aborted", "raised", "dead"}
Places == Known \cup Ending \cup {"waiting"}

Collectors ==
  [at : Places, next : 1 .. N + 1, receipt : Receipts,
   verdict : {"none", "positive", "negative"},
   uncertain : BOOLEAN, started : BOOLEAN, finished : BOOLEAN]

-----------------------------------------------------------------------------
(* The invariant *)

(* What the flags of the handler say at each place. *)
CollectorInv ==
  /\ collector \in Collectors
  /\ collector.at \in {"new", "starting", "started"} => collector.next = 1
  /\ collector.at \in {"dispatching", "generating", "waiting", "returned"} =>
       collector.next <= N
  /\ collector.at = "new" =>
       ~ collector.uncertain /\ ~ collector.started /\ ~ collector.finished
  /\ collector.at \in {"dispatching", "generating", "waiting", "returned"} =>
       collector.started /\ ~ collector.finished
  /\ collector.at \in {"starting", "started", "generating", "waiting", "returned",
                       "polling", "finished", "cleaning"} => collector.uncertain
  /\ collector.at \in {"auditing", "done", "cleaned"} => collector.finished
  /\ collector.verdict # "none" => collector.at = "done"

(* A collector that does not claim to be uncertain is right, and one that would
   unload knows that nothing runs. *)
KnowledgeInv ==
  /\ collector.at \in Known => Idle
  /\ collector.at \in Empty => Quiet
  /\ collector.at = "excepting" /\ ~ collector.uncertain =>
       Idle /\ (~ collector.started \/ collector.finished => Quiet)
  /\ collector.at \in {"marking", "aborted"} /\ ~ collector.uncertain => Quiet

JournalTypes ==
  /\ journal \in Journals
  /\ journal.failures = 0 => journal.disk = journal.events
  /\ Range(journal.events) \subseteq Range(journal.disk)

(* The reserve is there for the last marks. *)
JournalInv ==
  /\ JournalTypes
  /\ collector.at \notin {"marking", "aborted", "raised", "dead"} =>
       journal.size <= journal.limit - Reserve
  /\ collector.at = "marking" => journal.size <= journal.limit - Reserve + 1
  /\ collector.at = "aborted" => Last(journal.disk) = Mark("aborted")
  /\ collector.at = "raised" => journal.failures > 0

(* What was sent was dispatched, and everything before it has its receipt. *)
RecordInv ==
  /\ \A p \in 1 .. collector.next - 1 : Recorded("terminal", p)
  /\ collector.at \in {"generating", "waiting", "returned"} =>
       Recorded("dispatch", collector.next)
  /\ worker.at # "none" => Recorded("dispatch", collector.next)
  /\ \A q \in Requests :
       server.received[q] # 0 =>
         /\ server.received[q] = 1
         /\ Recorded("dispatch", q)
         /\ q <= collector.next
         /\ q = collector.next => collector.at \notin Before

Says(q, receipt) ==
  receipt.status = "completed" =>
    server.answer[q] = [content |-> receipt.content, finish |-> "stop"]

(* A recorded response is the server's, which will not answer that request again. *)
Holds(event) ==
  event.receipt.status = "completed" =>
    /\ event.request \in Requests /\ event.request <= collector.next
    /\ Says(event.request, event.receipt)
    /\ event.request = collector.next => Idle /\ collector.at \in Ending

AnswersInv ==
  /\ \A event \in Range(journal.disk) : Holds(event)
  /\ collector.at = "returned" =>
       /\ Says(collector.next, collector.receipt)
       /\ collector.receipt.status # "none"

(* The worker is that of the next request, and has sent it at most once. *)
WorkerInv ==
  /\ worker \in Workers /\ server \in Servers
  /\ worker.at = "none" => worker = NoWorker
  /\ server.work # 0 => server.work = collector.next
  /\ worker.at # "none" =>
       /\ collector.at \in Ending \cup {"waiting"}
       /\ worker.request = collector.next /\ collector.next <= N
       /\ ~ worker.delivered => server.received[collector.next] = 0 /\ server.work = 0
       /\ worker.posts <= 1
       /\ worker.posts = 0 => ~ worker.delivered /\ worker.at # "sending"
       /\ worker.finished =>
            /\ server.work = 0 /\ worker.posts = 1 /\ worker.at # "sending"
            /\ worker.parsed = server.answer[collector.next] /\ worker.parsed \in Answers

(* An agent that was refused nothing sends hints in order. *)
HintsInv ==
  worker.refused \/
    /\ worker.posts <= 1 /\ worker.bytes = worker.posts
    /\ Sound(worker.channel, worker.posts, worker.bytes)

AnsweredInFull ==
  /\ \A q \in CandidateRequests :
       server.answer[q] \in [content : {"right", "wrong"}, finish : {"stop"}]
  /\ Cardinality({c \in Cases : \E q \in CandidateRequests :
                    CaseOf(q) = c /\ server.answer[q].content = "right"})
       >= MinCandidateCorrect

VerdictInv == collector.verdict = "positive" => AnsweredInFull

CollectionInv ==
  /\ CollectorInv
  /\ KnowledgeInv
  /\ JournalInv
  /\ RecordInv
  /\ AnswersInv
  /\ WorkerInv
  /\ HintsInv
  /\ VerdictInv

-----------------------------------------------------------------------------
(* The initial states *)

LEMMA Receiptless == NoReceipt \in Receipts
BY DEF NoReceipt, Receipts

LEMMA Marks ==
  ASSUME NEW kind \in {"manifest", "started", "finished", "aborted"}
  PROVE  /\ Mark(kind) \in Events /\ Mark(kind).kind = kind
         /\ Mark(kind).receipt.status # "completed" /\ SizeOf(Mark(kind)) = 1
BY Receiptless, RequestsAreNumbered DEF Mark, Event, NoReceipt, Events, SizeOf

LEMMA FreshWorker ==
  /\ NoWorker \in Workers
  /\ NoWorker.at = "none" /\ ~ NoWorker.refused /\ ~ NoWorker.finished /\ ~ NoWorker.delivered
  /\ NoWorker.posts = 0 /\ NoWorker.bytes = 0 /\ NoWorker.channel = NoChannel
<1>1. NoWorker \in Workers
  BY FreshChannels, RequestsAreNumbered DEF NoWorker, Workers
<1>. QED
  BY <1>1 DEF NoWorker

LEMMA CollectionInitially ==
  ASSUME CollectionInit PROVE CollectionInv
<1>. USE RequestsAreNumbered
<1>1. collector = [at |-> "new", next |-> 1, receipt |-> NoReceipt, verdict |-> "none",
                   uncertain |-> FALSE, started |-> FALSE, finished |-> FALSE]
  BY DEF CollectionInit
<1>2. collector \in Collectors
  BY <1>1, Receiptless DEF Collectors, Places, Known, Before
<1>3. CollectorInv
  BY <1>1, <1>2 DEF CollectorInv
<1>4. worker = NoWorker
  BY DEF CollectionInit, AdapterInit, WorkerInit
<1>5. server = [loaded |-> FALSE, foreign |-> FALSE, work |-> 0,
                received |-> [q \in Requests |-> 0], answer |-> [q \in Requests |-> NoAnswer]]
  BY DEF CollectionInit, AdapterInit, WorkerInit, ServerInit
<1>6. server \in Servers
  BY <1>5 DEF Servers
<1>7. KnowledgeInv
  BY <1>1, <1>4, <1>5 DEF KnowledgeInv, Idle, Quiet
<1>8. /\ journal \in [events : {<<>>}, disk : {<<>>}, size : {0}, limit : RecordingLimits,
                      failures : {0}]
  BY DEF CollectionInit
<1>9. /\ journal.events = <<>> /\ journal.disk = <<>> /\ journal.size = 0
      /\ journal.limit \in RecordingLimits /\ journal.failures = 0
      /\ journal.limit \in Nat /\ journal.limit >= Reserve /\ Reserve \in Nat
      /\ journal \in Journals
  <2>1. /\ journal.events = <<>> /\ journal.disk = <<>> /\ journal.size = 0
        /\ journal.limit \in RecordingLimits /\ journal.failures = 0
    BY <1>8
  <2>2. journal.limit \in Nat /\ journal.limit >= Reserve /\ Reserve \in Nat
    BY <2>1, CollectionAssumption DEF CollectionAssumption
  <2>4. journal \in Journals
    <3>. DEFINE Logs == Seq(Events)
    <3>1. <<>> \in Logs
      OBVIOUS
    <3>2. Journals = [events : Logs, disk : Logs, size : Nat, limit : RecordingLimits,
                      failures : Nat]
      BY DEF Journals
    <3>. HIDE DEF Logs
    <3>. QED  BY <1>8, <3>1, <3>2
  <2>. QED  BY <2>1, <2>2, <2>4
<1>10. Range(journal.disk) = {}
  BY <1>9 DEF Range
<1>11. JournalInv
  BY <1>1, <1>9, <1>10 DEF JournalInv, JournalTypes
<1>12. RecordInv
  BY <1>1, <1>4, <1>5, FreshWorker DEF RecordInv
<1>13. AnswersInv
  BY <1>1, <1>10 DEF AnswersInv
<1>14. WorkerInv
  BY <1>4, <1>5, <1>6, FreshWorker DEF WorkerInv
<1>15. HintsInv
  BY <1>4, FreshWorker, FreshChannels DEF HintsInv
<1>16. VerdictInv
  BY <1>1 DEF VerdictInv
<1>. QED
  BY <1>3, <1>7, <1>11, <1>12, <1>13, <1>14, <1>15, <1>16 DEF CollectionInv

(* What nothing touched. *)
LEMMA CollectionUntouched ==
  ASSUME CollectionInv, UNCHANGED collectionVars PROVE CollectionInv'
<1>1. UNCHANGED <<journal, collector, worker, server>>
  BY DEF collectionVars, adapterVars, workerVars, collectorVars
<1>2. CollectorInv' /\ KnowledgeInv' /\ JournalInv'
  BY <1>1 DEF CollectionInv, CollectorInv, KnowledgeInv, Idle, Quiet, JournalInv, JournalTypes
<1>3. RecordInv' /\ AnswersInv' /\ WorkerInv' /\ HintsInv' /\ VerdictInv'
  BY <1>1 DEF CollectionInv, RecordInv, Recorded, AnswersInv, Holds, Says, Idle, WorkerInv,
              HintsInv, VerdictInv, AnsweredInFull
<1>. QED
  BY <1>2, <1>3 DEF CollectionInv

-----------------------------------------------------------------------------
(* Steps of the worker, the server and other clients *)

LEMMA EnvironmentKeeps ==
  ASSUME CollectionInv, UNCHANGED <<journal, collector>>, WorkerInv', HintsInv',
         worker.at = "none" => worker' = worker,
         Idle => server'.work = 0 /\ (server'.loaded => server.loaded),
         \A q \in Requests :
           server'.received[q] # server.received[q] =>
             q = collector.next /\ server'.received[q] = 1 /\ worker.at # "none",
         \A q \in Requests :
           server'.answer[q] # server.answer[q] => q = collector.next /\ ~ Idle
  PROVE  CollectionInv'
<1>1. CollectorInv' /\ JournalInv'
  BY DEF CollectionInv, CollectorInv, JournalInv, JournalTypes
<1>2. Idle => Idle'
  BY FreshWorker DEF Idle
<1>3. Quiet => Quiet'
  BY <1>2 DEF Quiet, Idle
<1>4. KnowledgeInv'
  BY <1>2, <1>3 DEF CollectionInv, KnowledgeInv
<1>5. \A kind, q : Recorded(kind, q)' <=> Recorded(kind, q)
  BY DEF Recorded
<1>6. RecordInv'
  <2>1. worker'.at # "none" => worker.at # "none"
    OBVIOUS
  <2>2. ASSUME NEW q \in Requests, server'.received[q] # 0
        PROVE  /\ server'.received[q] = 1 /\ Recorded("dispatch", q) /\ q <= collector.next
               /\ q = collector.next => collector.at \notin Before
    <3>1. CASE server'.received[q] = server.received[q]
      BY <2>2, <3>1 DEF CollectionInv, RecordInv
    <3>2. CASE server'.received[q] # server.received[q]
      <4>1. q = collector.next /\ server'.received[q] = 1 /\ worker.at # "none"
        BY <3>2
      <4>2. collector.at \notin Before /\ collector.next <= N
        BY <4>1 DEF CollectionInv, WorkerInv, Ending, Before
      <4>. QED
        BY <4>1, <4>2, RequestsAreNumbered DEF CollectionInv, RecordInv
    <3>. QED  BY <3>1, <3>2
  <2>. QED  BY <1>5, <2>1, <2>2 DEF CollectionInv, RecordInv
<1>7. AnswersInv'
  <2>1. ASSUME NEW event \in Range(journal.disk), Holds(event)
        PROVE  Holds(event)'
    BY <1>2, <2>1 DEF Holds, Says
  <2>2. ASSUME collector.at = "returned" PROVE Says(collector.next, collector.receipt)'
    <3>1. Idle /\ collector.next \in Requests
      BY <2>2, RequestsAreNumbered
      DEF CollectionInv, KnowledgeInv, Known, CollectorInv, Collectors
    <3>. QED  BY <2>2, <3>1 DEF CollectionInv, AnswersInv, Says
  <2>. QED  BY <2>1, <2>2 DEF CollectionInv, AnswersInv
<1>8. VerdictInv'
  <2>1. SUFFICES ASSUME collector.verdict = "positive" PROVE AnsweredInFull'
    BY DEF VerdictInv
  <2>2. Idle /\ AnsweredInFull
    BY <2>1 DEF CollectionInv, VerdictInv, CollectorInv, KnowledgeInv, Known
  <2>3. \A q \in Requests : server'.answer[q] = server.answer[q]
    BY <2>2
  <2>4. {c \in Cases : \E q \in CandidateRequests :
           CaseOf(q) = c /\ server'.answer[q].content = "right"} =
        {c \in Cases : \E q \in CandidateRequests :
           CaseOf(q) = c /\ server.answer[q].content = "right"}
    BY <2>3 DEF CandidateRequests
  <2>. QED  BY <2>2, <2>3, <2>4 DEF AnsweredInFull, CandidateRequests
<1>. QED
  BY <1>1, <1>4, <1>6, <1>7, <1>8 DEF CollectionInv

(* A step of the running worker that leaves the server alone. *)
LEMMA WorkerKeeps ==
  ASSUME CollectionInv, UNCHANGED <<journal, collector, server>>, worker.at # "none",
         worker' \in Workers, worker'.at # "none", HintsInv',
         worker'.request = worker.request, worker'.posts <= 1,
         ~ worker'.delivered => ~ worker.delivered,
         worker'.posts = 0 => ~ worker'.delivered /\ worker'.at # "sending",
         worker'.finished =>
           /\ server.work = 0 /\ worker'.posts = 1 /\ worker'.at # "sending"
           /\ worker'.parsed = server.answer[collector.next] /\ worker'.parsed \in Answers
  PROVE  CollectionInv'
<1>1. WorkerInv'
  BY DEF CollectionInv, WorkerInv
<1>2. ~ Idle
  BY FreshWorker DEF Idle
<1>. QED
  BY <1>1, <1>2, EnvironmentKeeps

(* report_progress changes the channel and nothing else of a worker. *)
LEMMA ReportedWorker ==
  ASSUME NEW next \in Workers, Reports(next)
  PROVE  /\ worker' \in Workers
         /\ worker'.at = next.at /\ worker'.request = next.request
         /\ worker'.posts = next.posts /\ worker'.bytes = next.bytes
         /\ worker'.refused = next.refused /\ worker'.delivered = next.delivered
         /\ worker'.finished = next.finished /\ worker'.parsed = next.parsed
         /\ \A p, b \in Nat :
              p <= next.posts /\ b <= next.bytes /\ Sound(next.channel, p, b) =>
                Sound(worker'.channel, next.posts, next.bytes)
<1>1. PICK channel \in Emit(next.channel, next.posts, next.bytes) :
        worker' = [next EXCEPT !.channel = channel]
  BY DEF Reports
<1>2. next.channel \in Channels /\ next.posts \in Nat /\ next.bytes \in Nat
  BY DEF Workers
<1>3. channel \in Channels
  BY <1>2, EmittedIsSound
<1>4. worker' \in Workers /\ worker'.channel = channel
  BY <1>1, <1>3 DEF Workers
<1>5. /\ worker'.at = next.at /\ worker'.request = next.request
      /\ worker'.posts = next.posts /\ worker'.bytes = next.bytes
      /\ worker'.refused = next.refused /\ worker'.delivered = next.delivered
      /\ worker'.finished = next.finished /\ worker'.parsed = next.parsed
  BY <1>1 DEF Workers
<1>. QED
  BY <1>2, <1>4, <1>5, EmittedIsSound

(* What is complete is all of the answer. *)
LEMMA CompleteIsWhole ==
  ASSUME NEW answer \in Answers, NEW n \in 0 .. Len(StreamOf(answer)),
         IsCompleteStream(SubSeq(StreamOf(answer), 1, n))
  PROVE  ParsedResponse(SubSeq(StreamOf(answer), 1, n), answer) = answer
<1>. DEFINE Part == [text : {0, 1}, finish : {"none", "stop", "length"}, done : BOOLEAN]
            stream == StreamOf(answer)
            read == SubSeq(stream, 1, n)
<1>1. answer.finish \in {"stop", "length"}
  BY CollectionAssumption DEF CollectionAssumption
<1>2. /\ stream \in Seq(Part) /\ Len(stream) = 4
      /\ ~ stream[1].done /\ ~ stream[2].done /\ ~ stream[3].done
  BY <1>1 DEF StreamOf
<1>. HIDE DEF stream, Part
<1>3. /\ read \in Seq(Part) /\ Len(read) = n /\ n \in 0 .. 4
      /\ DOMAIN read = 1 .. n /\ \A i \in 1 .. n : read[i] = stream[i]
  <2>1. n \in 0 .. 4
    BY <1>2 DEF stream
  <2>2. /\ read \in Seq(Part) /\ Len(read) = IF 1 <= n THEN n - 1 + 1 ELSE 0
        /\ \A i \in 1 .. n - 1 + 1 : read[i] = stream[1 + i - 1]
    <3>1. \A i \in 1 .. n : stream[i] \in Part
      <4>1. 1 .. n \subseteq 1 .. Len(stream)
        BY <1>2, <2>1
      <4>. QED  BY <1>2, <4>1, ElementOfSeq
    <3>2. n \in Int /\ 1 \in Int
      BY <2>1
    <3>. QED  BY <3>1, <3>2, SubSeqProperties
  <2>. HIDE DEF read
  <2>3. Len(read) = n
    BY <2>1, <2>2
  <2>. QED  BY <2>1, <2>2, <2>3
<1>4. \E i \in DOMAIN read : read[i].done /\ i = Len(read)
  <2>1. IsCompleteStream(read)
    BY DEF stream
  <2>2. {i \in DOMAIN read : read[i].done} = {Len(read)}
    BY <2>1, Zenon DEF IsCompleteStream
  <2>. QED  BY <2>2
<1>5. n = 4
  <2>1. n \in 1 .. 4 /\ read[n].done /\ read[n] = stream[n]
    BY <1>3, <1>4
  <2>. QED  BY <1>2, <2>1
<1>6. read = stream
  BY <1>2, <1>5, SubSeqFull
<1>7. IsPrefix(SubSeq(stream, 1, 2), stream)
  <2>1. /\ SubSeq(stream, 1, 2) \in Seq(Part) /\ Len(SubSeq(stream, 1, 2)) = 2
    BY <1>2, SubSeqProperties, 1 \in 1 .. 4 + 1, 2 \in 0 .. 4
  <2>2. SubSeq(SubSeq(stream, 1, 2), 1, 2) = SubSeq(stream, 1, 2)
    BY <2>1, SubSeqFull
  <2>. QED  BY <1>2, <2>1, <2>2 DEF IsPrefix
<1>. QED
  BY <1>6, <1>7 DEF ParsedResponse, stream

LEMMA WorkerPreserved ==
  ASSUME CollectionInv, WorkerStep, UNCHANGED collectorVars
  PROVE  CollectionInv'
<1>. USE DEF collectorVars
<1>0. /\ worker \in Workers /\ server \in Servers /\ WorkerInv /\ HintsInv
      /\ worker.posts \in Nat /\ worker.bytes \in Nat /\ worker.channel \in Channels
  BY DEF CollectionInv, WorkerInv, Workers
<1>a. worker.at # "none" =>
        /\ worker.posts <= 1
        /\ worker.posts = 0 => ~ worker.delivered /\ worker.at # "sending"
        /\ worker.finished =>
             /\ server.work = 0 /\ worker.posts = 1 /\ worker.at # "sending"
             /\ worker.parsed = server.answer[collector.next] /\ worker.parsed \in Answers
  BY <1>0 DEF WorkerInv
<1>1. CASE SendMetadata
  <2>. DEFINE next == [worker EXCEPT !.metadata = worker.metadata + 1]
  <2>1. worker.at = "agent" /\ Reports(next) /\ UNCHANGED server
    BY <1>1 DEF SendMetadata
  <2>2. /\ next \in Workers
        /\ next.at = worker.at /\ next.request = worker.request
        /\ next.posts = worker.posts /\ next.bytes = worker.bytes
        /\ next.refused = worker.refused /\ next.delivered = worker.delivered
        /\ next.finished = worker.finished /\ next.parsed = worker.parsed
        /\ next.channel = worker.channel
    BY <1>0 DEF Workers
  <2>. HIDE DEF next
  <2>3. HintsInv'
    BY <1>0, <2>1, <2>2, ReportedWorker DEF HintsInv
  <2>. QED
    BY <1>0, <1>a, <2>1, <2>2, <2>3, ReportedWorker, WorkerKeeps
<1>2. CASE RefuseGeneration
  <2>. DEFINE bytes == IF worker.posts = 0 THEN 2 ELSE worker.bytes
  <2>1. /\ worker.at = "agent" /\ UNCHANGED server
        /\ worker' = [worker EXCEPT !.refused = TRUE, !.bytes = bytes]
    BY <1>0, <1>2 DEF RefuseGeneration, Workers
  <2>2. bytes \in Nat
    BY <1>0
  <2>. HIDE DEF bytes
  <2>3. /\ worker' \in Workers
        /\ worker'.at = worker.at /\ worker'.request = worker.request
        /\ worker'.posts = worker.posts
        /\ worker'.refused /\ worker'.delivered = worker.delivered
        /\ worker'.finished = worker.finished /\ worker'.parsed = worker.parsed
    BY <1>0, <2>1, <2>2 DEF Workers
  <2>4. HintsInv'
    BY <2>3 DEF HintsInv
  <2>. QED
    BY <1>0, <1>a, <2>1, <2>3, <2>4, WorkerKeeps
<1>3. CASE SendGeneration
  <2>. DEFINE next == [worker EXCEPT !.at = "sending", !.posts = 1, !.bytes = 1,
                                     !.delivered = FALSE]
  <2>1. worker.at = "agent" /\ worker.posts = 0 /\ Reports(next) /\ UNCHANGED server
    BY <1>3 DEF SendGeneration, MaySend
  <2>2. /\ next \in Workers
        /\ next.at = "sending" /\ next.request = worker.request
        /\ next.posts = 1 /\ next.bytes = 1
        /\ next.refused = worker.refused /\ next.delivered = FALSE
        /\ next.finished = worker.finished /\ next.parsed = worker.parsed
        /\ next.channel = worker.channel
    BY <1>0 DEF Workers
  <2>. HIDE DEF next
  <2>3. HintsInv'
    BY <1>0, <2>1, <2>2, ReportedWorker DEF HintsInv
  <2>. QED
    BY <1>0, <1>a, <2>1, <2>2, <2>3, ReportedWorker, WorkerKeeps
<1>4. CASE DenyContinuation
  <2>1. /\ worker.at = "agent" /\ UNCHANGED server
        /\ worker' = [worker EXCEPT !.denied = TRUE]
    BY <1>4 DEF DenyContinuation
  <2>2. /\ worker' \in Workers
        /\ worker'.at = worker.at /\ worker'.request = worker.request
        /\ worker'.posts = worker.posts /\ worker'.bytes = worker.bytes
        /\ worker'.refused = worker.refused /\ worker'.delivered = worker.delivered
        /\ worker'.finished = worker.finished /\ worker'.parsed = worker.parsed
        /\ worker'.channel = worker.channel
    BY <1>0, <2>1 DEF Workers
  <2>3. HintsInv'
    BY <1>0, <2>2 DEF HintsInv
  <2>. QED
    BY <1>0, <1>a, <2>1, <2>2, <2>3, WorkerKeeps
<1>5. CASE ReturnResponse
  <2>. DEFINE answer == server.answer[worker.request]
              stream == StreamOf(answer)
              Next1(n) == [worker EXCEPT !.at = "agent", !.finished = TRUE,
                             !.parsed = ParsedResponse(SubSeq(stream, 1, n), answer)]
  <2>1. /\ worker.at = "sending" /\ worker.delivered /\ server.work = 0
        /\ answer # NoAnswer /\ UNCHANGED server
        /\ \E n \in 0 .. Len(stream) :
             IsCompleteStream(SubSeq(stream, 1, n)) /\ Reports(Next1(n))
    BY <1>5 DEF ReturnResponse
  <2>2. PICK n \in 0 .. Len(stream) :
          IsCompleteStream(SubSeq(stream, 1, n)) /\ Reports(Next1(n))
    BY <2>1
  <2>3. worker.request = collector.next /\ collector.next \in Requests /\ worker.posts = 1
    BY <1>0, <2>1, RequestsAreNumbered
    DEF WorkerInv, CollectionInv, CollectorInv, Collectors
  <2>4. answer \in Answers
    BY <1>0, <2>1, <2>3 DEF Servers
  <2>5. ParsedResponse(SubSeq(stream, 1, n), answer) = answer
    BY <2>2, <2>4, CompleteIsWhole
  <2>. DEFINE next == [worker EXCEPT !.at = "agent", !.finished = TRUE, !.parsed = answer]
  <2>6. Reports(next)
    BY <2>2, <2>5
  <2>. HIDE DEF answer, stream
  <2>7. /\ next \in Workers
        /\ next.at = "agent" /\ next.request = worker.request
        /\ next.posts = worker.posts /\ next.bytes = worker.bytes
        /\ next.refused = worker.refused /\ next.delivered = worker.delivered
        /\ next.finished = TRUE /\ next.parsed = answer
        /\ next.channel = worker.channel
    BY <1>0, <2>4 DEF Workers
  <2>. HIDE DEF next
  <2>8. HintsInv'
    BY <1>0, <2>6, <2>7, ReportedWorker DEF HintsInv
  <2>9. answer = server.answer[collector.next]
    BY <2>3 DEF answer
  <2>. QED
    BY <1>0, <1>a, <2>1, <2>3, <2>4, <2>6, <2>7, <2>8, <2>9, ReportedWorker, WorkerKeeps
<1>6. CASE FailGeneration
  <2>1. /\ worker.at = "sending" /\ UNCHANGED server
        /\ worker' = [worker EXCEPT !.at = "agent"]
    BY <1>6 DEF FailGeneration
  <2>2. /\ worker' \in Workers
        /\ worker'.at = "agent" /\ worker'.request = worker.request
        /\ worker'.posts = worker.posts /\ worker'.bytes = worker.bytes
        /\ worker'.refused = worker.refused /\ worker'.delivered = worker.delivered
        /\ worker'.finished = worker.finished /\ worker'.parsed = worker.parsed
        /\ worker'.channel = worker.channel
    BY <1>0, <2>1 DEF Workers
  <2>3. HintsInv'
    BY <1>0, <2>2 DEF HintsInv
  <2>. QED
    BY <1>0, <1>a, <2>1, <2>2, <2>3, WorkerKeeps
<1>7. ASSUME NEW completed \in BOOLEAN, NEW matches \in BOOLEAN,
             ReturnNative(completed, matches)
      PROVE  CollectionInv'
  <2>. DEFINE next == [worker EXCEPT !.at = "exited", !.completed = completed,
                                     !.matches = matches]
  <2>1. worker.at = "agent" /\ Reports(next) /\ UNCHANGED server
    BY <1>7 DEF ReturnNative
  <2>2. /\ next \in Workers
        /\ next.at = "exited" /\ next.request = worker.request
        /\ next.posts = worker.posts /\ next.bytes = worker.bytes
        /\ next.refused = worker.refused /\ next.delivered = worker.delivered
        /\ next.finished = worker.finished /\ next.parsed = worker.parsed
        /\ next.channel = worker.channel
    BY <1>0 DEF Workers
  <2>. HIDE DEF next
  <2>3. HintsInv'
    BY <1>0, <2>1, <2>2, ReportedWorker DEF HintsInv
  <2>. QED
    BY <1>0, <1>a, <2>1, <2>2, <2>3, ReportedWorker, WorkerKeeps
<1>. QED
  BY <1>1, <1>2, <1>3, <1>4, <1>5, <1>6, <1>7 DEF WorkerStep

LEMMA ServerPreserved ==
  ASSUME CollectionInv, ServerReceives \/ ServerAnswers \/ ForeignUse,
         UNCHANGED collectorVars
  PROVE  CollectionInv'
<1>. USE DEF collectorVars
<1>0. /\ worker \in Workers /\ server \in Servers /\ WorkerInv /\ HintsInv
      /\ collector.next \in Nat /\ collector.next >= 1
  BY DEF CollectionInv, WorkerInv, CollectorInv, Collectors
<1>1. CASE ServerReceives
  <2>. DEFINE q == worker.request
              received == [server.received EXCEPT ![q] = server.received[q] + 1]
  <2>1. /\ worker.at = "sending" /\ ~ worker.delivered /\ server.work = 0
        /\ q = collector.next /\ q \in Requests /\ server.received[q] = 0
        /\ worker.posts = 1 /\ ~ worker.finished
    <3>1. worker.at = "sending" /\ ~ worker.delivered /\ server.work = 0
      BY <1>1 DEF ServerReceives
    <3>2. worker.posts \in Nat
      BY <1>0 DEF Workers
    <3>. QED  BY <1>0, <3>1, <3>2, RequestsAreNumbered DEF WorkerInv
  <2>2. server' = [server EXCEPT !.loaded = TRUE, !.work = q, !.received = received]
    BY <1>0, <1>1, <2>1 DEF ServerReceives, Servers
  <2>3. worker' = [worker EXCEPT !.delivered = TRUE]
    BY <1>1 DEF ServerReceives
  <2>4. received \in [Requests -> Nat] /\ q \in 0 .. N
    BY <1>0, <2>1, RequestsAreNumbered DEF Servers
  <2>. HIDE DEF received
  <2>5. /\ server' \in Servers /\ server'.work = q /\ server'.received = received
        /\ server'.answer = server.answer
    BY <1>0, <2>2, <2>4 DEF Servers
  <2>6. \A p \in Requests : received[p] = IF p = q THEN 1 ELSE server.received[p]
    BY <1>0, <2>1 DEF received, Servers
  <2>7. /\ worker' \in Workers
        /\ worker'.at = worker.at /\ worker'.request = worker.request
        /\ worker'.posts = worker.posts /\ worker'.bytes = worker.bytes
        /\ worker'.refused = worker.refused /\ worker'.delivered
        /\ worker'.finished = worker.finished
        /\ worker'.channel = worker.channel
    BY <1>0, <2>3 DEF Workers
  <2>8. WorkerInv'
    BY <1>0, <2>1, <2>5, <2>7 DEF WorkerInv
  <2>9. HintsInv'
    BY <1>0, <2>7 DEF HintsInv
  <2>10. ~ Idle
    BY <2>1, FreshWorker DEF Idle
  <2>. QED
    BY <2>1, <2>5, <2>6, <2>8, <2>9, <2>10, EnvironmentKeeps
<1>2. CASE ServerAnswers
  <2>2. server.work # 0 /\ server.work = collector.next /\ UNCHANGED worker
    BY <1>0, <1>2 DEF ServerAnswers, WorkerInv
  <2>a. server.work \in Requests
    BY <1>0, <2>2, RequestsAreNumbered DEF Servers
  <2>b. PICK q \in Requests : q = server.work
    BY <2>a
  <2>1. PICK answer \in Answers :
          server' = [server EXCEPT !.work = 0, !.answer[q] = answer]
    BY <1>2, <2>b DEF ServerAnswers
  <2>. DEFINE answers == [server.answer EXCEPT ![q] = answer]
  <2>3. server' = [server EXCEPT !.work = 0, !.answer = answers]
    BY <1>0, <2>1 DEF Servers
  <2>4. answers \in [Requests -> Answers \cup {NoAnswer}] /\ 0 \in 0 .. N
    BY <1>0, RequestsAreNumbered DEF Servers
  <2>5. \A p \in Requests : answers[p] # server.answer[p] => p = collector.next
    BY <1>0, <2>2, <2>b DEF Servers
  <2>. HIDE DEF answers
  <2>6. /\ server' \in Servers /\ server'.work = 0 /\ server'.received = server.received
        /\ server'.answer = answers /\ server'.loaded = server.loaded
    BY <1>0, <2>3, <2>4 DEF Servers
  <2>7. WorkerInv'
    BY <1>0, <2>2, <2>6 DEF WorkerInv
  <2>8. HintsInv' /\ ~ Idle
    BY <1>0, <2>2 DEF HintsInv, Idle
  <2>. QED
    BY <2>2, <2>5, <2>6, <2>7, <2>8, EnvironmentKeeps
<1>3. CASE ForeignUse
  <2>1. server' = [server EXCEPT !.foreign = ~ server.foreign] /\ UNCHANGED worker
    BY <1>0, <1>3 DEF ForeignUse, Servers
  <2>2. /\ server' \in Servers /\ server'.work = server.work
        /\ server'.received = server.received
        /\ server'.answer = server.answer /\ server'.loaded = server.loaded
    BY <1>0, <2>1 DEF Servers
  <2>3. WorkerInv' /\ HintsInv'
    BY <1>0, <2>1, <2>2 DEF WorkerInv, HintsInv
  <2>. QED
    BY <2>1, <2>2, <2>3, EnvironmentKeeps DEF Idle
<1>. QED
  BY <1>1, <1>2, <1>3

LEMMA HostPreserved ==
  ASSUME CollectionInv, HostReads, UNCHANGED collectorVars
  PROVE  CollectionInv'
<1>. USE DEF collectorVars
<1>0. /\ worker \in Workers /\ server \in Servers /\ WorkerInv /\ HintsInv
      /\ worker.posts \in Nat /\ worker.bytes \in Nat /\ worker.channel \in Channels
  BY DEF CollectionInv, WorkerInv, Workers
<1>. DEFINE channel == Receive(worker.channel)
<1>1. /\ Readable(worker.channel) /\ UNCHANGED server
      /\ worker' = [worker EXCEPT !.channel = channel]
  BY <1>0 DEF HostReads, Workers
<1>2. /\ channel \in Channels
      /\ worker.posts <= 1 /\ Sound(worker.channel, worker.posts, worker.bytes) =>
           Sound(channel, worker.posts, worker.bytes)
  BY <1>0, <1>1, ReceivedIsSound
<1>. HIDE DEF channel
<1>3. /\ worker' \in Workers
      /\ worker'.at = worker.at /\ worker'.request = worker.request
      /\ worker'.posts = worker.posts /\ worker'.bytes = worker.bytes
      /\ worker'.refused = worker.refused /\ worker'.delivered = worker.delivered
      /\ worker'.finished = worker.finished /\ worker'.parsed = worker.parsed
      /\ worker'.channel = channel
  BY <1>0, <1>1, <1>2 DEF Workers
<1>4. worker.at # "none"
  BY <1>0, <1>1, FreshWorker DEF WorkerInv, Readable, NoChannel
<1>5. HintsInv'
  BY <1>0, <1>2, <1>3 DEF HintsInv
<1>. QED
  BY <1>0, <1>1, <1>3, <1>4, <1>5, WorkerKeeps DEF WorkerInv

-----------------------------------------------------------------------------
(* The journal *)

LEMMA RecordingLimitsAreNumbers ==
  ASSUME JournalTypes
  PROVE  /\ journal.events \in Seq(Events) /\ journal.disk \in Seq(Events)
         /\ journal.size \in Nat /\ journal.failures \in Nat
         /\ journal.limit \in RecordingLimits /\ journal.limit \in Nat
         /\ Reserve \in Nat /\ Reserve >= 2 /\ journal.limit >= Reserve
<1>1. /\ journal.events \in Seq(Events) /\ journal.disk \in Seq(Events)
      /\ journal.size \in Nat /\ journal.failures \in Nat
      /\ journal.limit \in RecordingLimits
  BY DEF JournalTypes, Journals
<1>. QED
  BY <1>1, CollectionAssumption DEF CollectionAssumption

LEMMA Sizes ==
  ASSUME NEW event
  PROVE  /\ SizeOf(event) \in 1 .. 2
         /\ event.receipt.status # "completed" => SizeOf(event) = 1
BY DEF SizeOf

(* An append adds the event, and leaves the reserve unless it may use it. *)
LEMMA Appends ==
  ASSUME JournalTypes, NEW event \in Events, NEW emergency \in BOOLEAN,
         Append1(event, emergency)
  PROVE  /\ JournalTypes'
         /\ journal'.events = Append(journal.events, event)
         /\ Range(journal'.disk) = Range(journal.disk) \cup {event}
         /\ Last(journal'.disk) = event
         /\ journal'.size = journal.size + SizeOf(event)
         /\ journal'.limit = journal.limit /\ journal'.failures = journal.failures
         /\ ~ emergency => journal'.size <= journal.limit - Reserve
<1>. DEFINE events == Append(journal.events, event)
            disk == Append(journal.disk, event)
            size == journal.size + SizeOf(event)
<1>1. journal' = [journal EXCEPT !.events = events, !.disk = disk, !.size = size]
  BY DEF Append1, JournalTypes, Journals
<1>2. size \in Nat
  BY RecordingLimitsAreNumbers, Sizes
<1>3. /\ events \in Seq(Events) /\ Range(events) = Range(journal.events) \cup {event}
      /\ disk \in Seq(Events) /\ Range(disk) = Range(journal.disk) \cup {event}
      /\ Last(disk) = event
      /\ journal.disk = journal.events => disk = events
  BY RecordingLimitsAreNumbers, Appended
<1>4. ~ emergency => size <= journal.limit - Reserve
  BY DEF Append1, Fits
<1>. HIDE DEF events, disk, size
<1>5. /\ journal' \in Journals /\ journal'.events = events /\ journal'.disk = disk
      /\ journal'.size = size /\ journal'.limit = journal.limit
      /\ journal'.failures = journal.failures
  <2>. DEFINE Logs == Seq(Events)
  <2>1. Journals = [events : Logs, disk : Logs, size : Nat, limit : RecordingLimits,
                    failures : Nat]
    BY DEF Journals
  <2>2. events \in Logs /\ disk \in Logs /\ journal \in Journals
    BY <1>3 DEF JournalTypes
  <2>. HIDE DEF Logs
  <2>. QED  BY <1>1, <1>2, <2>1, <2>2
<1>6. JournalTypes'
  BY <1>3, <1>5 DEF JournalTypes
<1>. QED
  BY <1>3, <1>4, <1>5, <1>6 DEF events, size

(* One that raises may have linked the name, and blames the storage unless the
   event did not fit. *)
LEMMA Raises ==
  ASSUME JournalTypes, NEW event \in Events, NEW emergency \in BOOLEAN,
         AppendRaises(event, emergency)
  PROVE  /\ JournalTypes'
         /\ Range(journal.disk) \subseteq Range(journal'.disk)
         /\ Range(journal'.disk) \subseteq Range(journal.disk) \cup {event}
         /\ journal'.events = journal.events
         /\ journal'.size = journal.size /\ journal'.limit = journal.limit
         /\ journal'.failures = 0 => ~ Fits(event, emergency)
<1>1. CASE (~Fits(event, emergency) \/ ~NameIsFree) /\ UNCHANGED journal
  <2>1. journal.failures = 0 => NameIsFree
    BY DEF JournalTypes, NameIsFree
  <2>2. JournalTypes'
    BY <1>1 DEF JournalTypes
  <2>. QED  BY <1>1, <2>1, <2>2
<1>2. ASSUME NEW disk \in {journal.disk, Append(journal.disk, event)},
             journal' = [journal EXCEPT !.disk = disk, !.failures = @ + 1]
      PROVE  /\ JournalTypes'
             /\ Range(journal.disk) \subseteq Range(journal'.disk)
             /\ Range(journal'.disk) \subseteq Range(journal.disk) \cup {event}
             /\ journal'.events = journal.events
             /\ journal'.size = journal.size /\ journal'.limit = journal.limit
             /\ journal'.failures # 0
  <2>. DEFINE failures == journal.failures + 1
  <2>1. journal' = [journal EXCEPT !.disk = disk, !.failures = failures]
    BY <1>2 DEF JournalTypes, Journals
  <2>2. failures \in Nat /\ failures # 0
    BY RecordingLimitsAreNumbers
  <2>3. /\ disk \in Seq(Events) /\ Range(journal.disk) \subseteq Range(disk)
        /\ Range(disk) \subseteq Range(journal.disk) \cup {event}
    <3>1. journal.disk \in Seq(Events)
      BY RecordingLimitsAreNumbers
    <3>2. /\ Append(journal.disk, event) \in Seq(Events)
          /\ Range(Append(journal.disk, event)) = Range(journal.disk) \cup {event}
      BY <3>1, Appended
    <3>3. CASE disk = journal.disk
      BY <3>1, <3>3
    <3>4. CASE disk = Append(journal.disk, event)
      BY <3>2, <3>4
    <3>. QED  BY <1>2, <3>3, <3>4
  <2>. HIDE DEF failures
  <2>4. /\ journal' \in Journals /\ journal'.events = journal.events /\ journal'.disk = disk
        /\ journal'.size = journal.size /\ journal'.limit = journal.limit
        /\ journal'.failures = failures
    <3>. DEFINE Logs == Seq(Events)
    <3>1. Journals = [events : Logs, disk : Logs, size : Nat, limit : RecordingLimits,
                      failures : Nat]
      BY DEF Journals
    <3>2. disk \in Logs /\ journal \in Journals
      BY <2>3 DEF JournalTypes
    <3>. HIDE DEF Logs
    <3>. QED  BY <2>1, <2>2, <3>1, <3>2
  <2>5. JournalTypes'
    BY <2>2, <2>3, <2>4 DEF JournalTypes
  <2>. QED  BY <2>2, <2>3, <2>4, <2>5
<1>. QED
  BY <1>1, <1>2 DEF AppendRaises

-----------------------------------------------------------------------------
(* Steps of the collector *)

LEMMA Moves ==
  ASSUME CollectorInv, NEW place \in Places,
         Goes(place) \/ \E u, s, f \in BOOLEAN : Claims(place, u, s, f)
  PROVE  /\ collector' \in Collectors /\ collector'.at = place
         /\ collector'.next = collector.next /\ collector'.receipt = collector.receipt
         /\ collector'.verdict = collector.verdict
<1>1. collector \in Collectors
  BY DEF CollectorInv
<1>2. CASE Goes(place)
  BY <1>1, <1>2 DEF Goes, Collectors
<1>3. ASSUME NEW u \in BOOLEAN, NEW s \in BOOLEAN, NEW f \in BOOLEAN, Claims(place, u, s, f)
      PROVE  /\ collector' \in Collectors /\ collector'.at = place
             /\ collector'.next = collector.next /\ collector'.receipt = collector.receipt
             /\ collector'.verdict = collector.verdict
  BY <1>1, <1>3 DEF Claims, Collectors
<1>. QED
  BY <1>2, <1>3

LEMMA Gone ==
  ASSUME CollectorInv, NEW place, Goes(place)
  PROVE  /\ collector'.uncertain = collector.uncertain
         /\ collector'.started = collector.started
         /\ collector'.finished = collector.finished
BY DEF Goes, CollectorInv, Collectors

LEMMA Claimed ==
  ASSUME CollectorInv, NEW place, NEW u \in BOOLEAN, NEW s \in BOOLEAN, NEW f \in BOOLEAN,
         Claims(place, u, s, f)
  PROVE  collector'.uncertain = u /\ collector'.started = s /\ collector'.finished = f
BY DEF Claims, CollectorInv, Collectors

(* A step of the collector that neither starts nor ends a call of generate. *)
LEMMA CollectorKeeps ==
  ASSUME CollectionInv, CollectorInv', KnowledgeInv', JournalInv', VerdictInv',
         UNCHANGED worker, server' \in Servers,
         UNCHANGED <<server.work, server.received, server.answer>>,
         UNCHANGED collector.next,
         Range(journal.disk) \subseteq Range(journal'.disk),
         \A event \in Range(journal'.disk) :
           event \in Range(journal.disk) \/ Holds(event)',
         collector.at \in Ending \cup {"waiting"} => collector'.at \in Ending,
         collector'.at \in Before => collector.at \in Before,
         collector'.at = "generating" => Recorded("dispatch", collector.next)',
         collector'.at \notin {"waiting", "returned"}
  PROVE  CollectionInv'
<1>1. \A kind, q : Recorded(kind, q) => Recorded(kind, q)'
  BY DEF Recorded
<1>2. RecordInv'
  BY <1>1, Zenon DEF CollectionInv, RecordInv
<1>3. Idle => Idle'
  BY DEF Idle
<1>4. \A event : Holds(event) => Holds(event)'
  BY <1>3 DEF Holds, Says
<1>5. AnswersInv'
  BY <1>4 DEF CollectionInv, AnswersInv
<1>6. WorkerInv'
  BY DEF CollectionInv, WorkerInv
<1>7. HintsInv'
  BY DEF CollectionInv, HintsInv
<1>. QED
  BY <1>2, <1>5, <1>6, <1>7 DEF CollectionInv

(* An event that is no response is not held to anything. *)
LEMMA UnrespondedHolds ==
  ASSUME NEW event, event.receipt.status # "completed"
  PROVE  Holds(event)'
BY DEF Holds

(* A plain event written, or not. *)
LEMMA PlainWritten ==
  ASSUME CollectionInv, NEW event \in Events, event.receipt.status # "completed",
         NEW emergency \in BOOLEAN, Append1(event, emergency)
  PROVE  /\ JournalTypes'
         /\ Range(journal.disk) \subseteq Range(journal'.disk)
         /\ event \in Range(journal'.disk) /\ Last(journal'.disk) = event
         /\ \A e \in Range(journal'.disk) : e \in Range(journal.disk) \/ Holds(e)'
         /\ journal'.size = journal.size + 1 /\ journal'.limit = journal.limit
         /\ ~ emergency => journal'.size <= journal'.limit - Reserve
<1>1. JournalTypes
  BY DEF CollectionInv, JournalInv
<1>2. Holds(event)'
  BY UnrespondedHolds
<1>3. SizeOf(event) = 1
  BY Sizes
<1>. QED
  BY <1>1, <1>2, <1>3, Appends

LEMMA PlainRaises ==
  ASSUME CollectionInv, NEW event \in Events, event.receipt.status # "completed",
         NEW emergency \in BOOLEAN, AppendRaises(event, emergency)
  PROVE  /\ JournalTypes'
         /\ Range(journal.disk) \subseteq Range(journal'.disk)
         /\ \A e \in Range(journal'.disk) : e \in Range(journal.disk) \/ Holds(e)'
         /\ journal'.size = journal.size /\ journal'.limit = journal.limit
         /\ journal'.failures = 0 =>
              journal.size + 1 > journal.limit - (IF emergency THEN 0 ELSE Reserve)
<1>1. JournalTypes
  BY DEF CollectionInv, JournalInv
<1>2. Holds(event)'
  BY UnrespondedHolds
<1>3. SizeOf(event) = 1
  BY Sizes
<1>4. /\ JournalTypes'
      /\ Range(journal.disk) \subseteq Range(journal'.disk)
      /\ Range(journal'.disk) \subseteq Range(journal.disk) \cup {event}
      /\ journal'.size = journal.size /\ journal'.limit = journal.limit
      /\ journal'.failures = 0 => ~ Fits(event, emergency)
  BY <1>1, Raises
<1>5. ~ Fits(event, emergency) =>
        journal.size + 1 > journal.limit - (IF emergency THEN 0 ELSE Reserve)
  BY <1>1, <1>3, RecordingLimitsAreNumbers DEF Fits
<1>. QED
  BY <1>2, <1>4, <1>5

(* Wherever an exception is raised, the handler's flags say what is known. *)
LEMMA ExceptsPreserved ==
  ASSUME CollectionInv, Excepts, UNCHANGED <<worker, server>>,
         collector.at \in Before \cup {"waiting", "returned", "polling", "finished", "auditing"},
         JournalTypes', journal'.size = journal.size, journal'.limit = journal.limit,
         Range(journal.disk) \subseteq Range(journal'.disk),
         \A event \in Range(journal'.disk) :
           event \in Range(journal.disk) \/ Holds(event)'
  PROVE  CollectionInv'
<1>0. CollectorInv /\ KnowledgeInv /\ JournalInv
  BY DEF CollectionInv
<1>1. /\ collector' \in Collectors /\ collector'.at = "excepting"
      /\ collector'.next = collector.next /\ collector'.receipt = collector.receipt
      /\ collector'.verdict = collector.verdict
      /\ collector'.uncertain = collector.uncertain
      /\ collector'.started = collector.started
      /\ collector'.finished = collector.finished
  BY <1>0, Moves, Gone DEF Excepts, Places, Ending
<1>2. collector.verdict = "none"
  BY <1>0 DEF CollectorInv, Before
<1>3. CollectorInv' /\ VerdictInv'
  BY <1>1, <1>2 DEF CollectorInv, VerdictInv
<1>4. ~ collector.uncertain =>
        Idle /\ (~ collector.started \/ collector.finished => Quiet)
  BY <1>0 DEF CollectorInv, KnowledgeInv, Before, Known, Empty
<1>5. KnowledgeInv'
  BY <1>1, <1>4 DEF KnowledgeInv, Known, Before, Empty, Idle, Quiet
<1>6. JournalInv'
  BY <1>0, <1>1 DEF JournalInv, Before
<1>7. server' \in Servers
  BY DEF CollectionInv, WorkerInv
<1>. QED
  BY <1>1, <1>3, <1>5, <1>6, <1>7, CollectorKeeps DEF Before, Ending

LEMMA StartingPreserved ==
  ASSUME CollectionInv, WriteManifest \/ CallStart \/ WriteStarted \/ WriteDispatch
  PROVE  CollectionInv'
<1>0. /\ CollectorInv /\ KnowledgeInv /\ JournalInv /\ JournalTypes
      /\ server \in Servers /\ collector \in Collectors
  BY DEF CollectionInv, JournalInv, WorkerInv, CollectorInv
<1>a. /\ Mark("manifest") \in Events /\ Mark("manifest").receipt.status # "completed"
      /\ Mark("started") \in Events /\ Mark("started").receipt.status # "completed"
  BY Marks
<1>b. {"starting", "started", "dispatching", "generating"} \subseteq Places
  BY DEF Places, Known, Before
<1>1. CASE WriteManifest
  <2>0. At("new") /\ UNCHANGED <<worker, server>>
    BY <1>1 DEF WriteManifest, adapterVars, workerVars
  <2>1. CASE Append1(Mark("manifest"), FALSE) /\ Claims("starting", TRUE, FALSE, FALSE)
    <3>1. /\ JournalTypes'
          /\ Range(journal.disk) \subseteq Range(journal'.disk)
          /\ \A e \in Range(journal'.disk) : e \in Range(journal.disk) \/ Holds(e)'
          /\ journal'.size <= journal'.limit - Reserve
      BY <1>a, <2>1, PlainWritten
    <3>2. /\ collector' \in Collectors /\ collector'.at = "starting"
          /\ collector'.next = collector.next /\ collector'.receipt = collector.receipt
          /\ collector'.verdict = collector.verdict /\ collector'.uncertain
      BY <1>0, <1>b, <2>1, Moves, Claimed
    <3>3. CollectorInv' /\ VerdictInv'
      BY <1>0, <2>0, <3>2 DEF CollectorInv, VerdictInv, At
    <3>4. KnowledgeInv'
      BY <1>0, <2>0, <3>2 DEF KnowledgeInv, Known, Before, Empty, Idle, Quiet, At
    <3>5. JournalInv'
      BY <3>1, <3>2 DEF JournalInv
    <3>. QED
      BY <1>0, <2>0, <3>1, <3>2, <3>3, <3>4, <3>5, CollectorKeeps DEF Before, Ending, At
  <2>2. CASE AppendRaises(Mark("manifest"), FALSE) /\ Excepts
    BY <1>a, <2>0, <2>2, PlainRaises, ExceptsPreserved DEF Before, At
  <2>. QED  BY <1>1, <2>1, <2>2 DEF WriteManifest
<1>2. CASE CallStart
  <2>0. At("starting") /\ UNCHANGED <<journal, worker, server>>
    BY <1>2 DEF CallStart, Start, adapterVars, workerVars
  <2>a. /\ JournalTypes' /\ journal'.size = journal.size /\ journal'.limit = journal.limit
        /\ Range(journal.disk) \subseteq Range(journal'.disk)
        /\ \A e \in Range(journal'.disk) : e \in Range(journal.disk)
    BY <1>0, <2>0 DEF JournalTypes
  <2>1. CASE Goes("started")
    <3>2. /\ collector' \in Collectors /\ collector'.at = "started"
          /\ collector'.next = collector.next /\ collector'.receipt = collector.receipt
          /\ collector'.verdict = collector.verdict
          /\ collector'.uncertain = collector.uncertain
      BY <1>0, <1>b, <2>1, Moves, Gone
    <3>3. CollectorInv' /\ VerdictInv'
      BY <1>0, <2>0, <3>2 DEF CollectorInv, VerdictInv, At
    <3>4. KnowledgeInv'
      BY <1>0, <2>0, <3>2 DEF KnowledgeInv, Known, Before, Empty, Idle, Quiet, At
    <3>5. JournalInv'
      BY <1>0, <2>0, <2>a, <3>2 DEF JournalInv, At
    <3>. QED
      BY <1>0, <2>0, <2>a, <3>2, <3>3, <3>4, <3>5, CollectorKeeps DEF Before, Ending, At
  <2>2. CASE Excepts
    BY <2>0, <2>2, <2>a, ExceptsPreserved DEF Before, At
  <2>. QED  BY <1>2, <2>1, <2>2 DEF CallStart
<1>3. CASE WriteStarted
  <2>0. At("started") /\ UNCHANGED <<worker, server>>
    BY <1>3 DEF WriteStarted, adapterVars, workerVars
  <2>1. CASE Append1(Mark("started"), FALSE) /\ Claims("dispatching", FALSE, TRUE, FALSE)
    <3>1. /\ JournalTypes'
          /\ Range(journal.disk) \subseteq Range(journal'.disk)
          /\ \A e \in Range(journal'.disk) : e \in Range(journal.disk) \/ Holds(e)'
          /\ journal'.size <= journal'.limit - Reserve
      BY <1>a, <2>1, PlainWritten
    <3>2. /\ collector' \in Collectors /\ collector'.at = "dispatching"
          /\ collector'.next = collector.next /\ collector'.receipt = collector.receipt
          /\ collector'.verdict = collector.verdict
          /\ collector'.started /\ ~ collector'.finished
      BY <1>0, <1>b, <2>1, Moves, Claimed
    <3>3. CollectorInv' /\ VerdictInv'
      BY <1>0, <2>0, <3>2, RequestsAreNumbered DEF CollectorInv, VerdictInv, At
    <3>4. KnowledgeInv'
      BY <1>0, <2>0, <3>2 DEF KnowledgeInv, Known, Before, Empty, Idle, Quiet, At
    <3>5. JournalInv'
      BY <3>1, <3>2 DEF JournalInv
    <3>. QED
      BY <1>0, <2>0, <3>1, <3>2, <3>3, <3>4, <3>5, CollectorKeeps DEF Before, Ending, At
  <2>2. CASE AppendRaises(Mark("started"), FALSE) /\ Excepts
    BY <1>a, <2>0, <2>2, PlainRaises, ExceptsPreserved DEF Before, At
  <2>. QED  BY <1>3, <2>1, <2>2 DEF WriteStarted
<1>4. CASE WriteDispatch
  <2>. DEFINE dispatch == Event("dispatch", collector.next, NoReceipt)
  <2>0. At("dispatching") /\ UNCHANGED <<worker, server>>
    BY <1>4 DEF WriteDispatch, adapterVars, workerVars
  <2>a. /\ dispatch \in Events /\ dispatch.receipt.status # "completed"
        /\ dispatch.kind = "dispatch" /\ dispatch.request = collector.next
    <3>1. collector.next \in 0 .. N
      BY <1>0, <2>0, RequestsAreNumbered DEF CollectorInv, Collectors, At
    <3>. QED  BY <3>1, Receiptless DEF Event, Events, NoReceipt
  <2>b. \/ Append1(dispatch, FALSE) /\ Claims("generating", TRUE, TRUE, FALSE)
        \/ AppendRaises(dispatch, FALSE) /\ Excepts
    BY <1>4 DEF WriteDispatch
  <2>. HIDE DEF dispatch
  <2>1. CASE Append1(dispatch, FALSE) /\ Claims("generating", TRUE, TRUE, FALSE)
    <3>1. /\ JournalTypes'
          /\ Range(journal.disk) \subseteq Range(journal'.disk)
          /\ dispatch \in Range(journal'.disk)
          /\ \A e \in Range(journal'.disk) : e \in Range(journal.disk) \/ Holds(e)'
          /\ journal'.size <= journal'.limit - Reserve
      BY <2>1, <2>a, PlainWritten
    <3>2. /\ collector' \in Collectors /\ collector'.at = "generating"
          /\ collector'.next = collector.next /\ collector'.receipt = collector.receipt
          /\ collector'.verdict = collector.verdict /\ collector'.uncertain
          /\ collector'.started /\ ~ collector'.finished
      BY <1>0, <1>b, <2>1, Moves, Claimed
    <3>3. CollectorInv' /\ VerdictInv'
      BY <1>0, <2>0, <3>2 DEF CollectorInv, VerdictInv, At
    <3>4. KnowledgeInv'
      BY <1>0, <2>0, <3>2 DEF KnowledgeInv, Known, Before, Empty, Idle, Quiet, At
    <3>5. JournalInv'
      BY <3>1, <3>2 DEF JournalInv
    <3>6. Recorded("dispatch", collector.next)'
      BY <2>a, <3>1, <3>2 DEF Recorded
    <3>. QED
      BY <1>0, <2>0, <3>1, <3>2, <3>3, <3>4, <3>5, <3>6, CollectorKeeps
      DEF Before, Ending, At
  <2>2. CASE AppendRaises(dispatch, FALSE) /\ Excepts
    BY <2>0, <2>2, <2>a, PlainRaises, ExceptsPreserved DEF Before, At
  <2>. QED  BY <2>1, <2>2, <2>b
<1>. QED
  BY <1>1, <1>2, <1>3, <1>4

LEMMA FinishingPreserved ==
  ASSUME CollectionInv, CallFinish \/ FinishReturns \/ WriteFinished
  PROVE  CollectionInv'
<1>0. /\ CollectorInv /\ KnowledgeInv /\ JournalInv /\ JournalTypes
      /\ server \in Servers /\ collector \in Collectors
  BY DEF CollectionInv, JournalInv, WorkerInv, CollectorInv
<1>a. Mark("finished") \in Events /\ Mark("finished").receipt.status # "completed"
  BY Marks
<1>b. {"polling", "excepting", "finished", "auditing"} \subseteq Places
  BY DEF Places, Known, Before, Ending
<1>c. UNCHANGED journal =>
        /\ JournalTypes' /\ journal'.size = journal.size /\ journal'.limit = journal.limit
        /\ Range(journal.disk) \subseteq Range(journal'.disk)
        /\ \A e \in Range(journal'.disk) : e \in Range(journal.disk)
  BY <1>0 DEF JournalTypes
<1>1. CASE CallFinish
  <2>0. At("closing") /\ UNCHANGED <<journal, worker>>
    BY <1>1 DEF CallFinish, Unload, adapterVars, workerVars
  <2>1. /\ server' \in Servers /\ UNCHANGED <<server.work, server.received, server.answer>>
        /\ server'.work = server.work
    BY <1>0, <1>1 DEF CallFinish, Unload, Servers, adapterVars, workerVars
  <2>2. \E place \in {"polling", "excepting"} : Claims(place, TRUE, TRUE, FALSE)
    BY <1>1 DEF CallFinish
  <2>3. /\ collector' \in Collectors /\ collector'.at \in {"polling", "excepting"}
        /\ collector'.next = collector.next /\ collector'.receipt = collector.receipt
        /\ collector'.verdict = collector.verdict /\ collector'.uncertain
    BY <1>0, <1>b, <2>2, Moves, Claimed
  <2>4. CollectorInv' /\ VerdictInv'
    BY <1>0, <2>0, <2>3 DEF CollectorInv, VerdictInv, At
  <2>5. KnowledgeInv'
    BY <1>0, <2>0, <2>1, <2>3 DEF KnowledgeInv, Known, Before, Empty, Idle, Quiet, At
  <2>6. JournalInv'
    BY <1>0, <1>c, <2>0, <2>3 DEF JournalInv, At
  <2>. QED
    BY <1>0, <1>c, <2>0, <2>1, <2>3, <2>4, <2>5, <2>6, CollectorKeeps DEF Before, Ending, At
<1>2. CASE FinishReturns
  <2>0. At("polling") /\ UNCHANGED <<journal, worker, server>>
    BY <1>2 DEF FinishReturns, Close, adapterVars, workerVars
  <2>1. CASE Close /\ Goes("finished")
    <3>1. ~ server.loaded
      BY <2>1 DEF Close, NothingLoaded
    <3>2. /\ collector' \in Collectors /\ collector'.at = "finished"
          /\ collector'.next = collector.next /\ collector'.receipt = collector.receipt
          /\ collector'.verdict = collector.verdict
          /\ collector'.uncertain = collector.uncertain
      BY <1>0, <1>b, <2>1, Moves, Gone
    <3>3. CollectorInv' /\ VerdictInv'
      BY <1>0, <2>0, <3>2 DEF CollectorInv, VerdictInv, At
    <3>4. KnowledgeInv'
      BY <1>0, <2>0, <3>1, <3>2 DEF KnowledgeInv, Known, Before, Empty, Idle, Quiet, At
    <3>5. JournalInv'
      BY <1>0, <1>c, <2>0, <3>2 DEF JournalInv, At
    <3>. QED
      BY <1>0, <1>c, <2>0, <3>2, <3>3, <3>4, <3>5, CollectorKeeps DEF Before, Ending, At
  <2>2. CASE Excepts
    BY <1>c, <2>0, <2>2, ExceptsPreserved DEF At
  <2>. QED  BY <1>2, <2>1, <2>2 DEF FinishReturns
<1>3. CASE WriteFinished
  <2>0. At("finished") /\ UNCHANGED <<worker, server>>
    BY <1>3 DEF WriteFinished, adapterVars, workerVars
  <2>1. CASE Append1(Mark("finished"), FALSE) /\ Claims("auditing", FALSE, TRUE, TRUE)
    <3>1. /\ JournalTypes'
          /\ Range(journal.disk) \subseteq Range(journal'.disk)
          /\ \A e \in Range(journal'.disk) : e \in Range(journal.disk) \/ Holds(e)'
          /\ journal'.size <= journal'.limit - Reserve
      BY <1>a, <2>1, PlainWritten
    <3>2. /\ collector' \in Collectors /\ collector'.at = "auditing"
          /\ collector'.next = collector.next /\ collector'.receipt = collector.receipt
          /\ collector'.verdict = collector.verdict /\ collector'.finished
      BY <1>0, <1>b, <2>1, Moves, Claimed
    <3>3. CollectorInv' /\ VerdictInv'
      BY <1>0, <2>0, <3>2 DEF CollectorInv, VerdictInv, At
    <3>4. KnowledgeInv'
      BY <1>0, <2>0, <3>2 DEF KnowledgeInv, Known, Before, Empty, Idle, Quiet, At
    <3>5. JournalInv'
      BY <3>1, <3>2 DEF JournalInv
    <3>. QED
      BY <1>0, <2>0, <3>1, <3>2, <3>3, <3>4, <3>5, CollectorKeeps DEF Before, Ending, At
  <2>2. CASE AppendRaises(Mark("finished"), FALSE) /\ Excepts
    BY <1>a, <2>0, <2>2, PlainRaises, ExceptsPreserved DEF At
  <2>. QED  BY <1>3, <2>1, <2>2 DEF WriteFinished
<1>. QED
  BY <1>1, <1>2, <1>3

(* The handler of every exception, and the end of the process. *)
LEMMA HandlingPreserved ==
  ASSUME CollectionInv,
         CleanUp \/ CleanUpReturns \/ WriteCleaned \/ WriteAborted \/ CollectorDies
  PROVE  CollectionInv'
<1>0. /\ CollectorInv /\ KnowledgeInv /\ JournalInv /\ JournalTypes
      /\ server \in Servers /\ collector \in Collectors
      /\ journal.size \in Nat /\ journal.limit \in Nat /\ Reserve \in Nat /\ Reserve >= 2
  BY RecordingLimitsAreNumbers DEF CollectionInv, JournalInv, WorkerInv, CollectorInv
<1>a. /\ Mark("finished") \in Events /\ Mark("finished").receipt.status # "completed"
      /\ Mark("aborted") \in Events /\ Mark("aborted").receipt.status # "completed"
  BY Marks
<1>b. {"cleaning", "cleaned", "marking", "aborted", "raised", "dead"} \subseteq Places
  BY DEF Places, Ending
<1>c. UNCHANGED journal =>
        /\ JournalTypes' /\ journal'.size = journal.size /\ journal'.limit = journal.limit
        /\ Range(journal.disk) \subseteq Range(journal'.disk)
        /\ \A e \in Range(journal'.disk) : e \in Range(journal.disk)
  BY <1>0 DEF JournalTypes
<1>1. CASE CleanUp
  <2>0. At("excepting") /\ UNCHANGED <<journal, worker>>
    BY <1>1 DEF CleanUp, Unload, adapterVars, workerVars
  <2>1. /\ server' \in Servers /\ UNCHANGED <<server.work, server.received, server.answer>>
        /\ server'.work = server.work /\ (server'.loaded => server.loaded)
    BY <1>0, <1>1 DEF CleanUp, Unload, Servers, adapterVars, workerVars
  <2>2. CASE KnownIdle /\ \E place \in {"cleaning", "marking"} : Claims(place, TRUE, TRUE, FALSE)
    <3>1. /\ collector' \in Collectors /\ collector'.at \in {"cleaning", "marking"}
          /\ collector'.next = collector.next /\ collector'.receipt = collector.receipt
          /\ collector'.verdict = collector.verdict /\ collector'.uncertain
      BY <1>0, <1>b, <2>2, Moves, Claimed
    <3>2. CollectorInv' /\ VerdictInv'
      BY <1>0, <2>0, <3>1 DEF CollectorInv, VerdictInv, At
    <3>3. KnowledgeInv'
      BY <1>0, <2>0, <2>1, <2>2, <3>1
      DEF KnowledgeInv, KnownIdle, Known, Before, Empty, Idle, Quiet, At
    <3>4. JournalInv'
      BY <1>0, <1>c, <2>0, <3>1 DEF JournalInv, At
    <3>. QED
      BY <1>0, <1>c, <2>0, <2>1, <3>1, <3>2, <3>3, <3>4, CollectorKeeps
      DEF Before, Ending, At
  <2>3. CASE ~ KnownIdle /\ Goes("marking") /\ UNCHANGED adapterVars
    <3>1. /\ collector' \in Collectors /\ collector'.at = "marking"
          /\ collector'.next = collector.next /\ collector'.receipt = collector.receipt
          /\ collector'.verdict = collector.verdict
          /\ collector'.uncertain = collector.uncertain
      BY <1>0, <1>b, <2>3, Moves, Gone
    <3>2. CollectorInv' /\ VerdictInv'
      BY <1>0, <2>0, <3>1 DEF CollectorInv, VerdictInv, At
    <3>3. collector.uncertain \/ Quiet
      BY <1>0, <2>0, <2>3 DEF KnowledgeInv, KnownIdle, At
    <3>4. UNCHANGED server
      BY <2>3 DEF adapterVars, workerVars
    <3>5. KnowledgeInv'
      BY <2>0, <3>1, <3>3, <3>4 DEF KnowledgeInv, Known, Before, Empty, Idle, Quiet
    <3>6. JournalInv'
      BY <1>0, <1>c, <2>0, <3>1 DEF JournalInv, At
    <3>. QED
      BY <1>0, <1>c, <2>0, <2>1, <3>1, <3>2, <3>5, <3>6, CollectorKeeps
      DEF Before, Ending, At
  <2>. QED  BY <1>1, <2>2, <2>3 DEF CleanUp
<1>2. CASE CleanUpReturns
  <2>0. At("cleaning") /\ UNCHANGED <<journal, worker, server>>
    BY <1>2 DEF CleanUpReturns, Close, adapterVars, workerVars
  <2>1. CASE Close /\ Claims("cleaned", FALSE, TRUE, TRUE)
    <3>1. ~ server.loaded
      BY <2>1 DEF Close, NothingLoaded
    <3>2. /\ collector' \in Collectors /\ collector'.at = "cleaned"
          /\ collector'.next = collector.next /\ collector'.receipt = collector.receipt
          /\ collector'.verdict = collector.verdict /\ collector'.finished
      BY <1>0, <1>b, <2>1, Moves, Claimed
    <3>3. CollectorInv' /\ VerdictInv'
      BY <1>0, <2>0, <3>2 DEF CollectorInv, VerdictInv, At
    <3>4. KnowledgeInv'
      BY <1>0, <2>0, <3>1, <3>2 DEF KnowledgeInv, Known, Before, Empty, Idle, Quiet, At
    <3>5. JournalInv'
      BY <1>0, <1>c, <2>0, <3>2 DEF JournalInv, At
    <3>. QED
      BY <1>0, <1>c, <2>0, <3>2, <3>3, <3>4, <3>5, CollectorKeeps DEF Before, Ending, At
  <2>2. CASE Goes("marking")
    <3>1. /\ collector' \in Collectors /\ collector'.at = "marking"
          /\ collector'.next = collector.next /\ collector'.receipt = collector.receipt
          /\ collector'.verdict = collector.verdict
          /\ collector'.uncertain = collector.uncertain
      BY <1>0, <1>b, <2>2, Moves, Gone
    <3>2. CollectorInv' /\ VerdictInv'
      BY <1>0, <2>0, <3>1 DEF CollectorInv, VerdictInv, At
    <3>3. KnowledgeInv'
      BY <1>0, <2>0, <3>1 DEF CollectorInv, KnowledgeInv, Known, Before, Empty, Idle, Quiet, At
    <3>4. JournalInv'
      BY <1>0, <1>c, <2>0, <3>1 DEF JournalInv, At
    <3>. QED
      BY <1>0, <1>c, <2>0, <3>1, <3>2, <3>3, <3>4, CollectorKeeps DEF Before, Ending, At
  <2>. QED  BY <1>2, <2>1, <2>2 DEF CleanUpReturns
<1>3. CASE WriteCleaned
  <2>0. /\ At("cleaned") /\ UNCHANGED <<worker, server>> /\ Goes("marking")
        /\ Append1(Mark("finished"), TRUE) \/ AppendRaises(Mark("finished"), TRUE)
    BY <1>3 DEF WriteCleaned, adapterVars, workerVars
  <2>1. /\ JournalTypes'
        /\ Range(journal.disk) \subseteq Range(journal'.disk)
        /\ \A e \in Range(journal'.disk) : e \in Range(journal.disk) \/ Holds(e)'
        /\ journal'.size \in {journal.size, journal.size + 1}
        /\ journal'.limit = journal.limit
    BY <1>a, <2>0, PlainWritten, PlainRaises
  <2>2. /\ collector' \in Collectors /\ collector'.at = "marking"
        /\ collector'.next = collector.next /\ collector'.receipt = collector.receipt
        /\ collector'.verdict = collector.verdict
    BY <1>0, <1>b, <2>0, Moves
  <2>3. CollectorInv' /\ VerdictInv'
    BY <1>0, <2>0, <2>2 DEF CollectorInv, VerdictInv, At
  <2>4. KnowledgeInv'
    BY <1>0, <2>0, <2>2 DEF KnowledgeInv, Known, Before, Empty, Idle, Quiet, At
  <2>5. journal.size <= journal.limit - Reserve
    BY <1>0, <2>0 DEF JournalInv, At
  <2>6. journal'.size <= journal'.limit - Reserve + 1
    BY <1>0, <2>1, <2>5
  <2>7. JournalInv'
    BY <2>1, <2>2, <2>6 DEF JournalInv
  <2>. QED
    BY <1>0, <2>0, <2>1, <2>2, <2>3, <2>4, <2>7, CollectorKeeps DEF Before, Ending, At
<1>4. CASE WriteAborted
  <2>0. At("marking") /\ UNCHANGED <<worker, server>>
    BY <1>4 DEF WriteAborted, adapterVars, workerVars
  <2>1. CASE Append1(Mark("aborted"), TRUE) /\ Goes("aborted")
    <3>1. /\ JournalTypes'
          /\ Range(journal.disk) \subseteq Range(journal'.disk)
          /\ \A e \in Range(journal'.disk) : e \in Range(journal.disk) \/ Holds(e)'
          /\ Last(journal'.disk) = Mark("aborted")
      BY <1>a, <2>1, PlainWritten
    <3>2. /\ collector' \in Collectors /\ collector'.at = "aborted"
          /\ collector'.next = collector.next /\ collector'.receipt = collector.receipt
          /\ collector'.verdict = collector.verdict
          /\ collector'.uncertain = collector.uncertain
      BY <1>0, <1>b, <2>1, Moves, Gone
    <3>3. CollectorInv' /\ VerdictInv'
      BY <1>0, <2>0, <3>2 DEF CollectorInv, VerdictInv, At
    <3>4. KnowledgeInv'
      BY <1>0, <2>0, <3>2 DEF KnowledgeInv, Known, Before, Empty, Idle, Quiet, At
    <3>5. JournalInv'
      BY <3>1, <3>2, Marks DEF JournalInv, Mark, Event
    <3>. QED
      BY <1>0, <2>0, <3>1, <3>2, <3>3, <3>4, <3>5, CollectorKeeps DEF Before, Ending, At
  <2>2. CASE AppendRaises(Mark("aborted"), TRUE) /\ Goes("raised")
    <3>1. /\ JournalTypes'
          /\ Range(journal.disk) \subseteq Range(journal'.disk)
          /\ \A e \in Range(journal'.disk) : e \in Range(journal.disk) \/ Holds(e)'
          /\ journal'.failures = 0 => journal.size + 1 > journal.limit - 0
      BY <1>a, <2>2, PlainRaises
    <3>2. /\ collector' \in Collectors /\ collector'.at = "raised"
          /\ collector'.next = collector.next /\ collector'.receipt = collector.receipt
          /\ collector'.verdict = collector.verdict
      BY <1>0, <1>b, <2>2, Moves
    <3>3. CollectorInv' /\ VerdictInv'
      BY <1>0, <2>0, <3>2 DEF CollectorInv, VerdictInv, At
    <3>4. KnowledgeInv'
      BY <3>2 DEF KnowledgeInv, Known, Before, Empty
    <3>5. journal.size <= journal.limit - Reserve + 1
      BY <1>0, <2>0 DEF JournalInv, At
    <3>6. journal'.failures \in Nat
      BY <3>1 DEF JournalTypes, Journals
    <3>7. journal'.failures > 0
      BY <1>0, <3>1, <3>5, <3>6
    <3>8. JournalInv'
      BY <3>1, <3>2, <3>7 DEF JournalInv
    <3>. QED
      BY <1>0, <2>0, <3>1, <3>2, <3>3, <3>4, <3>8, CollectorKeeps DEF Before, Ending, At
  <2>. QED  BY <1>4, <2>1, <2>2 DEF WriteAborted
<1>5. CASE CollectorDies
  <2>0. /\ collector.at \notin {"new", "done", "aborted", "raised", "dead"}
        /\ Goes("dead") /\ UNCHANGED <<journal, worker, server>>
    BY <1>5 DEF CollectorDies, adapterVars, workerVars
  <2>1. /\ collector' \in Collectors /\ collector'.at = "dead"
        /\ collector'.next = collector.next /\ collector'.receipt = collector.receipt
        /\ collector'.verdict = collector.verdict
    BY <1>0, <1>b, <2>0, Moves
  <2>2. CollectorInv' /\ VerdictInv'
    BY <1>0, <2>0, <2>1 DEF CollectorInv, VerdictInv
  <2>3. KnowledgeInv'
    BY <2>1 DEF KnowledgeInv, Known, Before, Empty
  <2>4. JournalInv'
    BY <1>c, <2>0, <2>1 DEF JournalInv
  <2>. QED
    BY <1>0, <1>c, <2>0, <2>1, <2>2, <2>3, <2>4, CollectorKeeps DEF Before, Ending
<1>. QED
  BY <1>1, <1>2, <1>3, <1>4, <1>5

(* A call of generate begins. *)
LEMMA SpawnPreserved ==
  ASSUME CollectionInv, CallGenerate PROVE CollectionInv'
<1>0. /\ CollectorInv /\ KnowledgeInv /\ JournalInv /\ JournalTypes /\ RecordInv
      /\ AnswersInv /\ WorkerInv
      /\ server \in Servers /\ collector \in Collectors
  BY DEF CollectionInv, JournalInv, WorkerInv, CollectorInv
<1>1. At("generating") /\ UNCHANGED journal
  BY DEF CallGenerate
<1>2. ASSUME NEW channel \in {OpenChannel, NoChannel}, Spawn(collector.next, channel),
             Goes("waiting")
      PROVE  CollectionInv'
  <2>1. /\ UNCHANGED server /\ worker' = Spawned(collector.next, channel)
    BY <1>2 DEF Spawn
  <2>2. /\ collector' \in Collectors /\ collector'.at = "waiting"
        /\ collector'.next = collector.next /\ collector'.receipt = collector.receipt
        /\ collector'.verdict = collector.verdict
        /\ collector'.uncertain = collector.uncertain
        /\ collector'.started = collector.started
        /\ collector'.finished = collector.finished
    BY <1>0, <1>2, Moves, Gone DEF Places
  <2>3. collector.next \in Requests /\ collector.next \in 0 .. N /\ collector.next <= N
    BY <1>0, <1>1, RequestsAreNumbered DEF CollectorInv, Collectors, At
  <2>4. channel \in Channels /\ Sound(channel, 0, 0)
    BY FreshChannels
  <2>5. /\ worker' \in Workers /\ worker'.at = "agent" /\ worker'.request = collector.next
        /\ worker'.posts = 0 /\ worker'.bytes = 0 /\ ~ worker'.delivered
        /\ ~ worker'.finished /\ worker'.channel = channel
    BY <2>1, <2>3, <2>4, FreshWorker DEF Spawned, Workers
  <2>6. CollectorInv' /\ VerdictInv'
    BY <1>0, <1>1, <2>2 DEF CollectorInv, VerdictInv, At
  <2>7. KnowledgeInv'
    BY <2>2 DEF KnowledgeInv, Known, Before, Empty
  <2>8. JournalInv'
    BY <1>0, <1>1, <2>2 DEF JournalInv, JournalTypes, At
  <2>9. \A kind, q : Recorded(kind, q)' <=> Recorded(kind, q)
    BY <1>1 DEF Recorded
  <2>10. Idle /\ server.received[collector.next] = 0
    BY <1>0, <1>1, <2>3 DEF RecordInv, KnowledgeInv, Known, Before, At
  <2>11. RecordInv'
    BY <1>0, <1>1, <2>1, <2>2, <2>9 DEF RecordInv, Before, At
  <2>12. AnswersInv'
    BY <1>0, <1>1, <2>1, <2>2 DEF AnswersInv, Holds, Says, Ending, At
  <2>13. WorkerInv'
    BY <1>0, <2>1, <2>2, <2>3, <2>5, <2>10 DEF WorkerInv, Idle
  <2>14. HintsInv'
    BY <2>4, <2>5 DEF HintsInv
  <2>. QED
    BY <2>6, <2>7, <2>8, <2>11, <2>12, <2>13, <2>14 DEF CollectionInv
<1>3. CASE Excepts /\ UNCHANGED adapterVars
  <2>1. UNCHANGED <<worker, server>>
    BY <1>3 DEF adapterVars, workerVars
  <2>2. /\ JournalTypes' /\ journal'.size = journal.size /\ journal'.limit = journal.limit
        /\ Range(journal.disk) \subseteq Range(journal'.disk)
        /\ \A e \in Range(journal'.disk) : e \in Range(journal.disk)
    BY <1>0, <1>1 DEF JournalTypes
  <2>. QED  BY <1>1, <1>3, <2>1, <2>2, ExceptsPreserved DEF Before, At
<1>. QED
  BY <1>2, <1>3 DEF CallGenerate

(* It ends: with a verified terminal, whose response is the server's, or by
   killing the worker, after which nothing is known. *)
LEMMA VerifiedTerminal ==
  ASSUME WorkerInv, worker.at # "none", TerminalIsVerified
  PROVE  /\ server.work = 0 /\ Terminal \in Receipts /\ Terminal.status # "none"
         /\ Says(collector.next, Terminal)
<1>1. /\ server.work = 0 /\ worker.parsed = server.answer[collector.next]
      /\ worker.parsed \in Answers
  BY DEF WorkerInv, TerminalIsVerified
<1>2. worker.parsed \in [content : Contents, finish : {"stop", "length"}]
  BY <1>1, CollectionAssumption DEF CollectionAssumption
<1>3. CASE BudgetStopped \/ ~ worker.completed
  BY <1>1, <1>3 DEF Terminal, Receipts, Says
<1>4. CASE ~ (BudgetStopped \/ ~ worker.completed)
  <2>1. worker.parsed.finish = "stop"
    BY <1>2, <1>4 DEF BudgetStopped
  <2>2. Terminal = [status |-> "completed", content |-> worker.parsed.content]
    BY <1>4 DEF Terminal
  <2>3. worker.parsed = [content |-> worker.parsed.content, finish |-> "stop"]
    BY <1>2, <2>1
  <2>. QED  BY <1>1, <1>2, <2>2, <2>3 DEF Receipts, Says
<1>. QED
  BY <1>3, <1>4

LEMMA ReturnPreserved ==
  ASSUME CollectionInv, GenerateReturns PROVE CollectionInv'
<1>0. /\ CollectorInv /\ KnowledgeInv /\ JournalInv /\ JournalTypes /\ RecordInv
      /\ AnswersInv /\ WorkerInv
      /\ server \in Servers /\ collector \in Collectors
  BY DEF CollectionInv, JournalInv, WorkerInv, CollectorInv
<1>1. At("waiting") /\ UNCHANGED journal
  BY DEF GenerateReturns
<1>a. \A kind, q : Recorded(kind, q)' <=> Recorded(kind, q)
  BY <1>1 DEF Recorded
<1>b. ASSUME worker' = NoWorker, UNCHANGED server,
             collector' \in Collectors, collector'.at \in {"returned", "excepting"},
             collector'.next = collector.next, collector'.verdict = collector.verdict,
             collector'.uncertain = collector.uncertain,
             collector'.started = collector.started,
             collector'.finished = collector.finished,
             collector'.at = "returned" =>
               /\ server.work = 0 /\ collector'.receipt.status # "none"
               /\ Says(collector.next, collector'.receipt)
      PROVE  CollectionInv'
  <2>1. CollectorInv' /\ VerdictInv'
    BY <1>0, <1>1, <1>b DEF CollectorInv, VerdictInv, At
  <2>2. KnowledgeInv'
    BY <1>0, <1>1, <1>b DEF CollectorInv, KnowledgeInv, Known, Before, Empty, Idle, At
  <2>3. JournalInv'
    BY <1>0, <1>1, <1>b DEF JournalInv, JournalTypes, At
  <2>4. RecordInv'
    BY <1>0, <1>1, <1>a, <1>b, FreshWorker DEF RecordInv, Before, At
  <2>5. \A event : Holds(event) => Holds(event)'
    BY <1>1, <1>b DEF Holds, Says, Ending, At
  <2>6. AnswersInv'
    BY <1>0, <1>1, <1>b, <2>5 DEF AnswersInv, Says
  <2>7. WorkerInv'
    BY <1>0, <1>b, FreshWorker DEF WorkerInv
  <2>8. HintsInv'
    BY <1>b, FreshWorker, FreshChannels DEF HintsInv
  <2>. QED
    BY <2>1, <2>2, <2>3, <2>4, <2>6, <2>7, <2>8 DEF CollectionInv
<1>2. CASE Verify /\ collector' = [collector EXCEPT !.at = "returned", !.receipt = Terminal]
  <2>1. /\ worker.at # "none" /\ TerminalIsVerified
        /\ worker' = NoWorker /\ UNCHANGED server
    BY <1>2 DEF Verify
  <2>. DEFINE receipt == Terminal
  <2>2. /\ server.work = 0 /\ receipt \in Receipts /\ receipt.status # "none"
        /\ Says(collector.next, receipt)
    BY <1>0, <2>1, VerifiedTerminal
  <2>3. collector' = [collector EXCEPT !.at = "returned", !.receipt = receipt]
    BY <1>2
  <2>. HIDE DEF receipt
  <2>4. /\ collector' \in Collectors /\ collector'.at = "returned"
        /\ collector'.receipt = receipt
        /\ collector'.next = collector.next /\ collector'.verdict = collector.verdict
        /\ collector'.uncertain = collector.uncertain
        /\ collector'.started = collector.started
        /\ collector'.finished = collector.finished
    BY <1>0, <2>2, <2>3 DEF Collectors, Places, Known
  <2>. QED  BY <1>b, <2>1, <2>2, <2>4
<1>3. CASE Abandon /\ Excepts
  <2>1. /\ collector' \in Collectors /\ collector'.at = "excepting"
        /\ collector'.next = collector.next /\ collector'.verdict = collector.verdict
        /\ collector'.uncertain = collector.uncertain
        /\ collector'.started = collector.started
        /\ collector'.finished = collector.finished
    BY <1>0, <1>3, Moves, Gone DEF Excepts, Places, Ending
  <2>2. worker' = NoWorker /\ UNCHANGED server
    BY <1>3 DEF Abandon
  <2>. QED  BY <1>b, <2>1, <2>2
<1>4. CASE Excepts /\ UNCHANGED adapterVars
  <2>1. UNCHANGED <<worker, server>>
    BY <1>4 DEF adapterVars, workerVars
  <2>2. /\ JournalTypes' /\ journal'.size = journal.size /\ journal'.limit = journal.limit
        /\ Range(journal.disk) \subseteq Range(journal'.disk)
        /\ \A e \in Range(journal'.disk) : e \in Range(journal.disk)
    BY <1>0, <1>1 DEF JournalTypes
  <2>. QED  BY <1>1, <1>4, <2>1, <2>2, ExceptsPreserved DEF At
<1>. QED
  BY <1>2, <1>3, <1>4 DEF GenerateReturns

(* The receipt is written, and the next request's turn has come. *)
LEMMA TerminalPreserved ==
  ASSUME CollectionInv, WriteTerminal PROVE CollectionInv'
<1>0. /\ CollectorInv /\ KnowledgeInv /\ JournalInv /\ JournalTypes /\ RecordInv
      /\ AnswersInv /\ WorkerInv /\ HintsInv
      /\ server \in Servers /\ collector \in Collectors
  BY DEF CollectionInv, JournalInv, WorkerInv, CollectorInv
<1>. DEFINE turn == IF collector.next = Cardinality(Requests) THEN "closing" ELSE "dispatching"
            following == collector.next + 1
<1>1. At("returned") /\ UNCHANGED <<worker, server>>
  BY DEF WriteTerminal, adapterVars, workerVars
<1>2. /\ collector.next \in Requests /\ collector.next \in 0 .. N /\ collector.next \in Nat
      /\ collector.receipt \in Receipts /\ N \in Nat /\ Requests = 1 .. N
      /\ Cardinality(Requests) = N
  BY <1>0, <1>1, RequestsAreNumbered DEF CollectorInv, Collectors, At, N
<1>p. PICK q \in Requests : q = collector.next
  BY <1>2
<1>t. PICK terminal : terminal = Event("terminal", collector.next, collector.receipt)
  OBVIOUS
<1>3. /\ terminal \in Events /\ terminal.kind = "terminal"
      /\ terminal.request = q /\ terminal.receipt = collector.receipt
  BY <1>2, <1>p, <1>t DEF Event, Events
<1>4. Idle /\ Says(collector.next, collector.receipt)
  BY <1>0, <1>1 DEF KnowledgeInv, Known, AnswersInv, At
<1>5. \/ /\ Append1(terminal, FALSE)
         /\ collector' = [collector EXCEPT !.at = turn, !.next = following,
                                           !.receipt = NoReceipt, !.uncertain = FALSE]
      \/ AppendRaises(terminal, FALSE) /\ Excepts
  BY <1>0, <1>t DEF WriteTerminal, Collectors
<1>6. /\ turn \in Places /\ following \in 1 .. N + 1
      /\ turn = "closing" \/ (turn = "dispatching" /\ following <= N)
      /\ following > collector.next /\ following - 1 = collector.next
  BY <1>2 DEF Places, Known, Before
<1>. HIDE DEF turn, following
<1>7. CASE /\ Append1(terminal, FALSE)
           /\ collector' = [collector EXCEPT !.at = turn, !.next = following,
                                             !.receipt = NoReceipt, !.uncertain = FALSE]
  <2>1. /\ JournalTypes'
        /\ Range(journal'.disk) = Range(journal.disk) \cup {terminal}
        /\ journal'.size <= journal'.limit - Reserve
    BY <1>0, <1>3, <1>7, Appends
  <2>2. /\ collector' \in Collectors /\ collector'.at = turn /\ collector'.next = following
        /\ collector'.receipt = NoReceipt
        /\ collector'.verdict = collector.verdict
        /\ collector'.started = collector.started
        /\ collector'.finished = collector.finished
    BY <1>0, <1>6, <1>7, Receiptless DEF Collectors
  <2>3. CollectorInv' /\ VerdictInv'
    BY <1>0, <1>1, <1>6, <2>2 DEF CollectorInv, VerdictInv, At
  <2>4. KnowledgeInv'
    BY <1>1, <1>4, <1>6, <2>2 DEF KnowledgeInv, Known, Before, Empty, Idle
  <2>5. JournalInv'
    BY <1>6, <2>1, <2>2 DEF JournalInv
  <2>6. \A kind, p : Recorded(kind, p) => Recorded(kind, p)'
    BY <2>1 DEF Recorded
  <2>7. Recorded("terminal", q)'
    BY <1>3, <2>1 DEF Recorded
  <2>8. RecordInv'
    <3>1. \A p \in 1 .. collector'.next - 1 : Recorded("terminal", p)'
      <4>1. \A p \in 1 .. following - 1 : p \in 1 .. collector.next - 1 \/ p = q
        BY <1>2, <1>6, <1>p
      <4>. QED  BY <1>0, <2>2, <2>6, <2>7, <4>1 DEF RecordInv
    <3>2. \A p \in Requests :
            server.received[p] # 0 =>
              /\ server.received[p] = 1
              /\ Recorded("dispatch", p)'
              /\ p <= following /\ p # following
      BY <1>0, <1>2, <1>6, <2>6 DEF RecordInv
    <3>3. worker'.at = "none"
      BY <1>1, <1>4, FreshWorker DEF Idle
    <3>. QED
      BY <1>1, <1>6, <2>2, <3>1, <3>2, <3>3 DEF RecordInv
  <2>9. \A event \in Range(journal'.disk) : Holds(event)'
    <3>1. ASSUME NEW event \in Range(journal.disk) PROVE Holds(event)'
      <4>1. Holds(event)
        BY <1>0 DEF AnswersInv
      <4>2. SUFFICES ASSUME event.receipt.status = "completed" PROVE Holds(event)'
        BY DEF Holds
      <4>3. /\ event.request \in Requests /\ event.request <= collector.next
            /\ Says(event.request, event.receipt)
        BY <4>1, <4>2 DEF Holds
      <4>4. event.request <= following /\ event.request # following
        BY <1>2, <1>6, <4>3
      <4>. QED  BY <1>1, <2>2, <4>3, <4>4 DEF Holds, Says
    <3>2. Holds(terminal)'
      <4>1. collector.next <= following /\ collector.next # following
        BY <1>2, <1>6
      <4>. QED  BY <1>1, <1>2, <1>3, <1>4, <1>p, <2>2, <4>1 DEF Holds, Says
    <3>. QED  BY <2>1, <3>1, <3>2
  <2>10. AnswersInv'
    BY <1>6, <2>2, <2>9 DEF AnswersInv
  <2>11. WorkerInv' /\ HintsInv'
    BY <1>0, <1>1, <1>4, FreshWorker DEF WorkerInv, HintsInv, Idle
  <2>. QED
    BY <2>3, <2>4, <2>5, <2>8, <2>10, <2>11 DEF CollectionInv
<1>8. CASE AppendRaises(terminal, FALSE) /\ Excepts
  <2>1. /\ JournalTypes'
        /\ Range(journal.disk) \subseteq Range(journal'.disk)
        /\ Range(journal'.disk) \subseteq Range(journal.disk) \cup {terminal}
        /\ journal'.size = journal.size /\ journal'.limit = journal.limit
    BY <1>0, <1>3, <1>8, Raises
  <2>2. collector'.at = "excepting" /\ collector'.next = collector.next
    BY <1>0, <1>8, Moves DEF Excepts, Places, Ending
  <2>3. Holds(terminal)'
    BY <1>1, <1>2, <1>3, <1>4, <1>p, <2>2 DEF Holds, Says, Idle, Ending
  <2>. QED
    BY <1>1, <1>8, <2>1, <2>3, ExceptsPreserved DEF At
<1>. QED
  BY <1>5, <1>7, <1>8

-----------------------------------------------------------------------------
(* The verdict *)

LEMMA Scheduled ==
  /\ \A q \in Requests : CaseOf(q) \in Cases
  /\ \A p, q \in Requests : CaseOf(p) = CaseOf(q) /\ ArmOf(p) = ArmOf(q) => p = q
  /\ \A c \in Cases : \E q \in CandidateRequests : CaseOf(q) = c
<1>. DEFINE C == Cardinality(Cases)
<1>1. C \in Nat /\ Cases = 1 .. C /\ Requests = 1 .. 2 * C
  BY RequestsAreNumbered
<1>. HIDE DEF C
<1>2. \A q \in Requests : CaseOf(q) \in Cases /\ q \in Nat
  BY <1>1 DEF CaseOf
<1>3. ASSUME NEW p \in Requests, NEW q \in Requests, CaseOf(p) = CaseOf(q), ArmOf(p) = ArmOf(q)
      PROVE  p = q
  <2>1. p \in Nat /\ q \in Nat /\ p >= 1 /\ q >= 1
    BY <1>1
  <2>2. (p % 2 = CaseOf(p) % 2) <=> (q % 2 = CaseOf(p) % 2)
    BY <1>3 DEF ArmOf
  <2>3. CaseOf(p) \in Nat
    BY <1>1, <1>2
  <2>4. p % 2 = q % 2
    BY <2>1, <2>2, <2>3
  <2>. QED  BY <1>3, <2>1, <2>4 DEF CaseOf
<1>4. ASSUME NEW c \in Cases PROVE \E q \in CandidateRequests : CaseOf(q) = c
  <2>1. c \in Nat /\ c >= 1 /\ 2 * c \in Requests /\ 2 * c - 1 \in Requests
    BY <1>1
  <2>2. CaseOf(2 * c) = c /\ CaseOf(2 * c - 1) = c
    BY <2>1 DEF CaseOf
  <2>3. (2 * c) % 2 = 0 /\ (2 * c - 1) % 2 = 1 /\ c % 2 \in {0, 1}
    BY <2>1
  <2>4. ArmOf(2 * c) = "candidate" \/ ArmOf(2 * c - 1) = "candidate"
    BY <2>2, <2>3 DEF ArmOf
  <2>. QED  BY <2>1, <2>2, <2>4 DEF CandidateRequests
<1>. QED
  BY <1>2, <1>3, <1>4

LEMMA TerminalsArePlaced ==
  ASSUME NEW q \in Requests, NEW i, i = 2 * q + 2
  PROVE  i \in 1 .. Len(Kinds) /\ Kinds[i] = "terminal" /\ (i - 1) \div 2 = q
<1>. DEFINE first == <<"manifest", "started">>
            middle == [j \in 1 .. 2 * N |-> IF j % 2 = 1 THEN "dispatch" ELSE "terminal"]
            last == <<"finished">>
            S == {"manifest", "started", "dispatch", "terminal", "finished"}
<1>1. q \in Nat /\ q >= 1 /\ q <= N /\ N \in Nat
  BY RequestsAreNumbered
<1>2. Kinds = first \o middle \o last
  BY DEF Kinds, N
<1>3. /\ first \in Seq(S) /\ Len(first) = 2
      /\ last \in Seq(S) /\ Len(last) = 1
  OBVIOUS
<1>a. middle \in Seq(S) /\ Len(middle) = 2 * N
  <2>1. middle \in [1 .. 2 * N -> S] /\ 2 * N \in Nat
    BY <1>1
  <2>. HIDE DEF middle, S
  <2>2. middle \in Seq(S)
    BY <2>1, SeqDef
  <2>. QED  BY <2>1, <2>2, LenProperties
<1>4. middle[2 * q] = "terminal" /\ 2 * q \in 1 .. 2 * N
  BY <1>1
<1>. HIDE DEF first, middle, last, S
<1>5. /\ first \o middle \in Seq(S) /\ Len(first \o middle) = 2 + 2 * N
      /\ (first \o middle)[i] = middle[2 * q]
  <2>1. /\ first \o middle \in Seq(S) /\ Len(first \o middle) = Len(first) + Len(middle)
        /\ \A j \in 1 .. Len(first) + Len(middle) :
             (first \o middle)[j] = IF j <= Len(first) THEN first[j] ELSE middle[j - Len(first)]
    BY <1>3, <1>a, ConcatProperties
  <2>3. i \in 1 .. Len(first) + Len(middle) /\ ~ (i <= Len(first)) /\ i - Len(first) = 2 * q
    BY <1>1, <1>3, <1>a
  <2>4. (first \o middle)[i] = middle[i - Len(first)]
    BY <2>1, <2>3
  <2>. QED  BY <1>3, <1>a, <2>1, <2>3, <2>4
<1>6. /\ Len(Kinds) = 2 + 2 * N + 1
      /\ i \in 1 .. Len(Kinds) /\ Kinds[i] = (first \o middle)[i]
  <2>1. /\ Len(Kinds) = Len(first \o middle) + Len(last)
        /\ \A j \in 1 .. Len(first \o middle) + Len(last) :
             Kinds[j] = IF j <= Len(first \o middle) THEN (first \o middle)[j]
                        ELSE last[j - Len(first \o middle)]
    BY <1>2, <1>3, <1>5, ConcatProperties
  <2>2. i \in 1 .. Len(first \o middle) + Len(last) /\ i <= Len(first \o middle)
    BY <1>1, <1>3, <1>5
  <2>. QED  BY <1>1, <1>3, <1>5, <2>1, <2>2
<1>7. (i - 1) \div 2 = q
  BY <1>1
<1>. QED
  BY <1>4, <1>5, <1>6, <1>7

(* A positive verdict over a complete recording is about what the server said. *)
LEMMA PositiveIsEarned ==
  ASSUME JournalTypes, AnswersInv, server \in Servers, IsComplete(journal.events),
         MeetsCriteria(TrialsOf(journal.events))
  PROVE  AnsweredInFull
<1>. DEFINE trials == TrialsOf(journal.events)
            EventOf(q) == journal.events[2 * q + 2]
<1>1. ASSUME NEW q \in CandidateRequests
      PROVE  /\ server.answer[q] \in [content : {"right", "wrong"}, finish : {"stop"}]
             /\ trials[CaseOf(q)]["candidate"].content = server.answer[q].content
  <2>1. q \in Requests /\ ArmOf(q) = "candidate" /\ CaseOf(q) \in Cases
    BY Scheduled DEF CandidateRequests
  <2>2. (CHOOSE p \in Requests : CaseOf(p) = CaseOf(q) /\ ArmOf(p) = "candidate") = q
    BY <2>1, Scheduled
  <2>3. trials[CaseOf(q)]["candidate"] = OutcomeOf(EventOf(q).receipt)
    BY <2>1, <2>2 DEF TrialsOf, Arms
  <2>4. EventOf(q) \in Range(journal.events) /\ EventOf(q).request = q
    <3>1. PICK i : i = 2 * q + 2
      OBVIOUS
    <3>2. i \in 1 .. Len(Kinds) /\ Kinds[i] = "terminal" /\ (i - 1) \div 2 = q
      BY <2>1, <3>1, TerminalsArePlaced
    <3>3. /\ DOMAIN journal.events = 1 .. Len(journal.events)
          /\ Len(journal.events) = Len(Kinds)
      BY RecordingLimitsAreNumbers DEF IsComplete
    <3>4. i \in DOMAIN journal.events
      BY <3>2, <3>3
    <3>5. journal.events[i].request = (i - 1) \div 2
      BY <3>2, <3>4 DEF IsComplete
    <3>. QED  BY <3>1, <3>2, <3>4, <3>5 DEF Range
  <2>. DEFINE receipt == EventOf(q).receipt
  <2>5. Holds(EventOf(q))
    BY <2>4 DEF JournalTypes, AnswersInv
  <2>. HIDE DEF EventOf, trials
  <2>6. /\ trials[CaseOf(q)]["candidate"].status # "failed"
        /\ trials[CaseOf(q)]["candidate"].content # "acting"
    BY <2>1 DEF MeetsCriteria, Failures, Acting, trials
  <2>7. /\ receipt.status = "completed" /\ receipt.content # "malformed"
        /\ trials[CaseOf(q)]["candidate"].content = receipt.content
    BY <2>3, <2>6 DEF OutcomeOf, Admit, FailedOutcome
  <2>8. server.answer[q] = [content |-> receipt.content, finish |-> "stop"]
    BY <2>4, <2>5, <2>7 DEF Holds, Says
  <2>. HIDE DEF receipt
  <2>9. server.answer[q] \in Answers
    BY <2>1, <2>8 DEF Servers, NoAnswer
  <2>10. receipt.content \in Contents
    BY <2>8, <2>9, CollectionAssumption DEF CollectionAssumption
  <2>11. receipt.content \in {"right", "wrong"}
    BY <2>6, <2>7, <2>10 DEF Contents
  <2>. QED  BY <2>7, <2>8, <2>11
<1>2. Correct(trials, "candidate") =
        {c \in Cases : \E q \in CandidateRequests :
           CaseOf(q) = c /\ server.answer[q].content = "right"}
  <2>1. \A c \in Cases : \E q \in CandidateRequests : CaseOf(q) = c
    BY Scheduled
  <2>. HIDE DEF trials
  <2>. QED  BY <1>1, <2>1 DEF Correct, ScoresCorrect
<1>3. Cardinality(Correct(trials, "candidate")) >= MinCandidateCorrect
  BY DEF MeetsCriteria
<1>. QED
  BY <1>1, <1>2, <1>3 DEF AnsweredInFull

LEMMA AuditPreserved ==
  ASSUME CollectionInv, AuditAndPublish PROVE CollectionInv'
<1>0. /\ CollectorInv /\ KnowledgeInv /\ JournalInv /\ JournalTypes
      /\ AnswersInv /\ WorkerInv
      /\ server \in Servers /\ collector \in Collectors
  BY DEF CollectionInv, JournalInv, WorkerInv, CollectorInv
<1>1. At("auditing") /\ UNCHANGED <<worker, server>>
  BY DEF AuditAndPublish, adapterVars, workerVars
<1>. DEFINE verdict == Verdict(TrialsOf(journal.events))
<1>2. CASE /\ IsComplete(journal.events)
           /\ collector' = [collector EXCEPT !.at = "done", !.verdict = verdict]
           /\ UNCHANGED journal
  <2>1. verdict \in {"positive", "negative"} /\ (verdict = "positive" => AnsweredInFull)
    BY <1>0, <1>2, PositiveIsEarned DEF Verdict
  <2>. HIDE DEF verdict
  <2>2. /\ collector' \in Collectors /\ collector'.at = "done"
        /\ collector'.next = collector.next /\ collector'.verdict = verdict
        /\ collector'.finished = collector.finished
    BY <1>0, <1>2, <2>1 DEF Collectors, Places, Known
  <2>3. CollectorInv'
    BY <1>0, <1>1, <2>2 DEF CollectorInv, At
  <2>4. VerdictInv'
    BY <1>1, <2>1, <2>2 DEF VerdictInv, AnsweredInFull
  <2>5. KnowledgeInv'
    BY <1>0, <1>1, <2>2 DEF KnowledgeInv, Known, Before, Empty, Idle, Quiet, At
  <2>6. JournalInv'
    BY <1>0, <1>1, <1>2, <2>2 DEF JournalInv, JournalTypes, At
  <2>. QED
    BY <1>0, <1>1, <1>2, <2>2, <2>3, <2>4, <2>5, <2>6, CollectorKeeps
    DEF Before, Ending, At
<1>3. CASE /\ journal' = [journal EXCEPT !.failures = @ + 1]
           /\ Excepts
  <2>1. /\ JournalTypes' /\ journal'.size = journal.size /\ journal'.limit = journal.limit
        /\ journal'.disk = journal.disk
    <3>. DEFINE failures == journal.failures + 1
                Logs == Seq(Events)
    <3>1. failures \in Nat /\ failures # 0
      BY <1>0, RecordingLimitsAreNumbers
    <3>2. journal' = [journal EXCEPT !.failures = failures]
      BY <1>3
    <3>3. /\ Journals = [events : Logs, disk : Logs, size : Nat, limit : RecordingLimits,
                         failures : Nat]
          /\ journal \in Journals
      BY <1>0 DEF Journals, JournalTypes
    <3>. HIDE DEF failures, Logs
    <3>4. /\ journal' \in Journals /\ journal'.failures = failures
          /\ journal'.size = journal.size /\ journal'.limit = journal.limit
          /\ journal'.disk = journal.disk /\ journal'.events = journal.events
      BY <3>1, <3>2, <3>3
    <3>. QED  BY <1>0, <3>1, <3>4 DEF JournalTypes
  <2>. QED
    BY <1>1, <1>3, <2>1, ExceptsPreserved DEF At
<1>. QED
  BY <1>2, <1>3 DEF AuditAndPublish

-----------------------------------------------------------------------------
(* The theorems *)

LEMMA CollectorPreserved ==
  ASSUME CollectionInv, CollectorStep PROVE CollectionInv'
BY StartingPreserved, SpawnPreserved, ReturnPreserved, TerminalPreserved,
   FinishingPreserved, AuditPreserved, HandlingPreserved DEF CollectorStep

LEMMA StepsPreserve ==
  ASSUME CollectionInv, [Next]_vars PROVE CollectionInv'
<1>1. CASE CollectionStage
  <2>1. CASE CollectorStep
    BY <2>1, CollectorPreserved
  <2>2. CASE WorkerStep /\ UNCHANGED collectorVars
    BY <2>2, WorkerPreserved
  <2>3. CASE (ServerReceives \/ ServerAnswers \/ ForeignUse) /\ UNCHANGED collectorVars
    BY <2>3, ServerPreserved
  <2>4. CASE HostReads /\ UNCHANGED collectorVars
    BY <2>4, HostPreserved
  <2>. QED  BY <1>1, <2>1, <2>2, <2>3, <2>4 DEF CollectionStage
<1>2. CASE UNCHANGED collectionVars
  BY <1>2, CollectionUntouched
<1>. QED
  BY <1>1, <1>2 DEF Next, vars

(* The collection keeps its invariant, in every behaviour of the pipeline. *)
THEOREM CollectionInvariance == Spec => []CollectionInv
<1>1. Init => CollectionInv
  BY CollectionInitially DEF Init
<1>2. CollectionInv /\ [Next]_vars => CollectionInv'
  BY StepsPreserve
<1>. QED
  BY <1>1, <1>2, PTL DEF Spec

(* The server receives a request at most once, and only after its dispatch and
   every earlier receipt are on disk: a worker sends before its call ends, and a
   call begins after its dispatch was written (native_worker.py:172,
   collection.py:282). *)
THEOREM SentOnce == Spec => []SentOnceAndRecorded
<1>1. CollectionInv => SentOnceAndRecorded
  <2>1. SUFFICES ASSUME CollectionInv, NEW q \in Requests
                 PROVE  /\ server.received[q] <= 1
                        /\ server.received[q] = 1 =>
                             /\ Recorded("dispatch", q)
                             /\ \A p \in 1 .. q - 1 : Recorded("terminal", p)
    BY DEF SentOnceAndRecorded
  <2>2. /\ collector.next \in Nat /\ q \in Nat /\ server.received[q] \in Nat
    BY <2>1, RequestsAreNumbered
    DEF CollectionInv, CollectorInv, Collectors, WorkerInv, Servers
  <2>3. server.received[q] # 0 =>
          server.received[q] = 1 /\ Recorded("dispatch", q) /\ q <= collector.next
    BY <2>1 DEF CollectionInv, RecordInv
  <2>4. \A p \in 1 .. collector.next - 1 : Recorded("terminal", p)
    BY <2>1 DEF CollectionInv, RecordInv
  <2>. QED  BY <2>2, <2>3, <2>4
<1>. QED
  BY <1>1, CollectionInvariance, PTL

(* An abort that says the server is idle is right, and is on disk unless the
   storage failed: what the handler's flags claim is kept as an invariant at each
   place an exception leaves from (collection.py:305). *)
THEOREM AbortsTruthful == Spec => []AbortsTellTheTruth
<1>1. CollectionInv => AbortsTellTheTruth
  BY DEF CollectionInv, KnowledgeInv, JournalInv, Quiet, Idle, AbortsTellTheTruth
<1>. QED
  BY <1>1, CollectionInvariance, PTL

(* A recorded response is the whole of what the server said, and a positive verdict
   was earned by its answers, for every plan, schedule and set of answers
   (native_prompt.py:282, collection.py:362). *)
THEOREM OutcomesFaithful == Spec => []OutcomesAreTheServers
<1>1. CollectionInv => OutcomesAreTheServers
  <2>1. SUFFICES ASSUME CollectionInv PROVE OutcomesAreTheServers
    OBVIOUS
  <2>2. \A event \in Range(journal.disk) :
          event.receipt.status = "completed" =>
            server.answer[event.request] = [content |-> event.receipt.content,
                                            finish |-> "stop"]
    BY <2>1 DEF CollectionInv, AnswersInv, Holds, Says
  <2>3. collector.verdict = "positive" => AnsweredInFull
    BY <2>1 DEF CollectionInv, VerdictInv
  <2>. QED  BY <2>2, <2>3 DEF OutcomesAreTheServers, AnsweredInFull
<1>. QED
  BY <1>1, CollectionInvariance, PTL

(* Only hints of an agent that had a generation refused are rejected: what is still
   in the pipe follows what was read, whichever hints were lost before it
   (native_progress.py:115). *)
THEOREM HintsRead == Spec => []HonestHintsAreRead
<1>1. CollectionInv => HonestHintsAreRead
  BY DEF CollectionInv, HintsInv, Sound, HonestHintsAreRead
<1>. QED
  BY <1>1, CollectionInvariance, PTL
=============================================================================
