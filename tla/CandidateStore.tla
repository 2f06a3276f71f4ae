--------------------------- MODULE CandidateStore ---------------------------
(* learning/quarantine.py and learning/artifacts.py: a candidate prompt is
   frozen once under a name, and consumers take a snapshot of it and of the
   artifacts it names by digest, while others may write to those files.

   A file is read in two parts; what matters of a part is whether it is the
   part the digest was made of.  Every write gives the file another signature. *)
EXTENDS Publication, SequencesExt, Integers

CONSTANTS Drafters, MaxWrites

VARIABLES
  quarantine,   \* the directory with the candidate
  freezing,     \* the call each drafter is in
  frozen,       \* observed: the ids freeze_candidate returned
  inodes,       \* the versions of the artifacts: parts and times changed
  entry,        \* the inode an artifact's name leads to
  reader        \* the call of the consumer

storeVars == <<quarantine, freezing, frozen, inodes, entry, reader>>
freezeVars == <<quarantine, freezing, frozen>>
artifactVars == <<inodes, entry>>

Artifacts == 1 .. 2
Parts == 1 .. 2
Target == "candidate"
WholeFiles == {[part \in Parts |-> right] : right \in BOOLEAN}
NoRead == [at |-> "idle", pin |-> "none", next |-> 1, fd |-> 0, before |-> <<>>,
           parts |-> <<>>, checked |-> <<>>, together |-> FALSE]

StoreInit ==
  /\ quarantine = EmptyDirectory({Target})
  /\ freezing = [d \in Drafters |-> "idle"]
  /\ frozen = {}
  /\ inodes \in [Artifacts -> [parts : WholeFiles, changed : {0}]]
  /\ entry = [a \in Artifacts |-> a]
  /\ reader = NoRead

-----------------------------------------------------------------------------
(* freeze_candidate.  The temporary file is private to the call, and removed
   before the directory is synchronized. *)

WriteDraft(d) ==
  /\ freezing[d] = "idle"
  /\ freezing' = [freezing EXCEPT ![d] = "written"]
  /\ UNCHANGED <<quarantine, frozen>>

LinkCandidate(d) ==
  /\ freezing[d] = "written"
  /\ Linkable(quarantine, Target)
  /\ quarantine' = Link(quarantine, Target, Written(<<d>>))
  /\ freezing' = [freezing EXCEPT ![d] = "linked"]
  /\ UNCHANGED frozen

AcknowledgeCandidate(d) ==
  /\ freezing[d] = "linked"
  /\ quarantine' = SyncDirectory(quarantine)
  /\ freezing' = [freezing EXCEPT ![d] = "idle"]
  /\ frozen' = frozen \cup {d}

StopFreezing(d) ==
  /\ freezing[d] # "idle"
  /\ freezing' = [freezing EXCEPT ![d] = "idle"]
  /\ UNCHANGED <<quarantine, frozen>>

StorePowerLoss ==
  /\ quarantine' \in PowerLosses(quarantine)
  /\ freezing' = [d \in Drafters |-> "idle"]
  /\ reader' = NoRead
  /\ UNCHANGED <<frozen, artifactVars>>

-----------------------------------------------------------------------------
(* Whoever else writes to the artifacts' directory: in place, or by renaming
   another file over the name, which leaves the old file to those who have it
   open. *)

WritesMade == FoldSeq(LAMBDA file, n : file.changed + n, Len(inodes) - 2, inodes)

WritePart(a, part, right) ==
  /\ WritesMade < MaxWrites
  /\ inodes' = [inodes EXCEPT ![entry[a]].parts[part] = right, ![entry[a]].changed = @ + 1]
  /\ UNCHANGED <<entry, reader>>

ReplaceFile(a, parts) ==
  /\ WritesMade < MaxWrites
  /\ inodes' = Append(inodes, [parts |-> parts, changed |-> 0])
  /\ entry' = [entry EXCEPT ![a] = Len(inodes')]
  /\ UNCHANGED reader

ArtifactWrite ==
  \E a \in Artifacts :
    \/ \E part \in Parts, right \in BOOLEAN : WritePart(a, part, right)
    \/ \E parts \in WholeFiles : ReplaceFile(a, parts)

-----------------------------------------------------------------------------
(* load_artifact_snapshot *)

(* _signature *)
Signature(inode) == <<inode, inodes[inode].changed>>

IsRight(a) == \A part \in Parts : inodes[entry[a]].parts[part]

(* read_candidate: for an id the caller kept when it was frozen. *)
BeginSnapshot(id) ==
  /\ reader.at \in {"idle", "returned"}
  /\ id \in frozen
  /\ quarantine.seen[Target] = Written(<<id>>)
  /\ reader' = [NoRead EXCEPT !.at = "opening", !.pin = id]
  /\ UNCHANGED artifactVars

OpenArtifact ==
  /\ reader.at = "opening"
  /\ reader' = [reader EXCEPT !.at = "reading", !.fd = entry[reader.next],
       !.before = Signature(entry[reader.next]), !.parts = <<>>]
  /\ UNCHANGED artifactVars

ReadPart ==
  /\ reader.at = "reading" /\ Len(reader.parts) < 2
  /\ reader' = [reader EXCEPT !.parts = Append(@, inodes[reader.fd].parts[Len(@) + 1])]
  /\ UNCHANGED artifactVars

(* Unchanged since the descriptor was opened, and of the expected digest. *)
VerifyArtifact ==
  LET checked == Append(reader.checked, reader.before) IN
  /\ reader.at = "reading" /\ Len(reader.parts) = 2
  /\ Signature(reader.fd) = reader.before
  /\ \A part \in Parts : reader.parts[part]
  /\ reader' = [reader EXCEPT
       !.at = IF reader.next = 2 THEN "checking" ELSE "opening",
       !.next = IF @ = 2 THEN 1 ELSE 2,
       !.checked = checked,
       !.together = \A a \in Artifacts : IsRight(a)]
  /\ UNCHANGED artifactVars

(* Faulty variant: only the file read last is looked at again. *)
LastUnchanged(a) == a = 2 => Signature(entry[a]) = reader.checked[a]

StillUnchanged(a) == Signature(entry[a]) = reader.checked[a]

CheckEntry ==
  /\ reader.at = "checking"
  /\ StillUnchanged(reader.next)
  /\ reader' = [reader EXCEPT !.at = IF reader.next = 2 THEN "returned" ELSE "checking",
                              !.next = 2]
  /\ UNCHANGED artifactVars

(* Missing, unsafe, too large, changed, or of another digest. *)
RefuseSnapshot ==
  /\ reader.at \notin {"idle", "returned"}
  /\ reader' = NoRead
  /\ UNCHANGED artifactVars

StoreStep ==
  \/ \E d \in Drafters :
       /\ \/ WriteDraft(d) \/ LinkCandidate(d) \/ AcknowledgeCandidate(d) \/ StopFreezing(d)
       /\ UNCHANGED <<artifactVars, reader>>
  \/ ArtifactWrite /\ UNCHANGED freezeVars
  \/ /\ \/ \E id \in Drafters : BeginSnapshot(id)
        \/ OpenArtifact \/ ReadPart \/ VerifyArtifact \/ CheckEntry \/ RefuseSnapshot
     /\ UNCHANGED freezeVars
=============================================================================
