---------------------------- MODULE Publication ----------------------------
(* How the learning pipeline publishes a file under a name that nobody may
   replace: shadow._publish, development._publish and freeze_candidate write a
   temporary file, fsync it, link it to its name, and fsync the directory.

   A directory has what processes see and what is on disk; they differ in the
   names linked or removed since the directory was last synchronized. *)
EXTENDS Sequences

NoFile == [state |-> "absent", bytes |-> <<>>]
Torn == [state |-> "torn", bytes |-> <<>>]

(* Faulty variant: the file is closed without fsync. *)
WrittenUnsynced(bytes) == [state |-> "cached", bytes |-> bytes]

(* A file written, flushed and synchronized, under its temporary name. *)
Written(bytes) == [state |-> "flushed", bytes |-> bytes]

Complete(file) == file.state \in {"flushed", "cached"}

EmptyDirectory(names) ==
  LET none == [n \in names |-> NoFile] IN [seen |-> none, disk |-> none]

Present(dir) == {n \in DOMAIN dir.seen : dir.seen[n] # NoFile}

(* Faulty variant: the name is taken by renaming, whoever holds it. *)
RenamedOver(dir, name) == TRUE

(* os.link refuses a name that exists. *)
Linkable(dir, name) == dir.seen[name] = NoFile

Link(dir, name, file) == [dir EXCEPT !.seen[name] = file]

Unlink(dir, name) == [dir EXCEPT !.seen[name] = NoFile]

(* Faulty variant: the directory is not synchronized. *)
LeaveUnsynced(dir) == dir

SyncDirectory(dir) == [dir EXCEPT !.disk = dir.seen]

(* What a power failure may leave: of each name changed since the last
   synchronization either version, and only the start of unsynchronized data. *)
PowerLosses(dir) ==
  LET changed == {n \in DOMAIN dir.seen : dir.seen[n] # dir.disk[n]}
      Kept(file) == IF file.state = "cached" THEN Torn ELSE file
      After(kept) == [n \in DOMAIN dir.seen |->
                        Kept(IF n \in kept THEN dir.seen[n] ELSE dir.disk[n])]
  IN {[seen |-> After(kept), disk |-> After(kept)] : kept \in SUBSET changed}
=============================================================================
