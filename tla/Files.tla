-------------------------------- MODULE Files --------------------------------
(***************************************************************************)
(* The file cache of the snapshots: server/snapshot.go (files, ReadFile,   *)
(* fileMap.clone) over server/fs_overlay.go.                               *)
(*                                                                         *)
(* A file handle is what a read of the disk found: some content, or        *)
(* Missing for a read that failed, which is remembered like any other.     *)
(* Snapshots read lazily; a document notification reads its file first and *)
(* then, when the initial load is over and the locks are free, clones the  *)
(* current snapshot with what it has read.                                 *)
(***************************************************************************)
EXTENDS Integers

CONSTANTS
  URIs,      \* files
  Contents,  \* what a file may contain
  Missing,   \* there is no such file, or it cannot be read
  Unread,    \* the snapshot has no handle of the file
  MaxSeq     \* bound: the sequenceID of the last snapshot

VARIABLES
  disk,     \* the file system
  changed,  \* the files changed on disk since their last notification was read
  notice,   \* the notification in hand, if any: its file and the handle it has read
  current,  \* view.snapshot, by its sequenceID
  files     \* Snapshot.files of every snapshot

fileVars == <<disk, changed, notice, current, files>>

Seqs    == 0..MaxSeq
Handles == Contents \cup {Missing}
Notices == [uri : URIs, handle : Handles]

TypeOK ==
  /\ disk \in [URIs -> Handles]
  /\ changed \in SUBSET URIs
  /\ notice \in {{}} \cup {{n} : n \in Notices}
  /\ current \in Seqs
  /\ files \in [Seqs -> [URIs -> Handles \cup {Unread}]]

Init ==
  /\ disk \in [URIs -> Handles]
  /\ changed = {}
  /\ notice = {}
  /\ current = 0
  /\ files = [s \in Seqs |-> [u \in URIs |-> Unread]]

\* Somebody writes, creates or removes a file.
DiskChange(u, h) ==
  /\ h # disk[u]
  /\ disk' = [disk EXCEPT ![u] = h]
  /\ changed' = changed \cup {u}
  /\ UNCHANGED <<notice, current, files>>

\* didModifyFiles reads the file of the notification.
MustReadFile(u) ==
  /\ notice = {}
  /\ current < MaxSeq
  /\ notice' = {[uri |-> u, handle |-> disk[u]]}
  /\ changed' = changed \ {u}
  /\ UNCHANGED <<disk, current, files>>

CloneFiles_KeepsDeleted(old, n) ==
  IF n.handle = Missing THEN old ELSE [old EXCEPT ![n.uri] = n.handle]
\* fileMap.clone: a changed file that exists no more is forgotten, the others are
\* replaced.
CloneFiles(old, n) ==
  [old EXCEPT ![n.uri] = IF n.handle = Missing THEN Unread ELSE n.handle]

OldFiles_Shared(old, n) == CloneFiles(old, n)
\* fileMap.clone copies the map: the old snapshot keeps its own.
OldFiles(old, n) == old

\* invalidateViewLocked: the clone becomes the current snapshot.
Replace ==
  /\ \E n \in notice :
       files' = [files EXCEPT ![current] = OldFiles(@, n),
                              ![current + 1] = CloneFiles(files[current], n)]
  /\ current' = current + 1
  /\ notice' = {}
  /\ UNCHANGED <<disk, changed>>

\* Snapshot.ReadFile of a file that the snapshot has not read yet: also a snapshot
\* that has been replaced, for as long as a run holds it.
ReadFile(s, u) ==
  /\ s <= current
  /\ files[s][u] = Unread
  /\ files' = [files EXCEPT ![s][u] = disk[u]]
  /\ UNCHANGED <<disk, changed, notice, current>>

Next ==
  \/ \E u \in URIs, h \in Handles : DiskChange(u, h)
  \/ \E u \in URIs : MustReadFile(u)
  \/ Replace
  \/ \E s \in Seqs, u \in URIs : ReadFile(s, u)

Spec == Init /\ [][Next]_fileVars

-----------------------------------------------------------------------------
\* What a snapshot has read of a file it keeps for its life: a run sees one
\* content however often it asks, while the disk changes and newer snapshots are
\* cloned from the same map (snapshot.go:217-228, :183-198).
SnapshotStable ==
  [][\A s \in Seqs, u \in URIs :
       s <= current /\ files[s][u] # Unread => files'[s][u] = files[s][u]]_fileVars

\* "We expect the client to notify of a subsequent file change, and the file
\* content should be eventually consistent" (fs_overlay.go:67-70): once all the
\* changes of a file have been notified and handled, the current snapshot has what
\* is on disk, or nothing and reads it when asked. Files that vanish or come back
\* and remembered failures included.
EventuallyConsistent ==
  \A u \in URIs \ changed :
    notice = {} => files[current][u] \in {Unread, disk[u]}
=============================================================================
