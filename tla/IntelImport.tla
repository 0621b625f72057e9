---------------------------- MODULE IntelImport ----------------------------
(***************************************************************************)
(* The import of an Intel PCCS database (intel_import.rs): import_intel    *)
(* and publish_with, run by several operators at once, against a source    *)
(* file somebody may still write to, a destination path somebody else may  *)
(* take, failing system calls, kills and power losses.                     *)
(*                                                                         *)
(* For every importer, `dir' is the directory it made as processes see it  *)
(* and `disk' what of it is on disk for certain: a power loss leaves       *)
(* anything between the two.  fsync of a file makes its content durable,   *)
(* fsync of a directory the names in it.  A synced RocksDB write is        *)
(* durable when it returns.                                                *)
(***************************************************************************)
EXTENDS IntelConvert

CONSTANTS
    Importers,   \* runs of `pccs-rs import-intel' for one destination
    Sources,     \* contents the source file may have
    NoSource,
    Content,     \* Content[c]: the snapshot a source with content c holds
    Rewrites,    \* bound: the contents it may be rewritten with
    MaxChanges   \* bound: how often the source file is written to

ASSUME SourcesAssumption == Rewrites \subseteq Sources /\ MaxChanges \in Nat

\* A database file has finitely many rows.
ASSUME ContentAssumption == \A c \in Sources : \A t \in Tables : IsFiniteSet(Content[c][t])

VARIABLES
    source,    \* the file: its content, those it had before, whether SQLite left sidecars
    foreign,   \* the destination path was taken by someone else
    pc,        \* the step an importer takes next, or how it ended
    hashed,    \* the content it hashed first: report.source_sha256
    read,      \* the content it read
    dir, disk

ivars == <<source, foreign, pc, hashed, read, dir, disk>>

Absent == [name |-> "none", db |-> "none", report |-> "none", flushed |-> FALSE]

Before == {"start", "hash", "read", "convert", "rehash", "stage"}
Staging == {"write", "verify", "report", "sync_report", "sync_staging", "rename"}
Steps == Before \cup Staging \cup {"sync_parent", "cleanup"}
Ends == {"ok", "refused", "failed", "killed"}
Running(i) == pc[i] \in Steps \ {"start"}

DestinationTaken == foreign \/ \E j \in Importers : dir[j].name = "dest"

ImportInit ==
    /\ source \in [content : Sources, sidecars : BOOLEAN, past : {{}}]
    /\ foreign \in BOOLEAN
    /\ pc = [i \in Importers |-> "start"]
    /\ hashed = [i \in Importers |-> NoSource]
    /\ read = hashed
    /\ dir = [i \in Importers |-> Absent]
    /\ disk = [i \in Importers |-> Absent]

-----------------------------------------------------------------------------
Goto(i, p) == pc' = [pc EXCEPT ![i] = p]

\* The locals of a run that ended without publishing.
Forget(i) ==
    /\ hashed' = [hashed EXCEPT ![i] = NoSource]
    /\ read' = [read EXCEPT ![i] = NoSource]

\* `?' before there is a staging directory: nothing to clean up.
Refuse(i) == Goto(i, "refused") /\ UNCHANGED <<source, foreign, dir, disk>> /\ Forget(i)

Continue(i, p) == Goto(i, p) /\ UNCHANGED <<source, foreign, hashed, read, dir, disk>>

\* import_intel: a destination that is there, or a database in use, is refused.
Begin(i) ==
    /\ pc[i] = "start"
    /\ IF DestinationTaken \/ source.sidecars THEN Refuse(i) ELSE Continue(i, "hash")

\* hash_file, the first time.
HashSource(i) ==
    /\ pc[i] = "hash"
    /\ hashed' = [hashed EXCEPT ![i] = source.content]
    /\ Goto(i, "read")
    /\ UNCHANGED <<source, foreign, read, dir, disk>>

\* read_snapshot, in one read transaction.
ReadSnapshot(i) ==
    /\ pc[i] = "read"
    /\ LET s == Content[source.content]
       IN  IF SchemaOk(s) /\ VersionRowOk(s)
           THEN /\ read' = [read EXCEPT ![i] = source.content]
                /\ Goto(i, "convert")
                /\ UNCHANGED <<source, foreign, hashed, dir, disk>>
           ELSE Refuse(i)

Convert(i) ==
    /\ pc[i] = "convert"
    /\ IF Convertible(Content[read[i]]) THEN Continue(i, "rehash") ELSE Refuse(i)

\* hash_file, the second time, against the hash in the report.
SourceUnchanged(i) == source.content = hashed[i]

Rehash(i) ==
    /\ pc[i] = "rehash"
    /\ IF SourceUnchanged(i) THEN Continue(i, "stage") ELSE Refuse(i)

\* The source cannot be read, or PRAGMA integrity_check says it is damaged.
SourceUnreadable(i) == pc[i] \in {"hash", "read", "rehash"} /\ Refuse(i)

-----------------------------------------------------------------------------
(* publish_with *)

\* private_directory: its name is not on disk before the parent is synced.
MakeStaging(i) ==
    /\ pc[i] = "stage"
    /\ dir' = [dir EXCEPT ![i].name = "staging"]
    /\ Goto(i, "write")
    /\ UNCHANGED <<source, foreign, hashed, read, disk>>

\* DB::open, one synced batch, flush: all records or none.
WriteDb(i) ==
    /\ pc[i] = "write"
    /\ dir' = [dir EXCEPT ![i].db = "full"]
    /\ disk' = [disk EXCEPT ![i].db = "full"]
    /\ Goto(i, "verify")
    /\ UNCHANGED <<source, foreign, hashed, read>>

\* The records are read back, compared byte by byte and counted.
Verify(i) == pc[i] = "verify" /\ dir[i].db = "full" /\ Continue(i, "report")

\* fs::write of the report: in the page cache only.
WriteReport(i) ==
    /\ pc[i] = "report"
    /\ dir' = [dir EXCEPT ![i].report = "full"]
    /\ Goto(i, "sync_report")
    /\ UNCHANGED <<source, foreign, hashed, read, disk>>

SyncReport(i) ==
    /\ pc[i] = "sync_report"
    /\ dir' = [dir EXCEPT ![i].flushed = TRUE]
    /\ Goto(i, "sync_staging")
    /\ UNCHANGED <<source, foreign, hashed, read, disk>>

\* Variant: the staging directory is not synced.
NamesLeftToTheKernel(i) == disk

\* The names in the staging directory; the report counts if its content is there.
NamesOnDisk(i) ==
    [disk EXCEPT ![i].report = IF dir[i].flushed THEN dir[i].report ELSE "part",
                 ![i].flushed = dir[i].flushed]

SyncStaging(i) ==
    /\ pc[i] = "sync_staging"
    /\ disk' = NamesOnDisk(i)
    /\ Goto(i, "rename")
    /\ UNCHANGED <<source, foreign, hashed, read, dir>>

\* Variant: rename(2), which replaces a directory that is there.
RenameOver(i) ==
    /\ foreign' = FALSE
    /\ dir' = [j \in Importers |-> IF j = i THEN [dir[i] EXCEPT !.name = "dest"]
                                   ELSE IF dir[j].name = "dest" THEN Absent ELSE dir[j]]
    /\ Goto(i, "sync_parent")

\* publish_directory: renameat2 with RENAME_NOREPLACE.
RenameNoReplace(i) ==
    /\ IF DestinationTaken
       THEN Goto(i, "cleanup") /\ UNCHANGED dir
       ELSE Goto(i, "sync_parent") /\ dir' = [dir EXCEPT ![i].name = "dest"]
    /\ UNCHANGED foreign

Rename(i) ==
    /\ pc[i] = "rename"
    /\ RenameNoReplace(i)
    /\ UNCHANGED <<source, hashed, read, disk>>

\* fsync of the parent: all the names in it, those of other importers too.
SyncParent(i) ==
    /\ pc[i] = "sync_parent"
    /\ disk' = [j \in Importers |-> [disk[j] EXCEPT !.name = dir[j].name]]
    /\ Goto(i, "ok")
    /\ UNCHANGED <<source, foreign, hashed, read, dir>>

\* A system call fails; the report may be half written.
Fail(i) ==
    /\ pc[i] \in Staging \cup {"sync_parent"}
    /\ dir' = [dir EXCEPT ![i].report = IF pc[i] = "report" THEN "part" ELSE @]
    /\ Goto(i, "cleanup")
    /\ UNCHANGED <<source, foreign, hashed, read, disk>>

MakeStagingFails(i) == pc[i] = "stage" /\ Refuse(i)

\* remove_dir_all(&staging) finds a directory only under the staging name.
Removable(i) == dir[i].name = "staging"

\* The clean-up, whose own failure is ignored.
CleanUp(i) ==
    /\ pc[i] = "cleanup"
    /\ \/ Removable(i) /\ dir' = [dir EXCEPT ![i] = Absent]
       \/ Removable(i) /\ dir' = [dir EXCEPT ![i].db = "part", ![i].report = "none"]
       \/ ~Removable(i) /\ UNCHANGED dir
    /\ Goto(i, "failed")
    /\ UNCHANGED <<source, foreign, hashed, read, disk>>

-----------------------------------------------------------------------------
(* What happens around them. *)

Kill(i) == Running(i) /\ Continue(i, "killed")

\* What may be left of directory i: each part as on disk, or as it was last seen;
\* a rename that is not on disk may leave the old name.
Remains(i) ==
    [name : {disk[i].name, dir[i].name}
                \cup (IF disk[i].name # dir[i].name /\ dir[i].name = "dest" THEN {"staging"} ELSE {}),
     db : {disk[i].db, dir[i].db}, report : {disk[i].report, dir[i].report},
     flushed : {disk[i].flushed}]

PowerLoss ==
    /\ \E i \in Importers : Running(i) \/ dir[i] # disk[i]
    /\ dir' \in [Importers -> UNION {Remains(i) : i \in Importers}]
    /\ \A i \in Importers : dir'[i] \in Remains(i)
    /\ disk' = dir'
    /\ pc' = [i \in Importers |-> IF Running(i) THEN "killed" ELSE pc[i]]
    /\ UNCHANGED <<source, foreign, hashed, read>>

\* Somebody writes to the source file.  No content comes back: SQLite counts the
\* writes in the header of the file.
ChangeSource ==
    /\ Cardinality(source.past) < MaxChanges
    /\ \E c \in Rewrites \ (source.past \cup {source.content}) :
           source' = [source EXCEPT !.content = c, !.past = @ \cup {source.content}]
    /\ UNCHANGED <<foreign, pc, hashed, read, dir, disk>>

\* Somebody else creates the destination.
TakeDestination ==
    /\ ~DestinationTaken
    /\ foreign' = TRUE
    /\ UNCHANGED <<source, pc, hashed, read, dir, disk>>

ImportStep(i) ==
    \/ Begin(i) \/ HashSource(i) \/ ReadSnapshot(i) \/ Convert(i) \/ Rehash(i)
    \/ SourceUnreadable(i)
    \/ MakeStaging(i) \/ MakeStagingFails(i) \/ WriteDb(i) \/ Verify(i) \/ WriteReport(i)
    \/ SyncReport(i) \/ SyncStaging(i) \/ Rename(i) \/ SyncParent(i)
    \/ Fail(i) \/ CleanUp(i) \/ Kill(i)

ImportNext ==
    \/ \E i \in Importers : ImportStep(i)
    \/ PowerLoss \/ ChangeSource \/ TakeDestination

ImportSpec == ImportInit /\ [][ImportNext]_ivars

-----------------------------------------------------------------------------
Parts == {"none", "part", "full"}
Directory == [name : {"none", "staging", "dest"}, db : Parts, report : Parts, flushed : BOOLEAN]

\* Type invariant.
ImportTypeOK ==
    /\ source \in [content : Sources, sidecars : BOOLEAN, past : SUBSET Sources]
    /\ foreign \in BOOLEAN
    /\ pc \in [Importers -> Steps \cup Ends]
    /\ hashed \in [Importers -> Sources \cup {NoSource}]
    /\ read \in [Importers -> Sources \cup {NoSource}]
    /\ dir \in [Importers -> Directory] /\ disk \in [Importers -> Directory]

Whole(d) == d.db = "full" /\ d.report = "full"

(***************************************************************************)
(* Whatever happened, a power loss included, a database that stands at the *)
(* destination is whole, and one whose import reported success is there    *)
(* and cannot be lost any more (publish_with).                             *)
(***************************************************************************)
PublicationDurable ==
    \A i \in Importers :
        /\ dir[i].name = "dest" => Whole(dir[i])
        /\ pc[i] = "ok" => dir[i].name = "dest" /\ disk[i] = dir[i]

(***************************************************************************)
(* "never remove destination on error": what stands at the destination,    *)
(* an importer's or somebody else's, is not replaced, changed or removed   *)
(* by any importer, also when the sync after its own rename fails.         *)
(***************************************************************************)
PublishedStays ==
    [][/\ foreign => foreign'
       /\ \A i \in Importers :
              dir[i].name = "dest" /\ (\E j \in Importers : pc'[j] \notin {pc[j], "killed"})
                  => dir'[i] = dir[i]]_ivars
=============================================================================
