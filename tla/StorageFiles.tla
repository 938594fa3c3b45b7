---------------------------- MODULE StorageFiles ----------------------------
(***************************************************************************)
(* src/src/common/storage/storage.service.ts and its two callers in        *)
(* infra.controller.ts: the media files on the local disk or in a bucket,  *)
(* the archive an export makes of them, and its import, entry by entry.    *)
(* With storage type s3 the bucket is probed after the constructor has     *)
(* returned; until it has answered every call goes to the local disk.      *)
(***************************************************************************)
EXTENDS Naturals, Sequences, FiniteSets, SequencesExt

CONSTANTS
    File,         \* keys that are safe
    Unsafe,       \* entries of an archive whose name isSafeStorageKey() refuses
    Huge,         \* entries beyond the per-entry cap
    MaxEntries    \* the entry limit of an archive (100 000 in the code)

\* An entry is of one kind.
ASSUME FilesAssumption == (Unsafe \cup Huge) \cap File = {} /\ MaxEntries \in Nat

Name == File \cup Unsafe \cup Huge

VARIABLES
    type,         \* storageType: "local" or "s3"
    available,    \* s3Available
    disk, bucket,     \* files on disk, files in the bucket
    listed,       \* an export: files listed and not yet read
    planned,      \* history: all the files it listed
    unread,       \* history: those that were there and could not be read
    moved,        \* history: the backend has changed since it listed them
    archive,      \* entries of the archive, in order
    filesExport,       \* "none", "reading", "done"
    filesImport,       \* "none", "running", "done", "failed"
    left,         \* entries the import has not reached
    entries,      \* entryCount
    count,        \* importedCount
    total,        \* history: the entries of the archive it imports
    skipped,      \* history: how many of them it has skipped
    put           \* history: where each entry was written: <<its place, backend, file>>

filesVars == <<type, available, disk, bucket, listed, planned, unread, moved, archive, filesExport,
              filesImport, left, entries, count, total, skipped, put>>
files == <<disk, bucket>>
exporting == <<listed, planned, unread, moved, archive, filesExport>>
importing == <<filesImport, left, entries, count, total, skipped, put>>

FilesTypeOK ==
    /\ type \in {"local", "s3"} /\ available \in BOOLEAN
    /\ disk \subseteq File /\ bucket \subseteq File /\ listed \subseteq File
    /\ planned \subseteq File /\ unread \subseteq File /\ moved \in BOOLEAN
    /\ archive \in Seq(Name) /\ left \in Seq(Name)
    /\ filesExport \in {"none", "reading", "done"} /\ filesImport \in {"none", "running", "done", "failed"}
    /\ entries \in 0 .. MaxEntries + 1 /\ count \in Nat
    /\ total \in Nat /\ skipped \in Nat
    /\ put \subseteq ((1 .. MaxEntries) \X {"disk", "bucket"} \X File)

\* The guard of every operation: storageType === 's3' && s3Available.
Backend == IF type = "s3" /\ available THEN "bucket" ELSE "disk"
StoredFiles == IF Backend = "bucket" THEN bucket ELSE disk

FilesInit ==
    /\ type \in {"local", "s3"} /\ available = FALSE
    /\ disk \in SUBSET File /\ bucket \in SUBSET File
    /\ listed = {} /\ planned = {} /\ unread = {} /\ moved = FALSE
    /\ archive = <<>> /\ filesExport = "none"
    /\ filesImport = "none" /\ left = <<>> /\ entries = 0 /\ count = 0
    /\ total = 0 /\ skipped = 0 /\ put = {}

\* initializeS3Bucket() has found or created the bucket; when it fails nothing
\* happens, and nothing tries again.
BucketAnswers ==
    /\ type = "s3" /\ available = FALSE
    /\ available' = TRUE /\ moved' = (filesExport = "reading" \/ moved)
    /\ UNCHANGED <<type, files, listed, planned, unread, archive, filesExport, importing>>

\* createExportStream(): the files of the backend are listed ...
ExportLists ==
    /\ filesExport = "none"
    /\ filesExport' = "reading" /\ listed' = StoredFiles /\ archive' = <<>>
    /\ planned' = StoredFiles /\ unread' = {} /\ moved' = FALSE
    /\ UNCHANGED <<type, available, files, importing>>

\* ... and read one by one; one that cannot be read, or is not in the backend that is
\* in force when it is its turn, is left out.
ExportReads(f) ==
    /\ filesExport = "reading" /\ f \in listed
    /\ listed' = listed \ {f}
    /\ \/ f \in StoredFiles /\ archive' = Append(archive, f) /\ UNCHANGED unread
       \/ f \in StoredFiles /\ unread' = unread \cup {f} /\ UNCHANGED archive
       \/ f \notin StoredFiles /\ UNCHANGED <<archive, unread>>
    /\ UNCHANGED <<type, available, files, planned, moved, filesExport, importing>>

\* exportStorage(): the archive is on the data volume.
ExportEnds ==
    /\ filesExport = "reading" /\ listed = {}
    /\ filesExport' = "done"
    /\ UNCHANGED <<type, available, files, listed, planned, unread, moved, archive, importing>>

\* The archive is kept for an hour. An import that reads it goes on.
Sweep ==
    /\ filesExport = "done"
    /\ filesExport' = "none" /\ archive' = <<>>
    /\ UNCHANGED <<type, available, files, listed, planned, unread, moved, importing>>

\* The process is started again with another storage type.
RestartWith(t) ==
    /\ filesExport # "reading" /\ filesImport # "running" /\ t # type
    /\ type' = t /\ available' = FALSE
    /\ UNCHANGED <<files, exporting, importing>>

\* importFromStream() of the archive, or of one made elsewhere.
ImportBegins(entriesOf) ==
    /\ filesImport = "none"
    /\ filesImport' = "running" /\ left' = entriesOf /\ entries' = 0 /\ count' = 0
    /\ total' = Len(entriesOf) /\ skipped' = 0 /\ put' = {}
    /\ UNCHANGED <<type, available, files, exporting>>

TooMany == entries + 1 > MaxEntries

\* As a plausible change: entries are counted as they are read.
CountsWritten(written) == count + 1

\* An entry counts once it has been written.
Counts(written) == IF written THEN count + 1 ELSE count

\* One entry: beyond a cap the import is given up, keeping what it has
\* written; a name that is refused, or a write that fails, is skipped.
ImportEntry ==
    /\ filesImport = "running" /\ left # <<>>
    /\ entries' = entries + 1
    /\ LET f == Head(left)
       IN IF TooMany \/ f \in Huge
          THEN filesImport' = "failed" /\ left' = <<>> /\ UNCHANGED <<files, count, skipped, put>>
          ELSE /\ left' = Tail(left) /\ UNCHANGED filesImport
               /\ \/ /\ f \in File /\ count' = Counts(TRUE) /\ UNCHANGED skipped
                     /\ put' = put \cup {<<entries', Backend, f>>}
                     /\ IF Backend = "bucket" THEN bucket' = bucket \cup {f} /\ UNCHANGED disk
                                              ELSE disk' = disk \cup {f} /\ UNCHANGED bucket
                  \/ count' = Counts(FALSE) /\ skipped' = skipped + 1 /\ UNCHANGED <<files, put>>
    /\ UNCHANGED <<type, available, exporting, total>>

ImportEnds ==
    /\ filesImport = "running" /\ left = <<>>
    /\ filesImport' = "done"
    /\ UNCHANGED <<type, available, files, exporting, left, entries, count, total, skipped, put>>

\* Archives made elsewhere: with an entry that is refused or huge, or with a name twice.
Foreign == {<<u, f>> : u \in Unsafe \cup Huge, f \in File} \cup {<<f, f, g>> : f, g \in File}

FilesNext ==
    \/ BucketAnswers \/ ExportLists \/ ExportEnds \/ Sweep \/ ImportEntry \/ ImportEnds
    \/ \E f \in File : ExportReads(f)
    \/ \E t \in {"local", "s3"} : RestartWith(t)
    \/ filesExport = "done" /\ ImportBegins(archive)
    \/ \E a \in Foreign : ImportBegins(a)

FilesSpec == FilesInit /\ [][FilesNext]_filesVars

-----------------------------------------------------------------------------
(* Properties.                                                             *)

\* The number an import answers with is the number of entries it has written (a name
\* that the archive has twice counts twice), each of them in the store, in the backend
\* that was in force when it was written; and an import that was not cut off has skipped
\* the others, one by one.
CountIsExact ==
    /\ filesImport # "none" => count = Cardinality(put)
    /\ \A p \in put : p[3] \in (IF p[2] = "bucket" THEN bucket ELSE disk)
    /\ filesImport = "done" => count + skipped = total

\* An archive has only files that are in the store, each once; and one made while the
\* backend stayed the same has every file that was in it, but those that could not be
\* read.  (When the bucket answers during the export, the files still to be read are
\* looked for there, and the archive may be empty.)
ArchiveIsTrue ==
    /\ IsInjective(archive) /\ ToSet(archive) \subseteq disk \cup bucket
    /\ filesExport = "done" /\ ~moved => ToSet(archive) = planned \ unread
=============================================================================
