------------------------------ MODULE FileStore ------------------------------
(* One uploaded file: its bytes on disk, its row in the table files, and the   *)
(* two dictionaries in which the API process keeps its metadata and its parsed *)
(* rows.  Uploads, reads and deletions are coroutines of that one process:     *)
(* they give way to each other at every await.                                 *)
(*                                                                             *)
(* The id of a file is a fresh uuid, so nobody else asks for it before the     *)
(* upload has answered.                                                        *)
(*                                                                             *)
(* An export analyses the rows and leaves an artifact: files of its own in     *)
(* Formats, and a row in the table artifacts.  Each artifact has a fresh uuid  *)
(* too; the model follows one.                                                 *)
EXTENDS Naturals, Sequences

CONSTANTS
    Calls,        \* the calls that can be in progress at a time
    MaxCalls,     \* bound: calls in all
    None

Kinds == {"upload", "metadata", "rows", "export", "delete"}

ASSUME FileStoreAssumption ==
    /\ MaxCalls \in Nat
    /\ None \notin Nat \cup Kinds

VARIABLES
    disk,         \* the bytes are in storage_dir
    row,          \* table files holds the row
    metadata,     \* FileService.metadata holds the file
    files,        \* FileService.files holds its parsed rows
    bundle,       \* files of the artifact that are written, or None before the export
    listed,       \* table artifacts holds the artifact's row
    call,         \* the calls in progress
    made,         \* calls made so far
    handed,       \* history: the upload has answered with the id
    deleting,     \* history: the owner has asked for the file to be deleted
    deleted,      \* history: a deletion has answered
    calm          \* history: no other call was in progress beside a deletion

vars == <<disk, row, metadata, files, bundle, listed, call, made, handed, deleting, deleted, calm>>

artifact == <<bundle, listed>>

(* The files of an artifact, in the order in which they are written.           *)
Formats == <<"csv", "svg", "md", "html", "xlsx", "docx", "pdf", "json">>

Idle == [pc |-> "idle", kind |-> None, found |-> FALSE,
         own |-> TRUE,         \* the caller is of the tenant of the file
         after |-> FALSE]      \* it began after a deletion had answered

Active(c) == call[c].pc # "idle"

Goto(c, l) == call' = [call EXCEPT ![c].pc = l]

Finish(c) == call' = [call EXCEPT ![c] = Idle]

Init ==
    /\ disk = FALSE
    /\ row = FALSE
    /\ metadata = FALSE
    /\ files = FALSE
    /\ bundle = None
    /\ listed = FALSE
    /\ call = [c \in Calls |-> Idle]
    /\ made = 0
    /\ handed = FALSE
    /\ deleting = FALSE
    /\ deleted = FALSE
    /\ calm = TRUE

-----------------------------------------------------------------------------
(* store_and_parse: name, type, size, content and row count are checked first, *)
(* and an upload they refuse leaves nothing.                                   *)
Upload(c) ==
    /\ made = 0
    /\ made' = 1
    /\ \/ call' = [call EXCEPT ![c] = [Idle EXCEPT !.pc = "store", !.kind = "upload"]]
       \/ UNCHANGED call
    /\ UNCHANGED <<artifact, disk, row, metadata, files, handed, deleting, deleted, calm>>

\* The bytes are written, then both dictionaries filled.
Store(c) ==
    /\ call[c].pc = "store"
    /\ disk' = TRUE
    /\ metadata' = TRUE
    /\ files' = TRUE
    /\ Goto(c, "save")
    /\ UNCHANGED <<artifact, row, made, handed, deleting, deleted, calm>>

\* Mutant: the id is answered whether or not the row was committed.
SaveIgnoresFailure(c) ==
    /\ call[c].pc = "save"
    /\ row' \in BOOLEAN
    /\ handed' = TRUE
    /\ Finish(c)
    /\ UNCHANGED <<artifact, disk, metadata, files, made, deleting, deleted, calm>>

\* The row is committed and the id answered; Stop is the commit that fails.
Save(c) ==
    /\ call[c].pc = "save"
    /\ row' = TRUE
    /\ handed' = TRUE
    /\ Finish(c)
    /\ UNCHANGED <<artifact, disk, metadata, files, made, deleting, deleted, calm>>

-----------------------------------------------------------------------------
(* Requests for the file, by its tenant or by another: its metadata, an        *)
(* analysis of its rows, the export of one, its deletion.  PermissionService   *)
(* lets only holders of file:delete begin a deletion.                          *)
Request(c) ==
    /\ ~Active(c)
    /\ handed
    /\ made < MaxCalls
    /\ made' = made + 1
    /\ \E kind \in {"metadata", "rows", "export", "delete"}, own \in BOOLEAN :
          /\ kind = "export" => bundle = None
          /\ bundle' = IF kind = "export" THEN 0 ELSE bundle
          /\ call' = [call EXCEPT ![c] =
                        [Idle EXCEPT !.pc = "ask", !.kind = kind, !.own = own,
                                     !.after = deleted]]
          /\ deleting' = (deleting \/ (kind = "delete" /\ own))
    /\ calm' = (calm /\ ~\E d \in Calls \ {c} :
                           /\ Active(d)
                           /\ "delete" \in {call'[c].kind, call[d].kind})
    /\ UNCHANGED <<listed, disk, row, metadata, files, handed, deleted>>

(* Where a call goes that has the rows: their analysis is answered, or exported. *)
WithRows(c) == IF call[c].kind = "export" THEN "write" ELSE "told"

(* What a call does with the metadata, without an await in between: rows       *)
(* already in memory are the answer; ...                                       *)
Serve(c) ==
    \/ call[c].kind = "delete" /\ Goto(c, "unlink")
    \/ call[c].kind = "metadata" /\ Goto(c, "told")
    \/ call[c].kind \in {"rows", "export"} /\ Goto(c, IF files THEN WithRows(c) ELSE "open")

(* ... a file of another tenant is not found (404).                            *)
WithMetadata(c) ==
    \/ ~call[c].own /\ Goto(c, "missing")
    \/ call[c].own /\ Serve(c)

\* Mutant: metadata in memory is used whoever asks.
AskTrustsMemory(c) ==
    /\ call[c].pc = "ask"
    /\ IF metadata THEN Serve(c)
       ELSE Goto(c, "select")
    /\ UNCHANGED <<artifact, disk, row, metadata, files, made, handed, deleting, deleted, calm>>

(* get_metadata: from memory if it is there ...                                *)
Ask(c) ==
    /\ call[c].pc = "ask"
    /\ IF metadata THEN WithMetadata(c) ELSE Goto(c, "select")
    /\ UNCHANGED <<artifact, disk, row, metadata, files, made, handed, deleting, deleted, calm>>

(* ... or from the row, which is looked up by id and tenant ...                *)
Select(c) ==
    /\ call[c].pc = "select"
    /\ call' = [call EXCEPT ![c] = [@ EXCEPT !.pc = "note",
                                             !.found = row /\ call[c].own]]
    /\ UNCHANGED <<artifact, disk, row, metadata, files, made, handed, deleting, deleted, calm>>

(* ... and, when the coroutine goes on, put into memory, whatever was deleted  *)
(* since.                                                                      *)
Note(c) ==
    /\ call[c].pc = "note"
    /\ IF call[c].found
       THEN metadata' = TRUE /\ WithMetadata(c)
       ELSE Goto(c, "missing") /\ UNCHANGED metadata
    /\ UNCHANGED <<artifact, disk, row, files, made, handed, deleting, deleted, calm>>

-----------------------------------------------------------------------------
(* get_rows: the file is read in a thread; one that is gone fails the request  *)
(* (FileNotFoundError, which no handler turns into a 404) ...                  *)
Open(c) ==
    /\ call[c].pc = "open"
    /\ Goto(c, IF disk THEN "keep" ELSE "broken")
    /\ UNCHANGED <<artifact, disk, row, metadata, files, made, handed, deleting, deleted, calm>>

(* ... and its rows are kept in memory.                                        *)
Keep(c) ==
    /\ call[c].pc = "keep"
    /\ files' = TRUE
    /\ Goto(c, WithRows(c))
    /\ UNCHANGED <<artifact, disk, row, metadata, made, handed, deleting, deleted, calm>>

-----------------------------------------------------------------------------
\* Mutant: the artifact's row is saved with its first file.
WriteListed(c) ==
    /\ call[c].pc = "write"
    /\ bundle' = bundle + 1
    /\ listed' = TRUE
    /\ Goto(c, IF bundle' = Len(Formats) THEN "list" ELSE "write")
    /\ UNCHANGED <<disk, row, metadata, files, made, handed, deleting, deleted, calm>>

(* export_analysis: one file after the other, each in a thread ...             *)
Write(c) ==
    /\ call[c].pc = "write"
    /\ bundle' = bundle + 1
    /\ Goto(c, IF bundle' = Len(Formats) THEN "list" ELSE "write")
    /\ UNCHANGED <<listed, disk, row, metadata, files, made, handed, deleting, deleted, calm>>

(* ... then the row, and the answer names all files.                           *)
List(c) ==
    /\ call[c].pc = "list"
    /\ listed' = TRUE
    /\ Goto(c, "told")
    /\ UNCHANGED <<bundle, disk, row, metadata, files, made, handed, deleting, deleted, calm>>

-----------------------------------------------------------------------------
\* Mutant: a failure to remove the bytes is ignored.
UnlinkIgnoresFailure(c) ==
    /\ call[c].pc = "unlink"
    /\ disk' \in BOOLEAN
    /\ Goto(c, "pop")
    /\ UNCHANGED <<artifact, row, metadata, files, made, handed, deleting, deleted, calm>>

(* delete: the bytes go first ...                                              *)
Unlink(c) ==
    /\ call[c].pc = "unlink"
    /\ disk' = FALSE
    /\ Goto(c, "pop")
    /\ UNCHANGED <<artifact, row, metadata, files, made, handed, deleting, deleted, calm>>

\* Mutant: only the rows are dropped from memory.
PopRowsOnly(c) ==
    /\ call[c].pc = "pop"
    /\ files' = FALSE
    /\ Goto(c, "remove")
    /\ UNCHANGED <<artifact, disk, row, metadata, made, handed, deleting, deleted, calm>>

(* ... then both dictionaries forget the file ...                              *)
Pop(c) ==
    /\ call[c].pc = "pop"
    /\ files' = FALSE
    /\ metadata' = FALSE
    /\ Goto(c, "remove")
    /\ UNCHANGED <<artifact, disk, row, made, handed, deleting, deleted, calm>>

(* ... the row is deleted, and the deletion audited and answered.              *)
Remove(c) ==
    /\ call[c].pc = "remove"
    /\ row' = FALSE
    /\ Goto(c, "audit")
    /\ UNCHANGED <<artifact, disk, metadata, files, made, handed, deleting, deleted, calm>>

Audit(c) ==
    /\ call[c].pc = "audit"
    /\ deleted' = TRUE
    /\ Finish(c)
    /\ UNCHANGED <<artifact, disk, row, metadata, files, made, handed, deleting, calm>>

-----------------------------------------------------------------------------
Return(c) ==
    /\ call[c].pc \in {"told", "missing", "broken"}
    /\ Finish(c)
    /\ UNCHANGED <<artifact, disk, row, metadata, files, made, handed, deleting, deleted, calm>>

(* A call ends half-way: it is cancelled, or the database fails it.            *)
Stop(c) ==
    /\ Active(c)
    /\ Finish(c)
    /\ UNCHANGED <<artifact, disk, row, metadata, files, made, handed, deleting, deleted, calm>>

(* The process ends with everything in its memory and is started again, on the *)
(* same disk: what is in the artifact directory stays, as it does when a       *)
(* process restarts; only uploads have a volume that outlives the container.   *)
Restart ==
    /\ metadata' = FALSE
    /\ files' = FALSE
    /\ call' = [c \in Calls |-> Idle]
    /\ UNCHANGED <<artifact, disk, row, made, handed, deleting, deleted, calm>>

Next ==
    \/ \E c \in Calls :
          \/ Upload(c)
          \/ Store(c)
          \/ Save(c)
          \/ Request(c)
          \/ Ask(c)
          \/ Select(c)
          \/ Note(c)
          \/ Open(c)
          \/ Keep(c)
          \/ Write(c)
          \/ List(c)
          \/ Unlink(c)
          \/ Pop(c)
          \/ Remove(c)
          \/ Audit(c)
          \/ Return(c)
          \/ Stop(c)
    \/ Restart

Spec == Init /\ [][Next]_vars

-----------------------------------------------------------------------------
(* A file whose upload was answered is there for its tenant until a deletion   *)
(* is asked for: across restarts and whatever other calls do, no request is    *)
(* refused or fails.                                                           *)
UploadIsDurable ==
    handed /\ ~deleting =>
        /\ disk /\ row
        /\ \A c \in Calls : call[c].own => call[c].pc \notin {"missing", "broken"}

(* The bytes of an answered upload are not left behind: while they are on disk *)
(* they have their row, so that the file can be asked for, and deleted, after  *)
(* a restart.  A deletion that ends half-way leaves the row and can be         *)
(* repeated.  (An upload that ends between its bytes and its row does leave    *)
(* bytes without a row; nobody was told their id.)                             *)
NoOrphanedBytes == handed /\ disk => row

(* A request by another tenant never learns anything of the file and never     *)
(* deletes it, though the dictionaries are shared by all tenants.              *)
OtherTenantsFindNothing ==
    \A c \in Calls : ~call[c].own =>
        call[c].pc \notin {"told", "open", "keep", "broken", "write", "list",
                           "unlink", "pop", "remove", "audit"}

(* After a deletion has answered no request is told anything of the file and   *)
(* none fails on its missing bytes, as long as no call was in progress beside  *)
(* a deletion.  (Otherwise a read that resumes after the deletion puts the     *)
(* file back into memory, where it stays until the process ends.)              *)
CalmGoneAfterDelete ==
    calm => \A c \in Calls :
        call[c].after => call[c].pc \notin {"told", "open", "keep", "broken", "write", "list"}

(* What is listed is whole: an artifact has its row, and its export answers,   *)
(* only with all its files written, wherever an export is cut short and        *)
(* whatever becomes of the uploaded file meanwhile.  (Files of an export cut   *)
(* short stay on disk, and nothing lists or removes them.)                     *)
ArtifactIsWhole ==
    /\ listed => bundle = Len(Formats)
    /\ \A c \in Calls : call[c].kind = "export" /\ call[c].pc = "told" => listed

=============================================================================
