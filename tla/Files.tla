------------------------------- MODULE Files --------------------------------
(***************************************************************************)
(* FilesService and SessionFilesGateway: the rows of the files table       *)
(* against the objects of the MinIO bucket.  Neither store knows of the    *)
(* other; an upload, a deletion and the cleanup after session.ended each   *)
(* walk through both, one await at a time, and interleave.                 *)
(*                                                                         *)
(* A behaviour has only the disturbances in env, chosen at the start:      *)
(*   "late"       a session ends while an upload to its tray is in flight  *)
(*   "early"      a file is deleted before its upload has finished         *)
(*   "miniofail"  a MinIO call fails                                       *)
(*   "dbfail"     a database call fails                                    *)
(*   "crash"      the process dies with everything it has in flight        *)
(***************************************************************************)
CONSTANTS
  FileIds,      \* ids of rows; a row gets a fresh one, so each is used once
  Requests,     \* deletions that may be in flight at once
  Sessions,
  Library,      \* the context of a file that belongs to a room
  Context,      \* the session or library each file is uploaded to
  Environments  \* the sets of disturbances to look at

Disturbances == {"late", "early", "miniofail", "dbfail", "crash"}

ASSUME FilesAssumption ==
  /\ Context \in [FileIds -> Sessions \cup {Library}]
  /\ Library \notin Sessions
  /\ Environments \subseteq SUBSET Disturbances

VARIABLES
  row,       \* the storageKey of each row: "pending" is '__pending__', "stored" its object's key
  objects,   \* the files whose bytes are in the bucket
  upload,    \* how far the upload of each file is
  deletion,  \* the deletions in flight: the file and the key they read
  ended,     \* the sessions whose status is ENDED
  cleanup,   \* how far deleteSessionFiles is for each session
  listed,    \* the files whose objects it still has to remove
  env

vars == <<row, objects, upload, deletion, ended, cleanup, listed, env>>

Idle == [at |-> "idle"]
Keys == {"pending", "stored"}
Deletions ==
  {Idle} \cup [at : {"read", "deleted"}, file : FileIds, key : Keys]

TypeOK ==
  /\ row \in [FileIds -> {"absent"} \cup Keys]
  /\ objects \subseteq FileIds
  /\ upload \in [FileIds -> {"new", "checked", "reserved", "put", "undo", "over"}]
  /\ deletion \in [Requests -> Deletions]
  /\ ended \subseteq Sessions
  /\ cleanup \in [Sessions -> {"none", "called", "removing", "done", "dead"}]
  /\ listed \in [Sessions -> SUBSET FileIds]
  /\ env \subseteq Disturbances

Init ==
  /\ row = [f \in FileIds |-> "absent"]
  /\ objects = {}
  /\ upload = [f \in FileIds |-> "new"]
  /\ deletion = [d \in Requests |-> Idle]
  /\ ended = {}
  /\ cleanup = [s \in Sessions |-> "none"]
  /\ listed = [s \in Sessions |-> {}]
  /\ env \in Environments

InFlight(f) == upload[f] \in {"checked", "reserved", "put", "undo"}
Tray(s) == {f \in FileIds : Context[f] = s}

-----------------------------------------------------------------------------
(* upload.  A name ending in Mutant is a mistake the operator after it     *)
(* could have been written with; nothing uses it.                          *)

Step(f, from, to) == upload[f] = from /\ upload' = [upload EXCEPT ![f] = to]

\* The uploader is an active participant of an ACTIVE session, or the room is there.
MayUploadMutant(f) == TRUE
MayUpload(f) == Context[f] \notin ended

UploadCheck(f) ==
  /\ MayUpload(f)
  /\ Step(f, "new", "checked")
  /\ UNCHANGED <<row, objects, deletion, ended, cleanup, listed, env>>

\* storageKey is unique, so one row at a time holds '__pending__'.
UploadReserve(f) ==
  /\ \A g \in FileIds : row[g] # "pending"
  /\ Step(f, "checked", "reserved")
  /\ row' = [row EXCEPT ![f] = "pending"]
  /\ UNCHANGED <<objects, deletion, ended, cleanup, listed, env>>

UploadCollides(f) ==
  /\ \E g \in FileIds : row[g] = "pending"
  /\ Step(f, "checked", "over")
  /\ UNCHANGED <<row, objects, deletion, ended, cleanup, listed, env>>

UploadPut(f) ==
  /\ Step(f, "reserved", "put")
  /\ objects' = objects \cup {f}
  /\ UNCHANGED <<row, deletion, ended, cleanup, listed, env>>

\* A failed call may have stored the bytes all the same.
UploadPutFails(f) ==
  /\ "miniofail" \in env
  /\ Step(f, "reserved", "undo")
  /\ objects' \in {objects, objects \cup {f}}
  /\ UNCHANGED <<row, deletion, ended, cleanup, listed, env>>

UploadUndoMutant(f) ==
  /\ Step(f, "undo", "over")
  /\ UNCHANGED <<row, objects, deletion, ended, cleanup, listed, env>>
UploadUndo(f) ==
  /\ Step(f, "undo", "over")
  /\ row' = [row EXCEPT ![f] = "absent"]
  /\ UNCHANGED <<objects, deletion, ended, cleanup, listed, env>>

\* The update finds no row when somebody has deleted it meanwhile.
UploadFinish(f) ==
  /\ Step(f, "put", "over")
  /\ row' = [row EXCEPT ![f] = IF @ = "pending" THEN "stored" ELSE @]
  /\ UNCHANGED <<objects, deletion, ended, cleanup, listed, env>>

UploadFails(f) ==
  /\ "dbfail" \in env
  /\ upload[f] \in {"checked", "put", "undo"}
  /\ upload' = [upload EXCEPT ![f] = "over"]
  /\ UNCHANGED <<row, objects, deletion, ended, cleanup, listed, env>>

-----------------------------------------------------------------------------
(* deleteFile, by the uploader, and session:file_remove, by the host.      *)

ReadForDeletion(d, f) ==
  /\ deletion[d] = Idle
  /\ row[f] # "absent"
  /\ InFlight(f) => "early" \in env
  /\ deletion' = [deletion EXCEPT ![d] = [at |-> "read", file |-> f, key |-> row[f]]]
  /\ UNCHANGED <<row, objects, upload, ended, cleanup, listed, env>>

DeleteFile(d, f) == ReadForDeletion(d, f)
FileRemove(d, f) == Context[f] # Library /\ ReadForDeletion(d, f)

\* The row goes first; deleting a row that is gone fails, and the request ends.
DeleteRow(d) ==
  /\ deletion[d].at = "read"
  /\ LET f == deletion[d].file IN
       IF row[f] = "absent"
       THEN deletion' = [deletion EXCEPT ![d] = Idle] /\ UNCHANGED row
       ELSE /\ deletion' = [deletion EXCEPT ![d].at = "deleted"]
            /\ row' = [row EXCEPT ![f] = "absent"]
  /\ UNCHANGED <<objects, upload, ended, cleanup, listed, env>>

\* The object under the key the request read: '__pending__' names none.
ObjectsWithoutMutant(f, key) == objects
ObjectsWithout(f, key) == IF key = "stored" THEN objects \ {f} ELSE objects

DeleteObject(d) ==
  /\ deletion[d].at = "deleted"
  /\ deletion' = [deletion EXCEPT ![d] = Idle]
  /\ \/ objects' = ObjectsWithout(deletion[d].file, deletion[d].key)
     \/ "miniofail" \in env /\ UNCHANGED objects
  /\ UNCHANGED <<row, upload, ended, cleanup, listed, env>>

DeleteFails(d) ==
  /\ "dbfail" \in env
  /\ deletion[d].at = "read"
  /\ deletion' = [deletion EXCEPT ![d] = Idle]
  /\ UNCHANGED <<row, objects, upload, ended, cleanup, listed, env>>

-----------------------------------------------------------------------------
(* session.ended and deleteSessionFiles.                                   *)

\* SessionsService.end writes the status and emits the event, which is lost
\* when the await between the two fails.
SessionEnds(s) ==
  /\ s \notin ended
  /\ (\E f \in Tray(s) : InFlight(f)) => "late" \in env
  /\ ended' = ended \cup {s}
  /\ \/ cleanup' = [cleanup EXCEPT ![s] = "called"]
     \/ "dbfail" \in env /\ cleanup' = [cleanup EXCEPT ![s] = "dead"]
  /\ UNCHANGED <<row, objects, upload, deletion, listed, env>>

CleanupList(s) ==
  /\ cleanup[s] = "called"
  /\ cleanup' = [cleanup EXCEPT ![s] = "removing"]
  /\ listed' = [listed EXCEPT ![s] = {f \in Tray(s) : row[f] = "stored"}]
  /\ UNCHANGED <<row, objects, upload, deletion, ended, env>>

CleanupObject(s, f) ==
  /\ cleanup[s] = "removing" /\ f \in listed[s]
  /\ listed' = [listed EXCEPT ![s] = @ \ {f}]
  /\ \/ objects' = objects \ {f}
     \/ "miniofail" \in env /\ UNCHANGED objects
  /\ UNCHANGED <<row, upload, deletion, ended, cleanup, env>>

\* deleteMany takes every row of the session, listed or not.
RowsWithoutMutant(s) == row
RowsWithout(s) == [f \in FileIds |-> IF f \in Tray(s) THEN "absent" ELSE row[f]]

CleanupRows(s) ==
  /\ cleanup[s] = "removing" /\ listed[s] = {}
  /\ cleanup' = [cleanup EXCEPT ![s] = "done"]
  /\ row' = RowsWithout(s)
  /\ UNCHANGED <<objects, upload, deletion, ended, listed, env>>

CleanupFails(s) ==
  /\ "dbfail" \in env
  /\ cleanup[s] = "called" \/ (cleanup[s] = "removing" /\ listed[s] = {})
  /\ cleanup' = [cleanup EXCEPT ![s] = "dead"]
  /\ UNCHANGED <<row, objects, upload, deletion, ended, listed, env>>

\* Nothing resumes what the process had in flight.
Crash ==
  /\ "crash" \in env
  /\ upload' = [f \in FileIds |-> IF InFlight(f) THEN "over" ELSE upload[f]]
  /\ deletion' = [d \in Requests |-> Idle]
  /\ cleanup' = [s \in Sessions |->
                   IF cleanup[s] \in {"called", "removing"} THEN "dead" ELSE cleanup[s]]
  /\ listed' = [s \in Sessions |-> {}]
  /\ UNCHANGED <<row, objects, ended, env>>

\* Uploads of FilesController, deletions by owner and by host, the cleanup, and what
\* interrupts them.
Next ==
  \/ \E f \in FileIds :
       \/ UploadCheck(f) \/ UploadReserve(f) \/ UploadCollides(f)
       \/ UploadPut(f) \/ UploadPutFails(f) \/ UploadUndo(f)
       \/ UploadFinish(f) \/ UploadFails(f)
  \/ \E d \in Requests :
       \/ \E f \in FileIds : DeleteFile(d, f) \/ FileRemove(d, f)
       \/ DeleteRow(d) \/ DeleteObject(d) \/ DeleteFails(d)
  \/ \E s \in Sessions :
       \/ SessionEnds(s) \/ CleanupList(s) \/ CleanupRows(s) \/ CleanupFails(s)
       \/ \E f \in FileIds : CleanupObject(s, f)
  \/ Crash

Spec == Init /\ [][Next]_vars

\* PostgreSQL and MinIO answer every call or fail it, and Node.js goes on with the
\* handler: whatever has begun takes its next step.  Nobody has to begin anything.
UploadGoesOn(f) ==
  \/ UploadReserve(f) \/ UploadCollides(f) \/ UploadPut(f) \/ UploadPutFails(f)
  \/ UploadUndo(f) \/ UploadFinish(f) \/ UploadFails(f)
CleanupGoesOn(s) ==
  \/ CleanupList(s) \/ CleanupRows(s) \/ CleanupFails(s)
  \/ \E f \in FileIds : CleanupObject(s, f)

FairSpec ==
  /\ Spec
  /\ \A f \in FileIds : WF_vars(UploadGoesOn(f))
  /\ \A s \in Sessions : WF_vars(CleanupGoesOn(s))

-----------------------------------------------------------------------------

\* A file that can be downloaded has its bytes, unless the cleanup of its
\* session is under way.  A crash or a failing deleteMany between the objects
\* and the rows (files.service.ts:322-332) leaves rows that name nothing.
StoredHasObject ==
  env \cap {"crash", "dbfail"} = {} =>
    \A f \in FileIds : row[f] = "stored" =>
      f \in objects \/ (Context[f] # Library /\ cleanup[Context[f]] = "removing")

\* A row that holds '__pending__' belongs to an upload that will give it up, so
\* the unique index refuses other uploads for a while and not for ever
\* (files.service.ts:141-177).
PendingIsReleased ==
  env \cap {"crash", "dbfail"} = {} =>
    \A f \in FileIds : row[f] = "pending" => upload[f] \in {"reserved", "put", "undo"}

\* The slot is free again and again: whatever the others upload, somebody whose
\* upload collided with a placeholder can succeed by trying again, as long as
\* nothing is lost between the placeholder and the key (files.service.ts:141-177).
SlotIsFreed ==
  env \cap {"crash", "dbfail"} = {} =>
    \A f \in FileIds : row[f] = "pending" ~> \A g \in FileIds : row[g] # "pending"

\* What an object in the bucket is there for: a row, or a request that is
\* about to write the row or remove the object.
Accounted(f) ==
  \/ row[f] = "stored"
  \/ upload[f] = "put"
  \/ \E d \in Requests :
       deletion[d].at = "deleted" /\ deletion[d].file = f /\ deletion[d].key = "stored"

\* No object outlives its row (schema.prisma:313-314) when no call fails and no
\* deletion or session end overtakes an upload.
NoOrphan == env = {} => \A f \in objects : Accounted(f)

\* Once deleteSessionFiles is through, its session has no row left and gets none,
\* whatever has failed or died before, unless an upload was in flight when the
\* session ended (files.service.ts:314-334, 115-139).
TrayIsEmptied ==
  "late" \notin env =>
    \A s \in Sessions : cleanup[s] = "done" =>
      \A f \in Tray(s) : row[f] = "absent" /\ ~InFlight(f)

\* The tray of an ended session is emptied in the end, although MinIO fails and
\* uploads and deletions go on meanwhile (session-files.gateway.ts:127-132).
EndedIsCleaned ==
  env \cap {"late", "crash", "dbfail"} = {} =>
    \A s \in Sessions : s \in ended ~> [](\A f \in Tray(s) : row[f] = "absent")
=============================================================================
