---------------------------- MODULE FilesProofs -----------------------------
(***************************************************************************)
(* What Files promises, for any number of files, deletions and sessions.   *)
(*                                                                         *)
(* None of the properties is inductive by itself.  The row of a file, its  *)
(* object and the requests that walk through both are related in every     *)
(* direction: what a deletion read must still be true of the upload, what  *)
(* a cleanup listed must be what is stored.  Calm is the part that holds   *)
(* only when nothing fails and nothing is overtaken.                       *)
(***************************************************************************)
EXTENDS Files, TLAPS

\* A row was written by its upload, which is over once the key is final, and an
\* upload that has put its object has it in the bucket.
Uploading ==
  \A f \in FileIds :
    /\ row[f] # "absent" => upload[f] \notin {"new", "checked"}
    /\ row[f] = "stored" => upload[f] = "over"
    /\ upload[f] = "put" => f \in objects

\* A deletion has read a row that was there; it goes for the object only when
\* the row is gone.
Deleting ==
  \A d \in Requests : deletion[d] # Idle =>
    /\ upload[deletion[d].file] \notin {"new", "checked"}
    /\ deletion[d].key = "stored" => upload[deletion[d].file] = "over"
    /\ deletion[d].at = "deleted" => row[deletion[d].file] = "absent"

\* A cleanup runs for an ended session and removes objects of that session.
Cleaning ==
  /\ \A s \in Sessions : cleanup[s] # "none" => s \in ended
  /\ \A s \in Sessions : \A f \in listed[s] :
       Context[f] = s /\ cleanup[s] = "removing" /\ upload[f] = "over"

\* No upload is in flight to the tray of an ended session.
EndedIsQuiet ==
  "late" \notin env => \A s \in ended : \A f \in Tray(s) : ~InFlight(f)

Calm ==
  env = {} =>
    /\ \A f \in FileIds : upload[f] \in {"reserved", "put"} => row[f] = "pending"
    /\ \A d \in Requests : deletion[d] # Idle => deletion[d].key = "stored"
    /\ \A s \in Sessions : \A f \in Tray(s) :
         cleanup[s] = "removing" /\ row[f] = "stored" /\ f \in objects => f \in listed[s]
    /\ \A f \in FileIds : upload[f] # "undo"

Inv ==
  /\ TypeOK
  /\ Uploading
  /\ Deleting
  /\ Cleaning
  /\ EndedIsQuiet
  /\ StoredHasObject
  /\ PendingIsReleased
  /\ TrayIsEmptied
  /\ Calm
  /\ NoOrphan

-----------------------------------------------------------------------------
(* One lemma per action: what it does to each part of Inv.                 *)

LEMMA UploadCheckStep ==
  ASSUME NEW f \in FileIds, Inv, UploadCheck(f)
  PROVE  Inv'
<1> USE FilesAssumption DEF Inv, UploadCheck, MayUpload, Step
<1>1. TypeOK'
  BY DEF TypeOK
<1>2. Uploading'
  BY DEF Uploading
<1>3. Deleting'
  BY DEF Deleting
<1>4. Cleaning'
  BY DEF Cleaning
<1>5. EndedIsQuiet'
  BY DEF EndedIsQuiet, InFlight, Tray
<1>6. PendingIsReleased'
  BY DEF PendingIsReleased
<1>7. TrayIsEmptied'
  BY DEF Cleaning, TrayIsEmptied, Tray, InFlight
<1>8. Calm'
  BY DEF Calm
<1>9. NoOrphan'
  BY DEF NoOrphan, Accounted
<1>10. StoredHasObject'
  BY DEF StoredHasObject
<1> QED BY <1>1, <1>2, <1>3, <1>4, <1>5, <1>6, <1>7, <1>8, <1>9, <1>10

LEMMA UploadReserveStep ==
  ASSUME NEW f \in FileIds, Inv, UploadReserve(f)
  PROVE  Inv'
<1> USE FilesAssumption DEF Inv, UploadReserve, Step
<1>1. TypeOK'
  BY DEF TypeOK, Keys
<1>2. Uploading'
  BY DEF TypeOK, Uploading
<1>3. Deleting'
  BY DEF Deleting
<1>4. Cleaning'
  BY DEF Cleaning
<1>5. EndedIsQuiet'
  BY DEF EndedIsQuiet, InFlight
<1>6. StoredHasObject'
  BY DEF StoredHasObject
<1>7. PendingIsReleased'
  BY DEF TypeOK, PendingIsReleased
<1>8. TrayIsEmptied'
  BY DEF TrayIsEmptied, InFlight
<1>9. Calm'
  BY DEF TypeOK, Calm
<1>10. NoOrphan'
  BY DEF Uploading, NoOrphan, Accounted
<1> QED BY <1>1, <1>2, <1>3, <1>4, <1>5, <1>6, <1>7, <1>8, <1>9, <1>10

LEMMA UploadCollidesStep ==
  ASSUME NEW f \in FileIds, Inv, UploadCollides(f)
  PROVE  Inv'
<1> USE FilesAssumption DEF Inv, UploadCollides, Step
<1>1. TypeOK'
  BY DEF TypeOK
<1>2. Uploading'
  BY DEF Uploading
<1>3. Deleting'
  BY DEF Deleting
<1>4. Cleaning'
  BY DEF Cleaning
<1>5. EndedIsQuiet'
  BY DEF EndedIsQuiet, InFlight
<1>6. PendingIsReleased'
  BY DEF PendingIsReleased
<1>7. TrayIsEmptied'
  BY DEF TrayIsEmptied, InFlight
<1>8. Calm'
  BY DEF Calm
<1>9. NoOrphan'
  BY DEF NoOrphan, Accounted
<1>10. StoredHasObject'
  BY DEF StoredHasObject
<1> QED BY <1>1, <1>2, <1>3, <1>4, <1>5, <1>6, <1>7, <1>8, <1>9, <1>10

LEMMA UploadPutStep ==
  ASSUME NEW f \in FileIds, Inv, UploadPut(f)
  PROVE  Inv'
<1> USE FilesAssumption DEF Inv, UploadPut, Step
<1>1. TypeOK'
  BY DEF TypeOK
<1>2. Uploading'
  BY DEF Uploading
<1>3. Deleting'
  BY DEF Deleting
<1>4. Cleaning'
  BY DEF Cleaning
<1>5. EndedIsQuiet'
  BY DEF EndedIsQuiet, InFlight
<1>6. StoredHasObject'
  BY DEF StoredHasObject
<1>7. PendingIsReleased'
  BY DEF PendingIsReleased
<1>8. TrayIsEmptied'
  BY DEF TrayIsEmptied, InFlight
<1>9. Calm'
  BY DEF Calm
<1>10. NoOrphan'
  BY DEF TypeOK, NoOrphan, Accounted
<1> QED BY <1>1, <1>2, <1>3, <1>4, <1>5, <1>6, <1>7, <1>8, <1>9, <1>10

LEMMA UploadPutFailsStep ==
  ASSUME NEW f \in FileIds, Inv, UploadPutFails(f)
  PROVE  Inv'
<1> USE FilesAssumption DEF Inv, UploadPutFails, Step
<1>1. TypeOK'
  BY DEF TypeOK
<1>2. Uploading'
  BY DEF Uploading
<1>3. Deleting'
  BY DEF Deleting
<1>4. Cleaning'
  BY DEF Cleaning
<1>5. EndedIsQuiet'
  BY DEF EndedIsQuiet, InFlight
<1>6. StoredHasObject'
  BY DEF StoredHasObject
<1>7. PendingIsReleased'
  BY DEF PendingIsReleased
<1>8. TrayIsEmptied'
  BY DEF TrayIsEmptied, InFlight
<1>9. Calm'
  BY DEF Calm
<1>10. NoOrphan'
  BY DEF NoOrphan
<1> QED BY <1>1, <1>2, <1>3, <1>4, <1>5, <1>6, <1>7, <1>8, <1>9, <1>10

LEMMA UploadUndoStep ==
  ASSUME NEW f \in FileIds, Inv, UploadUndo(f)
  PROVE  Inv'
<1> USE FilesAssumption DEF Inv, UploadUndo, Step
<1>1. TypeOK'
  BY DEF TypeOK
<1>2. Uploading'
  BY DEF Uploading
<1>3. Deleting'
  BY DEF Deleting
<1>4. Cleaning'
  BY DEF Cleaning
<1>5. EndedIsQuiet'
  BY DEF EndedIsQuiet, InFlight
<1>6. StoredHasObject'
  BY DEF StoredHasObject
<1>7. PendingIsReleased'
  BY DEF TypeOK, PendingIsReleased
<1>8. TrayIsEmptied'
  BY DEF TrayIsEmptied, InFlight
<1>9. Calm'
  BY DEF Calm
<1>10. NoOrphan'
  BY DEF Uploading, NoOrphan, Accounted
<1> QED BY <1>1, <1>2, <1>3, <1>4, <1>5, <1>6, <1>7, <1>8, <1>9, <1>10

LEMMA UploadFinishStep ==
  ASSUME NEW f \in FileIds, Inv, UploadFinish(f)
  PROVE  Inv'
<1> USE FilesAssumption DEF Inv, UploadFinish, Step
<1>1. TypeOK'
  BY DEF TypeOK, Keys
<1>2. Uploading'
  BY DEF TypeOK, Uploading
<1>3. Deleting'
  BY DEF Deleting
<1>4. Cleaning'
  BY DEF Cleaning
<1>5. EndedIsQuiet'
  BY DEF EndedIsQuiet, InFlight
<1>6. StoredHasObject'
  BY DEF Uploading, StoredHasObject
<1>7. PendingIsReleased'
  BY DEF TypeOK, PendingIsReleased
<1>8. TrayIsEmptied'
  BY DEF TrayIsEmptied, InFlight
<1>9. Calm'
  BY DEF TypeOK, Calm, Cleaning, EndedIsQuiet, InFlight
<1>10. NoOrphan'
  BY DEF TypeOK, Calm, NoOrphan, Accounted
<1> QED BY <1>1, <1>2, <1>3, <1>4, <1>5, <1>6, <1>7, <1>8, <1>9, <1>10

LEMMA UploadFailsStep ==
  ASSUME NEW f \in FileIds, Inv, UploadFails(f)
  PROVE  Inv'
<1> USE FilesAssumption DEF Inv, UploadFails
<1>1. TypeOK'
  BY DEF TypeOK
<1>2. Uploading'
  BY DEF Uploading
<1>3. Deleting'
  BY DEF Deleting
<1>4. Cleaning'
  BY DEF Cleaning
<1>5. EndedIsQuiet'
  BY DEF EndedIsQuiet, InFlight
<1>6. PendingIsReleased'
  BY DEF PendingIsReleased
<1>7. TrayIsEmptied'
  BY DEF TypeOK, TrayIsEmptied, InFlight
<1>8. Calm'
  BY DEF Calm
<1>9. NoOrphan'
  BY DEF NoOrphan
<1>10. StoredHasObject'
  BY DEF StoredHasObject
<1> QED BY <1>1, <1>2, <1>3, <1>4, <1>5, <1>6, <1>7, <1>8, <1>9, <1>10

LEMMA ReadForDeletionStep ==
  ASSUME NEW d \in Requests, NEW f \in FileIds, Inv, ReadForDeletion(d, f)
  PROVE  Inv'
<1> USE FilesAssumption DEF Inv, ReadForDeletion
<1>1. TypeOK'
  BY DEF TypeOK, Deletions
<1>2. Deleting'
  BY DEF Uploading, Deleting
<1>3. Calm'
  BY DEF TypeOK, Keys, Calm, PendingIsReleased, InFlight
<1>4. NoOrphan'
  BY DEF Idle, NoOrphan, Accounted
<1>5. Uploading' /\ Cleaning' /\ EndedIsQuiet' /\ StoredHasObject' /\ PendingIsReleased' /\ TrayIsEmptied'
  BY DEF Uploading, Cleaning, EndedIsQuiet, StoredHasObject, PendingIsReleased,
       TrayIsEmptied, InFlight
<1> QED BY <1>1, <1>2, <1>3, <1>4, <1>5

LEMMA DeleteRowStep ==
  ASSUME NEW d \in Requests, Inv, DeleteRow(d)
  PROVE  Inv'
<1> USE FilesAssumption DEF Inv, DeleteRow
<1>1. TypeOK'
  BY DEF TypeOK, Deletions, Idle
<1>2. Uploading'
  BY DEF TypeOK, Uploading
<1>3. Deleting'
  BY DEF TypeOK, Deletions, Idle, Deleting
<1>4. StoredHasObject'
  BY DEF TypeOK, StoredHasObject
<1>5. PendingIsReleased'
  BY DEF TypeOK, PendingIsReleased
<1>6. TrayIsEmptied'
  BY DEF TypeOK, TrayIsEmptied, Tray, InFlight
<1>7. Calm'
  BY DEF TypeOK, Deletions, Idle, Calm, Deleting
<1>8. NoOrphan'
  BY DEF TypeOK, Deletions, Idle, Calm, NoOrphan, Accounted
<1>9. Cleaning' /\ EndedIsQuiet'
  BY DEF Cleaning, EndedIsQuiet, InFlight
<1> QED BY <1>1, <1>2, <1>3, <1>4, <1>5, <1>6, <1>7, <1>8, <1>9

LEMMA DeleteObjectStep ==
  ASSUME NEW d \in Requests, Inv, DeleteObject(d)
  PROVE  Inv'
<1> USE FilesAssumption DEF Inv, DeleteObject, ObjectsWithout
<1>1. TypeOK'
  BY DEF TypeOK, Deletions
<1>2. Uploading'
  BY DEF Idle, Uploading, Deleting
<1>3. Deleting'
  BY DEF Deleting
<1>4. StoredHasObject'
  BY DEF Idle, Deleting, StoredHasObject
<1>5. Calm'
  BY DEF Calm
<1>6. NoOrphan'
  BY DEF NoOrphan, Accounted
<1>7. Cleaning' /\ EndedIsQuiet' /\ PendingIsReleased' /\ TrayIsEmptied'
  BY DEF Cleaning, EndedIsQuiet, PendingIsReleased, TrayIsEmptied, InFlight
<1> QED BY <1>1, <1>2, <1>3, <1>4, <1>5, <1>6, <1>7

LEMMA DeleteFailsStep ==
  ASSUME NEW d \in Requests, Inv, DeleteFails(d)
  PROVE  Inv'
<1> USE FilesAssumption DEF Inv, DeleteFails
<1>1. TypeOK'
  BY DEF TypeOK, Deletions
<1>2. Deleting'
  BY DEF Deleting
<1>3. Calm'
  BY DEF Calm
<1>4. NoOrphan'
  BY DEF NoOrphan
<1>5. Uploading' /\ Cleaning' /\ EndedIsQuiet' /\ StoredHasObject' /\ PendingIsReleased' /\ TrayIsEmptied'
  BY DEF Uploading, Cleaning, EndedIsQuiet, StoredHasObject, PendingIsReleased,
       TrayIsEmptied, InFlight
<1> QED BY <1>1, <1>2, <1>3, <1>4, <1>5

LEMMA SessionEndsStep ==
  ASSUME NEW s \in Sessions, Inv, SessionEnds(s)
  PROVE  Inv'
<1> USE FilesAssumption DEF Inv, SessionEnds
<1>1. TypeOK'
  BY DEF TypeOK
<1>2. Cleaning'
  BY DEF TypeOK, Cleaning
<1>3. EndedIsQuiet'
  BY DEF EndedIsQuiet, InFlight
<1>4. StoredHasObject'
  BY DEF TypeOK, Cleaning, StoredHasObject
<1>5. TrayIsEmptied'
  BY DEF TypeOK, TrayIsEmptied, InFlight
<1>6. Calm'
  BY DEF TypeOK, Calm
<1>7. Uploading' /\ Deleting' /\ PendingIsReleased' /\ NoOrphan'
  BY DEF Uploading, Deleting, PendingIsReleased, NoOrphan, Accounted
<1> QED BY <1>1, <1>2, <1>3, <1>4, <1>5, <1>6, <1>7

LEMMA CleanupListStep ==
  ASSUME NEW s \in Sessions, Inv, CleanupList(s)
  PROVE  Inv'
<1> USE FilesAssumption DEF Inv, CleanupList
<1>1. TypeOK'
  BY DEF TypeOK, Tray
<1>2. Cleaning'
  BY DEF TypeOK, Uploading, Cleaning, Tray
<1>3. StoredHasObject'
  BY DEF StoredHasObject
<1>4. TrayIsEmptied'
  BY DEF TrayIsEmptied, InFlight
<1>5. Calm'
  BY DEF TypeOK, Calm
<1>6. Uploading' /\ Deleting' /\ EndedIsQuiet' /\ PendingIsReleased' /\ NoOrphan'
  BY DEF Uploading, Deleting, EndedIsQuiet, PendingIsReleased, NoOrphan, Accounted,
       InFlight
<1> QED BY <1>1, <1>2, <1>3, <1>4, <1>5, <1>6

LEMMA CleanupObjectStep ==
  ASSUME NEW s \in Sessions, NEW f \in FileIds, Inv, CleanupObject(s, f)
  PROVE  Inv'
<1> USE FilesAssumption DEF Inv, CleanupObject
<1>1. TypeOK'
  BY DEF TypeOK
<1>2. Uploading'
  BY DEF Uploading, Cleaning
<1>3. Cleaning'
  BY DEF Cleaning
<1>4. StoredHasObject'
  BY DEF Cleaning, StoredHasObject
<1>5. Calm'
  BY DEF Calm
<1>6. NoOrphan'
  BY DEF NoOrphan, Accounted
<1>7. Deleting' /\ EndedIsQuiet' /\ PendingIsReleased' /\ TrayIsEmptied'
  BY DEF Deleting, EndedIsQuiet, PendingIsReleased, TrayIsEmptied, InFlight
<1> QED BY <1>1, <1>2, <1>3, <1>4, <1>5, <1>6, <1>7

LEMMA CleanupRowsStep ==
  ASSUME NEW s \in Sessions, Inv, CleanupRows(s)
  PROVE  Inv'
<1> USE FilesAssumption DEF Inv, CleanupRows, RowsWithout
<1>1. TypeOK'
  BY DEF TypeOK
<1>2. Uploading'
  BY DEF Uploading
<1>3. Deleting'
  BY DEF TypeOK, Deletions, Deleting
<1>4. Cleaning'
  BY DEF Cleaning
<1>5. StoredHasObject'
  BY DEF StoredHasObject, Tray
<1>6. PendingIsReleased'
  BY DEF PendingIsReleased
<1>7. TrayIsEmptied'
  BY DEF EndedIsQuiet, Cleaning, TrayIsEmptied, Tray, InFlight
<1>8. Calm'
  BY DEF Calm, Cleaning, EndedIsQuiet, Tray, InFlight
<1>9. NoOrphan'
  BY DEF TypeOK, Calm, NoOrphan, Accounted
<1>10. EndedIsQuiet'
  BY DEF EndedIsQuiet, InFlight
<1> QED BY <1>1, <1>2, <1>3, <1>4, <1>5, <1>6, <1>7, <1>8, <1>9, <1>10

LEMMA CleanupFailsStep ==
  ASSUME NEW s \in Sessions, Inv, CleanupFails(s)
  PROVE  Inv'
<1> USE FilesAssumption DEF Inv, CleanupFails
<1>1. TypeOK'
  BY DEF TypeOK
<1>2. Cleaning'
  BY DEF Cleaning
<1>3. StoredHasObject'
  BY DEF StoredHasObject
<1>4. TrayIsEmptied'
  BY DEF TypeOK, TrayIsEmptied, InFlight
<1>5. Calm'
  BY DEF Calm
<1>6. Uploading' /\ Deleting' /\ EndedIsQuiet' /\ PendingIsReleased' /\ NoOrphan'
  BY DEF Uploading, Deleting, EndedIsQuiet, PendingIsReleased, NoOrphan, InFlight
<1> QED BY <1>1, <1>2, <1>3, <1>4, <1>5, <1>6

LEMMA CrashStep ==
  ASSUME Inv, Crash
  PROVE  Inv'
<1> USE FilesAssumption DEF Inv, Crash
<1>1. TypeOK'
  BY DEF TypeOK, Deletions
<1>2. Uploading'
  BY DEF Uploading
<1>3. Deleting'
  BY DEF Deleting
<1>4. Cleaning'
  BY DEF Cleaning
<1>5. EndedIsQuiet'
  BY DEF EndedIsQuiet, InFlight, Tray
<1>6. StoredHasObject'
  BY DEF StoredHasObject
<1>7. PendingIsReleased'
  BY DEF PendingIsReleased
<1>8. TrayIsEmptied'
  BY DEF TypeOK, TrayIsEmptied, InFlight, Tray
<1>9. Calm'
  BY DEF Calm
<1>10. NoOrphan'
  BY DEF NoOrphan
<1> QED BY <1>1, <1>2, <1>3, <1>4, <1>5, <1>6, <1>7, <1>8, <1>9, <1>10

-----------------------------------------------------------------------------

LEMMA InvInit == Init => Inv
BY FilesAssumption DEF Init, Inv, TypeOK, Deletions, Uploading, Deleting, Cleaning,
   EndedIsQuiet, StoredHasObject, PendingIsReleased, TrayIsEmptied, Calm, NoOrphan

LEMMA InvStep == Inv /\ [Next]_vars => Inv'
<1> SUFFICES ASSUME Inv, [Next]_vars PROVE Inv'
  OBVIOUS
<1>1. ASSUME NEW f \in FileIds,
             UploadCheck(f) \/ UploadReserve(f) \/ UploadCollides(f) \/ UploadPut(f)
               \/ UploadPutFails(f) \/ UploadUndo(f) \/ UploadFinish(f) \/ UploadFails(f)
      PROVE  Inv'
  BY <1>1, UploadCheckStep, UploadReserveStep, UploadCollidesStep, UploadPutStep,
     UploadPutFailsStep, UploadUndoStep, UploadFinishStep, UploadFailsStep
<1>2. ASSUME NEW d \in Requests, NEW f \in FileIds, DeleteFile(d, f) \/ FileRemove(d, f)
      PROVE  Inv'
  BY <1>2, ReadForDeletionStep DEF DeleteFile, FileRemove
<1>3. ASSUME NEW d \in Requests, DeleteRow(d) \/ DeleteObject(d) \/ DeleteFails(d)
      PROVE  Inv'
  BY <1>3, DeleteRowStep, DeleteObjectStep, DeleteFailsStep
<1>4. ASSUME NEW s \in Sessions,
             SessionEnds(s) \/ CleanupList(s) \/ CleanupRows(s) \/ CleanupFails(s)
      PROVE  Inv'
  BY <1>4, SessionEndsStep, CleanupListStep, CleanupRowsStep, CleanupFailsStep
<1>5. ASSUME NEW s \in Sessions, NEW f \in FileIds, CleanupObject(s, f)
      PROVE  Inv'
  BY <1>5, CleanupObjectStep
<1>6. CASE UNCHANGED vars
  BY <1>6 DEF Inv, vars, TypeOK, Uploading, Deleting, Cleaning, EndedIsQuiet,
     StoredHasObject, PendingIsReleased, TrayIsEmptied, Calm, NoOrphan, Accounted,
     InFlight
<1> QED
  BY <1>1, <1>2, <1>3, <1>4, <1>5, <1>6, CrashStep DEF Next

LEMMA Invariance == Spec => []Inv
<1>1. Init => Inv
  BY InvInit
<1>2. Inv /\ [Next]_vars => Inv'
  BY InvStep
<1> QED
  BY <1>1, <1>2, PTL DEF Spec

\* Every variable keeps its type, whatever overlaps, fails or crashes.
THEOREM TypeCorrect == Spec => []TypeOK
BY Invariance, PTL DEF Inv

\* Every downloadable file has its bytes while no database call fails and the
\* process lives, whatever deletions, uploads and session ends overlap.
THEOREM StoredHasObjectAlways == Spec => []StoredHasObject
BY Invariance, PTL DEF Inv

\* The one slot of the unique '__pending__' key is always held by an upload
\* that gives it up.
THEOREM PendingIsReleasedAlways == Spec => []PendingIsReleased
BY Invariance, PTL DEF Inv

\* Without failures, and when nothing overtakes an upload, MinIO holds no object
\* that no row and no request answers for.
THEOREM NoOrphanAlways == Spec => []NoOrphan
BY Invariance, PTL DEF Inv

\* At rest no upload, deletion or cleanup is between two calls; then the bucket holds
\* the objects that the rows name and no other, and nobody holds '__pending__'.
AtRest ==
  /\ \A f \in FileIds : ~InFlight(f)
  /\ \A d \in Requests : deletion[d] = Idle
  /\ \A s \in Sessions : cleanup[s] # "removing"

StoresAgree ==
  env = {} /\ AtRest =>
    /\ objects = {f \in FileIds : row[f] = "stored"}
    /\ \A f \in FileIds : row[f] # "pending"

LEMMA InvAgree == Inv => StoresAgree
<1> SUFFICES ASSUME Inv, env = {}, AtRest
             PROVE  /\ objects = {f \in FileIds : row[f] = "stored"}
                    /\ \A f \in FileIds : row[f] # "pending"
  BY DEF StoresAgree
<1>1. objects \subseteq FileIds /\ TypeOK
  BY DEF Inv, TypeOK
<1>2. ASSUME NEW f \in objects PROVE row[f] = "stored"
  <2>1. Accounted(f)
    BY DEF Inv, NoOrphan
  <2>2. upload[f] # "put"
    BY <1>1 DEF AtRest, InFlight
  <2>3. \A d \in Requests : deletion[d].at # "deleted"
    BY DEF AtRest, Idle
  <2> QED
    BY <2>1, <2>2, <2>3 DEF Accounted
<1>3. ASSUME NEW f \in FileIds, row[f] = "stored" PROVE f \in objects
  <2>1. f \in objects \/ (Context[f] # Library /\ cleanup[Context[f]] = "removing")
    BY <1>3 DEF Inv, StoredHasObject
  <2>2. Context[f] # Library => Context[f] \in Sessions
    BY FilesAssumption
  <2> QED
    BY <2>1, <2>2 DEF AtRest
<1>4. ASSUME NEW f \in FileIds PROVE row[f] # "pending"
  BY DEF Inv, PendingIsReleased, AtRest, InFlight
<1> QED
  BY <1>1, <1>2, <1>3, <1>4

\* The two stores, neither of which knows of the other, agree file by file whenever
\* nothing is in flight, as long as no call fails, the process lives and neither a
\* deletion nor the end of a session overtakes an upload.
THEOREM StoresAgreeAtRest == Spec => []StoresAgree
BY InvAgree, Invariance, PTL

\* A session's tray is empty and stays empty once its cleanup is through, whatever
\* has failed or died before, unless an upload was in flight when it ended.
THEOREM TrayIsEmptiedAlways == Spec => []TrayIsEmptied
BY Invariance, PTL DEF Inv
=============================================================================
