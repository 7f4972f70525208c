-------------------------- MODULE Retention_proofs --------------------------
(***************************************************************************)
(* Proofs about Retention, for any files, any batch size and any number of *)
(* faults.                                                                 *)
(*                                                                         *)
(* RetentionInv is inductive.  Its heart is ListIsWorkedOff, proved once   *)
(* for a process that removes files and used for both: every step either   *)
(* leaves the process alone, adds what it writes to "fresh", moves one     *)
(* file out of "left", or ends with an empty list.                         *)
(***************************************************************************)
EXTENDS Retention, TLAPS

USE FilesAssumption, BatchAssumption, FaultsAssumption

(* The records that the steps of a remover write are of its type.          *)
LEMMA IdleIsRemover == Idle \in Remover
  BY DEF Idle, Remover

LEMMA ListedIsRemover ==
  ASSUME NEW files \in SUBSET Files
  PROVE  Listed(files) \in Remover
  BY DEF Listed, Remover

LEMMA WorkedIsRemover ==
  ASSUME NEW r \in Remover, NEW f \in r.left
  PROVE  /\ [r EXCEPT !.left = @ \ {f}] \in Remover
         /\ [r EXCEPT !.left = @ \ {f}, !.failed = @ \cup {f}] \in Remover
  BY DEF Remover

LEMMA TouchedIsRemover ==
  ASSUME NEW r \in Remover, NEW f \in Files
  PROVE  [r EXCEPT !.fresh = IF r.step = "idle" THEN @ ELSE @ \cup {f}] \in Remover
  BY DEF Remover

(* Every variable keeps its type. *)
LEMMA TypeKept ==
  ASSUME TypeOK, [Next]_vars
  PROVE  TypeOK'
<1> USE DEF TypeOK
<1>1. ASSUME NEW f \in Files, Touches(f) PROVE eraser' \in Remover /\ cleaner' \in Remover
  BY <1>1, TouchedIsRemover DEF Touches
<1>2. ASSUME NEW f \in Files, UploadsRow(f) \/ UploadsObject(f) \/ MakesObject(f) \/ MakesRow(f)
      PROVE  TypeOK'
  <2>1. eraser' \in Remover /\ cleaner' \in Remover
    BY <1>1, <1>2 DEF UploadsRow, UploadsObject, MakesObject, MakesRow
  <2> QED
    BY <1>2, <2>1 DEF UploadsRow, UploadsObject, MakesObject, MakesRow, WriterGoes
<1>3. ASSUME NEW f \in Files, MakerStops(f) \/ Ages(f) PROVE TypeOK'
  BY <1>3 DEF MakerStops, Ages, WriterGoes, Fault
<1>4. ASSUME Submits \/ Expires PROVE TypeOK'
  BY <1>4 DEF Submits, Expires, RowsGo
<1>5. ASSUME EraserReads PROVE TypeOK'
  BY <1>5, ListedIsRemover DEF EraserReads, Live
<1>6. ASSUME NEW f \in Files, EraserDeletes(f) PROVE TypeOK'
  <2>0. f \in eraser.left
    BY <1>6 DEF EraserDeletes
  <2>1. eraser' \in Remover
    <3>1. /\ [eraser EXCEPT !.left = @ \ {f}] \in Remover
          /\ [eraser EXCEPT !.left = @ \ {f}, !.failed = @ \cup {f}] \in Remover
      BY <2>0, WorkedIsRemover
    <3> QED
      BY <1>6, <3>1 DEF EraserDeletes
  <2>2. stored' \subseteq Files /\ faults' \in 0 .. MaxFaults
    BY <1>6 DEF EraserDeletes, Fault
  <2> QED
    BY <1>6, <2>1, <2>2 DEF EraserDeletes
<1>7. ASSUME EraserCommits \/ EraserStops PROVE TypeOK'
  BY <1>7, IdleIsRemover DEF EraserCommits, EraserStops, RowsGo, Fault
<1>8. ASSUME CleanerReads PROVE TypeOK'
  <2>1. PICK batch \in SUBSET PastCutoff : cleaner' = Listed(batch)
    BY <1>8 DEF CleanerReads
  <2>2. batch \in SUBSET Files
    BY DEF PastCutoff, Live
  <2> QED
    BY <1>8, <2>1, <2>2, ListedIsRemover DEF CleanerReads
<1>9. ASSUME NEW f \in Files, CleanerDeletes(f) PROVE TypeOK'
  <2>0. f \in cleaner.left
    BY <1>9 DEF CleanerDeletes
  <2>1. cleaner' \in Remover
    <3>1. /\ [cleaner EXCEPT !.left = @ \ {f}] \in Remover
          /\ [cleaner EXCEPT !.left = @ \ {f}, !.failed = @ \cup {f}] \in Remover
      BY <2>0, WorkedIsRemover
    <3> QED
      BY <1>9, <3>1 DEF CleanerDeletes
  <2>2. stored' \subseteq Files /\ faults' \in 0 .. MaxFaults
    BY <1>9 DEF CleanerDeletes, Fault
  <2> QED
    BY <1>9, <2>1, <2>2 DEF CleanerDeletes
<1>10. ASSUME CleanerDrops \/ CleanerStops PROVE TypeOK'
  BY <1>10, IdleIsRemover DEF CleanerDrops, CleanerStops, RowsGo, Fault
<1>11. CASE UNCHANGED vars
  BY <1>11 DEF vars
<1> QED
  BY <1>2, <1>3, <1>4, <1>5, <1>6, <1>7, <1>8, <1>9, <1>10, <1>11 DEF Next, Write, Erase, Clean

-----------------------------------------------------------------------------
(* A remover and the storage *)

(* What is written while a list is worked off is noted as fresh. *)
LEMMA TouchedStaysSound ==
  ASSUME NEW r \in Remover, ListIsWorkedOff(r), NEW f \in Files, NEW s,
         s = [r EXCEPT !.fresh = IF r.step = "idle" THEN @ ELSE @ \cup {f}],
         stored' \subseteq stored \cup {f}
  PROVE  /\ s.step = "idle" => s = Idle
         /\ (s.list \ (s.left \cup s.failed \cup s.fresh)) \cap stored' = {}
         /\ s.list = r.list /\ s.step = r.step
         /\ s.step # "idle" => s.fresh = r.fresh \cup {f}
<1>1. CASE r.step = "idle"
  <2>1. r = Idle
    BY <1>1 DEF ListIsWorkedOff
  <2>2. s = r
    BY <1>1, <2>1 DEF Idle
  <2> QED
    BY <1>1, <2>1, <2>2 DEF Idle
<1>2. CASE r.step # "idle"
  <2>1. s.step = r.step /\ s.list = r.list /\ s.left = r.left /\ s.failed = r.failed
        /\ s.fresh = r.fresh \cup {f}
    BY <1>2 DEF Remover
  <2> QED
    BY <1>2, <2>1 DEF ListIsWorkedOff
<1> QED
  BY <1>1, <1>2

(* A deletion takes the object, or is noted as failed. *)
LEMMA WorkedStaysSound ==
  ASSUME NEW r \in Remover, ListIsWorkedOff(r), NEW f, f \in r.left, NEW s,
         s.step = r.step, s.list = r.list, s.fresh = r.fresh, s.left = r.left \ {f},
         \/ s.failed = r.failed /\ stored' = stored \ {f}
         \/ s.failed = r.failed \cup {f} /\ stored' = stored
  PROVE  /\ s.step # "idle"
         /\ (s.list \ (s.left \cup s.failed \cup s.fresh)) \cap stored' = {}
  BY DEF ListIsWorkedOff, Idle

(* Who has no list, or a new one, has nothing to answer for. *)
LEMMA IdleIsSound ==
  /\ Idle.list \ (Idle.left \cup Idle.failed \cup Idle.fresh) = {}
  /\ Idle.step = "idle" /\ Idle.list = {}
  BY DEF Idle

LEMMA ListedIsSound ==
  ASSUME NEW files
  PROVE  /\ Listed(files).step = "deleting" /\ Listed(files).list = files
         /\ Listed(files).list \ (Listed(files).left \cup Listed(files).failed
                                    \cup Listed(files).fresh) = {}
  BY DEF Listed

(* What a remover has done stays true when fewer objects are stored. *)
LEMMA SoundWithLess ==
  ASSUME NEW r, ListIsWorkedOff(r), stored' \subseteq stored
  PROVE  /\ r.step = "idle" => r = Idle
         /\ (r.list \ (r.left \cup r.failed \cup r.fresh)) \cap stored' = {}
  BY DEF ListIsWorkedOff

-----------------------------------------------------------------------------
LEMMA RemoversKept ==
  ASSUME TypeOK, RemoversAreSound, [Next]_vars
  PROVE  RemoversAreSound'
<1> USE DEF TypeOK
<1>a. /\ ListIsWorkedOff(eraser) /\ ListIsWorkedOff(cleaner)
      /\ cleaner.list \subseteq old
      /\ eraser.step = "deleting" => asked /\ Live \subseteq eraser.list \cup eraser.fresh
  BY DEF RemoversAreSound
<1>b. eraser.step \in {"idle", "deleting"} /\ eraser.left \subseteq eraser.list
  BY DEF Remover
<1>1. ASSUME NEW f \in Files, Touches(f), stored' \subseteq stored \cup {f},
             Live' \subseteq Live \cup {f}, UNCHANGED <<old, asked>>
      PROVE  RemoversAreSound'
  <2>1. ListIsWorkedOff(eraser)' /\ ListIsWorkedOff(cleaner)'
    BY <1>1, <1>a, TouchedStaysSound DEF Touches, ListIsWorkedOff
  <2>2. cleaner'.list = cleaner.list
    BY <1>1, <1>a, TouchedStaysSound DEF Touches
  <2>3. eraser'.step = eraser.step /\ eraser'.list = eraser.list
        /\ (eraser'.step # "idle" => eraser'.fresh = eraser.fresh \cup {f})
    BY <1>1, <1>a, TouchedStaysSound DEF Touches
  <2> QED
    BY <1>1, <1>a, <1>b, <2>1, <2>2, <2>3 DEF RemoversAreSound
<1>2. ASSUME NEW f \in Files, UploadsRow(f) \/ MakesRow(f) PROVE RemoversAreSound'
  BY <1>1, <1>2 DEF UploadsRow, MakesRow, Live
<1>3. ASSUME NEW f \in Files, UploadsObject(f) \/ MakesObject(f) PROVE RemoversAreSound'
  BY <1>1, <1>3 DEF UploadsObject, MakesObject, Live
<1>4. ASSUME UNCHANGED <<stored, eraser, cleaner, asked>>, Live' \subseteq Live, old \subseteq old'
      PROVE  RemoversAreSound'
  BY <1>4, <1>a DEF RemoversAreSound, ListIsWorkedOff
<1>5. ASSUME NEW f \in Files, MakerStops(f) \/ Ages(f) PROVE RemoversAreSound'
  BY <1>4, <1>5 DEF MakerStops, Ages, Live
<1>6. ASSUME Submits \/ Expires \/ UNCHANGED vars PROVE RemoversAreSound'
  BY <1>4, <1>6 DEF Submits, Expires, Live, RowsGo, vars
<1>7. ASSUME EraserReads PROVE RemoversAreSound'
  BY <1>7, <1>a, ListedIsSound DEF EraserReads, RemoversAreSound, ListIsWorkedOff, Live
<1>8. ASSUME NEW f \in Files, EraserDeletes(f) PROVE RemoversAreSound'
  <2>0. /\ eraser'.step = eraser.step /\ eraser'.list = eraser.list
        /\ eraser'.fresh = eraser.fresh /\ eraser'.left = eraser.left \ {f}
        /\ \/ eraser'.failed = eraser.failed /\ stored' = stored \ {f}
           \/ eraser'.failed = eraser.failed \cup {f} /\ stored' = stored
    BY <1>8 DEF EraserDeletes, Remover
  <2>1. /\ eraser'.step # "idle"
        /\ (eraser'.list \ (eraser'.left \cup eraser'.failed \cup eraser'.fresh)) \cap stored' = {}
    <3>1. f \in eraser.left /\ ListIsWorkedOff(eraser) /\ eraser \in Remover
      BY <1>8, <1>a DEF EraserDeletes
    <3> QED
      BY <3>1, <2>0, WorkedStaysSound
  <2>2. ListIsWorkedOff(eraser)'
    BY <2>1 DEF ListIsWorkedOff
  <2>3. ListIsWorkedOff(cleaner)'
    BY <1>8, <1>a, SoundWithLess DEF EraserDeletes, ListIsWorkedOff
  <2> QED
    BY <1>8, <1>a, <2>0, <2>2, <2>3 DEF EraserDeletes, RemoversAreSound, Live
<1>9. ASSUME EraserCommits \/ EraserStops PROVE RemoversAreSound'
  <2>1. eraser' = Idle /\ UNCHANGED <<stored, old, cleaner>>
    BY <1>9 DEF EraserCommits, EraserStops
  <2> QED
    BY <2>1, <1>a, IdleIsSound DEF RemoversAreSound, ListIsWorkedOff
<1>10. ASSUME CleanerReads PROVE RemoversAreSound'
  <2>1. PICK batch \in SUBSET PastCutoff : cleaner' = Listed(batch)
    BY <1>10 DEF CleanerReads
  <2>2. batch \subseteq old
    BY DEF PastCutoff
  <2> QED
    BY <1>10, <1>a, <2>1, <2>2, ListedIsSound DEF CleanerReads, RemoversAreSound, ListIsWorkedOff, Live
<1>11. ASSUME NEW f \in Files, CleanerDeletes(f) PROVE RemoversAreSound'
  <2>0. /\ cleaner'.step = cleaner.step /\ cleaner'.list = cleaner.list
        /\ cleaner'.fresh = cleaner.fresh /\ cleaner'.left = cleaner.left \ {f}
        /\ \/ cleaner'.failed = cleaner.failed /\ stored' = stored \ {f}
           \/ cleaner'.failed = cleaner.failed \cup {f} /\ stored' = stored
    BY <1>11 DEF CleanerDeletes, Remover
  <2>1. /\ cleaner'.step # "idle"
        /\ (cleaner'.list \ (cleaner'.left \cup cleaner'.failed \cup cleaner'.fresh)) \cap stored' = {}
    <3>1. f \in cleaner.left /\ ListIsWorkedOff(cleaner) /\ cleaner \in Remover
      BY <1>11, <1>a DEF CleanerDeletes
    <3> QED
      BY <3>1, <2>0, WorkedStaysSound
  <2>2. ListIsWorkedOff(cleaner)'
    BY <2>1 DEF ListIsWorkedOff
  <2>3. ListIsWorkedOff(eraser)'
    BY <1>11, <1>a, SoundWithLess DEF CleanerDeletes, ListIsWorkedOff
  <2> QED
    BY <1>11, <1>a, <2>0, <2>2, <2>3 DEF CleanerDeletes, RemoversAreSound, Live
<1>12. ASSUME CleanerDrops \/ CleanerStops PROVE RemoversAreSound'
  <2>1. cleaner' = Idle /\ UNCHANGED <<stored, old, eraser, asked>> /\ Live' \subseteq Live
    BY <1>12 DEF CleanerDrops, CleanerStops, Live, RowsGo
  <2> QED
    BY <2>1, <1>a, IdleIsSound DEF RemoversAreSound, ListIsWorkedOff
<1> QED
  BY <1>2, <1>3, <1>5, <1>6, <1>7, <1>8, <1>9, <1>10, <1>11, <1>12 DEF Next, Write, Erase, Clean

-----------------------------------------------------------------------------
(* The files *)

(* Whatever deletes an object was told to: the file is old, or the erasure *)
(* of everything was asked for.                                            *)
LEMMA DeletedWasListed ==
  ASSUME TypeOK, RemoversAreSound, [Next]_vars, NEW f \in stored, f \notin stored'
  PROVE  f \in old' \/ asked'
<1> USE DEF TypeOK, RemoversAreSound
<1>1. eraser.left \subseteq eraser.list /\ cleaner.left \subseteq cleaner.list
  BY DEF Remover
<1>2. ASSUME NEW g \in Files, EraserDeletes(g) PROVE asked'
  <2>1. eraser.step # "idle"
    BY <1>2 DEF EraserDeletes, ListIsWorkedOff, Idle
  <2> QED
    BY <1>2, <2>1 DEF EraserDeletes, Remover
<1>3. ASSUME NEW g \in Files, CleanerDeletes(g) PROVE f \in old'
  BY <1>1, <1>3 DEF CleanerDeletes
<1>4. ASSUME NEW g \in Files, Write(g) \/ Ages(g) PROVE FALSE
  BY <1>4 DEF Write, UploadsRow, UploadsObject, MakesObject, MakesRow, MakerStops, Ages
<1>5. ASSUME Submits \/ Expires \/ UNCHANGED vars PROVE FALSE
  BY <1>5 DEF Submits, Expires, vars
<1>6. ASSUME EraserReads \/ EraserCommits \/ EraserStops PROVE FALSE
  BY <1>6 DEF EraserReads, EraserCommits, EraserStops
<1>7. ASSUME CleanerReads \/ CleanerDrops \/ CleanerStops PROVE FALSE
  BY <1>7 DEF CleanerReads, CleanerDrops, CleanerStops
<1> QED
  BY <1>2, <1>3, <1>4, <1>5, <1>6, <1>7 DEF Next, Erase, Clean

(* What never is undone: age, and the wish to be erased. *)
LEMMA NeverUndone ==
  ASSUME TypeOK, [Next]_vars
  PROVE  old \subseteq old' /\ (asked => asked')
<1>1. ASSUME NEW f \in Files, Write(f) \/ Ages(f) PROVE old \subseteq old' /\ (asked => asked')
  BY <1>1 DEF Write, UploadsRow, UploadsObject, MakesObject, MakesRow, MakerStops, Ages
<1>2. ASSUME Submits \/ Expires \/ UNCHANGED vars PROVE old \subseteq old' /\ (asked => asked')
  BY <1>2 DEF Submits, Expires, vars
<1>3. ASSUME Erase PROVE old \subseteq old' /\ (asked => asked')
  BY <1>3 DEF Erase, EraserReads, EraserDeletes, EraserCommits, EraserStops, TypeOK
<1>4. ASSUME Clean PROVE old \subseteq old' /\ (asked => asked')
  <2>1. UNCHANGED <<old, asked>>
    BY <1>4 DEF Clean, CleanerReads, CleanerDeletes, CleanerDrops, CleanerStops
  <2> QED
    BY <2>1
<1> QED
  BY <1>1, <1>2, <1>3, <1>4 DEF Next

(* Who moves a file's row and writer, and with what in the storage. *)
LEMMA WritersMove ==
  ASSUME TypeOK, [Next]_vars, NEW f \in Files
  PROVE  \/ UploadsRow(f) \/ UploadsObject(f) \/ MakesObject(f) \/ MakesRow(f) \/ MakerStops(f)
         \/ writer'[f] = writer[f] /\ row'[f] \in {row[f], "gone"}
              /\ (row'[f] = "gone" => row[f] # "none")
<1> USE DEF TypeOK
<1>1. ASSUME NEW g \in Files, Write(g), g # f PROVE writer'[f] = writer[f] /\ row'[f] = row[f]
  BY <1>1 DEF Write, UploadsRow, UploadsObject, MakesObject, MakesRow, MakerStops, WriterGoes
<1>2. ASSUME NEW g \in Files, Ages(g) PROVE writer'[f] = writer[f] /\ row'[f] = row[f]
  BY <1>2 DEF Ages
<1>3. ASSUME Submits \/ UNCHANGED vars PROVE writer'[f] = writer[f] /\ row'[f] = row[f]
  BY <1>3 DEF Submits, vars
<1>4. ASSUME \/ EraserReads \/ (\E g \in Files : EraserDeletes(g)) \/ EraserStops
             \/ CleanerReads \/ (\E g \in Files : CleanerDeletes(g)) \/ CleanerStops
      PROVE  writer'[f] = writer[f] /\ row'[f] = row[f]
  BY <1>4 DEF EraserReads, EraserDeletes, EraserStops, CleanerReads, CleanerDeletes, CleanerStops
<1>5. ASSUME Expires \/ EraserCommits \/ CleanerDrops
      PROVE  writer'[f] = writer[f] /\ (row'[f] = row[f] \/ (row[f] = "live" /\ row'[f] = "gone"))
  BY <1>5 DEF Expires, EraserCommits, CleanerDrops, RowsGo, Live
<1>6. row[f] # "gone" \/ row[f] # "none"
  OBVIOUS
<1> QED
  BY <1>1, <1>2, <1>3, <1>4, <1>5, <1>6 DEF Next, Write, Erase, Clean

LEMMA MadeKept ==
  ASSUME TypeOK, RemoversAreSound, MadeFileIsStored, [Next]_vars
  PROVE  MadeFileIsStored'
<1> USE DEF TypeOK, MadeFileIsStored
<1> SUFFICES ASSUME NEW f \in Made
             PROVE  /\ writer'[f] # "past" => row'[f] = "none"
                    /\ writer'[f] = "between" /\ f \notin old' /\ ~asked' => f \in stored'
  OBVIOUS
<1>0. f \in Files /\ f \notin Uploads
  BY DEF Files
<1>1. f \in stored => f \in stored' \/ f \in old' \/ asked'
  BY DeletedWasListed
<1>2. old \subseteq old' /\ (asked => asked')
  BY NeverUndone
<1>3. ASSUME MakesObject(f) \/ MakesRow(f) \/ MakerStops(f)
      PROVE  /\ writer'[f] # "past" => row'[f] = "none"
             /\ writer'[f] = "between" /\ f \notin old' /\ ~asked' => f \in stored'
  BY <1>0, <1>3 DEF MakesObject, MakesRow, MakerStops, WriterGoes
<1>4. ASSUME writer'[f] = writer[f], row'[f] \in {row[f], "gone"}, row'[f] = "gone" => row[f] # "none"
      PROVE  /\ writer'[f] # "past" => row'[f] = "none"
             /\ writer'[f] = "between" /\ f \notin old' /\ ~asked' => f \in stored'
  BY <1>1, <1>2, <1>4
<1> QED
  BY <1>0, <1>3, <1>4, WritersMove DEF UploadsRow, UploadsObject

LEMMA RecordedKept ==
  ASSUME TypeOK, RemoversAreSound, MadeFileIsStored, RecordedFileIsThere, [Next]_vars
  PROVE  RecordedFileIsThere'
<1> USE DEF TypeOK, RecordedFileIsThere
<1> SUFFICES ASSUME NEW f \in Files, row'[f] = "live", writer'[f] = "past", f \notin old', ~asked'
             PROVE  f \in stored'
  OBVIOUS
<1>1. f \notin old /\ ~asked
  BY NeverUndone
<1>2. f \in stored => f \in stored'
  BY DeletedWasListed
<1>3. CASE UploadsRow(f) \/ UploadsObject(f) \/ MakesObject(f)
  BY <1>3 DEF UploadsRow, UploadsObject, MakesObject, WriterGoes
<1>4. CASE MakesRow(f) \/ MakerStops(f)
  BY <1>1, <1>2, <1>4 DEF MakesRow, MakerStops, MadeFileIsStored
<1>5. CASE writer'[f] = writer[f] /\ row'[f] \in {row[f], "gone"}
  BY <1>1, <1>2, <1>5
<1> QED
  BY <1>3, <1>4, <1>5, WritersMove

(* Nobody writes a row for an applicant who is gone. *)
LEMMA GoneStaysGone ==
  ASSUME TypeOK, NothingComesBack, [Next]_vars
  PROVE  NothingComesBack'
<1> USE DEF TypeOK, NothingComesBack, Live
<1>1. ASSUME NEW f \in Files, Write(f) PROVE NothingComesBack'
  BY <1>1 DEF Write, UploadsRow, UploadsObject, MakesObject, MakesRow, MakerStops
<1>2. ASSUME NEW f \in Files, Ages(f) PROVE NothingComesBack'
  BY <1>2 DEF Ages
<1>3. ASSUME Submits \/ Expires \/ UNCHANGED vars PROVE NothingComesBack'
  BY <1>3 DEF Submits, Expires, RowsGo, vars
<1>4. ASSUME Erase PROVE NothingComesBack'
  BY <1>4 DEF Erase, EraserReads, EraserDeletes, EraserCommits, EraserStops, RowsGo
<1>5. ASSUME Clean PROVE NothingComesBack'
  BY <1>5 DEF Clean, CleanerReads, CleanerDeletes, CleanerDrops, CleanerStops, RowsGo
<1> QED
  BY <1>1, <1>2, <1>3, <1>4, <1>5 DEF Next

-----------------------------------------------------------------------------
(* The files in use are there and those of an applicant who is gone are    *)
(* not, with what the proof needs to know of the three removers            *)
(* (deleteProposal, cleanupDocuments, cleanupExpiredDrafts).               *)
THEOREM RetentionIsSafe == Spec => []RetentionInv
<1>1. Init => RetentionInv
  <2> SUFFICES ASSUME Init PROVE RetentionInv
    OBVIOUS
  <2>1. TypeOK
    <3>1. faults \in 0 .. MaxFaults
      BY DEF Init
    <3> QED
      BY <3>1, IdleIsRemover DEF Init, TypeOK
  <2>2. RemoversAreSound
    BY IdleIsSound DEF Init, RemoversAreSound, ListIsWorkedOff
  <2>3. MadeFileIsStored /\ RecordedFileIsThere /\ NothingComesBack
    BY DEF Init, MadeFileIsStored, RecordedFileIsThere, NothingComesBack, Files
  <2> QED
    BY <2>1, <2>2, <2>3 DEF RetentionInv
<1>2. RetentionInv /\ [Next]_vars => RetentionInv'
  BY TypeKept, RemoversKept, MadeKept, RecordedKept, GoneStaysGone DEF RetentionInv
<1> QED
  BY <1>1, <1>2, PTL DEF Spec

(* A row goes only after its object, but for the drafts that expire, the   *)
(* deletions that the storage fails and what was written after the list    *)
(* was read (EraserCommits, CleanerDrops are the two that drop rows).      *)
THEOREM RowsGoAfterTheirObjects == Spec => RowGoesAfterItsObject
<1> DEFINE Goes(f) ==
      (RowGoes(f) /\ f \in stored /\ owner \notin {"draft", "expiring"}) =>
        \/ owner' = "erased" /\ f \in eraser.failed \cup eraser.fresh
        \/ f \in cleaner.failed \cup cleaner.fresh
<1>1. ASSUME RetentionInv, [Next]_vars PROVE \A f \in Files : Goes(f)
  <2> USE DEF TypeOK, RowGoes
  <2>0. TypeOK /\ RemoversAreSound
    BY <1>1 DEF RetentionInv
  <2> SUFFICES ASSUME NEW f \in Files, row[f] = "live", row'[f] = "gone", f \in stored,
                      owner \notin {"draft", "expiring"}
               PROVE  \/ owner' = "erased" /\ f \in eraser.failed \cup eraser.fresh
                      \/ f \in cleaner.failed \cup cleaner.fresh
    OBVIOUS
  <2>1. CASE EraserCommits
    BY <2>0, <2>1 DEF EraserCommits, RemoversAreSound, ListIsWorkedOff, Live
  <2>2. CASE CleanerDrops
    <3>1. f \in cleaner.list
      BY <2>2 DEF CleanerDrops, RowsGo
    <3> QED
      BY <2>0, <2>2, <3>1 DEF CleanerDrops, RemoversAreSound, ListIsWorkedOff
  <2>3. ASSUME NEW g \in Files, Write(g) \/ Ages(g) PROVE FALSE
    BY <2>0, <2>3 DEF Write, UploadsRow, UploadsObject, MakesObject, MakesRow, MakerStops, Ages
  <2>4. ASSUME Submits \/ Expires \/ UNCHANGED vars PROVE FALSE
    BY <2>4 DEF Submits, Expires, vars
  <2>5. ASSUME EraserReads \/ (\E g \in Files : EraserDeletes(g)) \/ EraserStops PROVE FALSE
    BY <2>5 DEF EraserReads, EraserDeletes, EraserStops
  <2>6. ASSUME CleanerReads \/ (\E g \in Files : CleanerDeletes(g)) \/ CleanerStops PROVE FALSE
    BY <2>6 DEF CleanerReads, CleanerDeletes, CleanerStops
  <2> QED
    BY <1>1, <2>1, <2>2, <2>3, <2>4, <2>5, <2>6 DEF Next, Erase, Clean
<1>2. RetentionInv /\ [Next]_vars => [\A f \in Files : Goes(f)]_vars
  BY <1>1
<1> QED
  BY <1>2, RetentionIsSafe, PTL DEF Spec, RowGoesAfterItsObject

=============================================================================
