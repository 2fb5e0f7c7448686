------------------------- MODULE LabStateFileProofs -------------------------
(***************************************************************************)
(* Theorems about LabStateFile, for any number of state files and wherever *)
(* processes die, calls fail, the power fails and the stranger writes.     *)
(***************************************************************************)
EXTENDS LabStateFile, TLAPS

(* Where a write has a successor to publish and a predecessor to keep. *)
WriteSteps ==
    {"intent", "fill", "intent_filled", "check", "aside", "verify_aside", "undo",
     "publish", "verify_published", "published"}

LoadSteps ==
    {"restore_intent", "restored_intent", "restore_backup", "restored_backup", "examine",
     "roll_back"}

(* Where state.json is in its place. *)
InPlace ==
    {"verify_published", "published", "drop_backup", "unlink_backup", "backup_gone",
     "rolled_back", "drop_intent", "unlink_intent", "intent_gone", "created"}

(* No state file has a higher number than n. *)
Numbered(d, n) ==
    /\ d.state # None => d.state.id <= n
    /\ d.backup # None => d.backup.id <= n
    /\ d.backup_removing # None => d.backup_removing.id <= n
    /\ d.intent # None => d.intent.pred.id <= n
    /\ d.intent_removing # None => d.intent_removing.pred.id <= n

(* What holds of the directory at any moment, and of what a power failure  *)
(* leaves of it: a backup is being removed only while state.json is there, *)
(* and no intent names a stranger's file that no load took as predecessor. *)
Taken(file) == file.id \notin {Stranger, foreign}
Sound(d) ==
    /\ d.backup_removing # None => d.state # None
    /\ d.intent # None => Taken(d.intent.pred)
    /\ d.intent_removing # None => Taken(d.intent_removing.pred)
    /\ Numbered(d, files)

AllSound == \A d \in onDisk : Sound(d)

(* What the process knows: its predecessor is a file of the lab, and older *)
(* than its successor.                                                     *)
Known ==
    /\ cache # None => Taken(cache) /\ cache.id <= files
    /\ writing # None => writing \in 1 .. files /\ (cache # None => cache.id < writing)
    /\ pc \in WriteSteps => writing # None /\ cache # None
    /\ pc \in LoadSteps \cup {"out", "missing", "absent", "ready", "failed", "rolled_back"} =>
         writing = None
    /\ writing # None /\ cache = None => pc \in {"created", "read"}
    /\ pc = "ready" => cache # None
    /\ pc = "failed" /\ cache = None => dir.state # None

(* Where the files are when the process gets to each step. *)
InOrder ==
    /\ pc \in InPlace => dir.state # None
    /\ pc \in {"read", "absent"} /\ dir.state = None => dir.backup = None /\ writing = None
    /\ pc \in {"verify_aside", "undo", "publish"} => dir.backup # None
    /\ pc = "fill" => dir.intent # None
    /\ pc = "publish" => dir.backup.id = cache.id
    /\ pc \in {"publish", "verify_published", "published", "drop_backup"} =>
         dir.backup # None /\ Taken(dir.backup)
    /\ pc = "unlink_backup" =>
         dir.backup_removing # None /\ Taken(dir.backup_removing)

(* A removal of the backup is finished before the predecessor is moved. *)
OneRemoval ==
    /\ pc \in (Steps \cup {"ready", "absent"})
                \ {"restore_intent", "restored_intent", "restore_backup", "unlink_backup"} =>
         dir.backup_removing = None
    /\ pc \in {"verify_published", "published", "drop_backup", "unlink_backup"} /\ writing # None
         => dir.state # cache
    /\ pc = "failed" /\ dir.backup_removing # None => dir.state # cache

(* A write is acknowledged when nothing else is left to survive. *)
Settled ==
    pc = "read" /\ writing # None /\ dir.state.id = writing =>
        \A d \in onDisk : Value(d) = Value(dir)

(* The inductive invariant. *)
IInv ==
    /\ TypeOK /\ AllSound /\ Known /\ InOrder /\ OneRemoval /\ Settled
    /\ NothingForeignIsLost

(* What the intent, if there is one, says of its transaction. *)
Announced(d) == IF d.intent # None THEN d.intent ELSE d.intent_removing

(* What a directory in which no stranger wrote looks like: without an      *)
(* intent there is no backup, and with one the files are those of one of   *)
(* the moments of its replacement or of its roll-back.                     *)
Ours(d) ==
    /\ d.state # None => d.state.id # Stranger
    /\ d.backup # None => d.backup.id # Stranger
    /\ d.backup_removing # None => d.backup_removing.id # Stranger
Tidy(d) ==
    LET i == Announced(d) IN
    /\ Ours(d)
    /\ d.intent = None \/ d.intent_removing = None
    /\ i = None => d.backup = None /\ d.backup_removing = None
    /\ i # None =>
         /\ i.pred.id < i.succ
         /\ ~i.whole => d.intent # None /\ d.state = i.pred
         /\ d.backup = None /\ d.backup_removing = None =>
              d.state # None /\ d.state.id \in {i.pred.id, i.succ}
         /\ d.backup # None =>
              /\ d.intent # None /\ d.backup_removing = None /\ d.backup.id = i.pred.id
              /\ d.state # None => d.state.id = i.succ
         /\ d.backup_removing # None =>
              /\ d.intent # None /\ d.backup_removing.id = i.pred.id
              /\ d.state # None /\ d.state.id = i.succ

BeforeMove == {"intent_filled", "check", "aside"}
AfterMove == {"verify_aside", "publish"}
AfterPublish == {"verify_published", "published", "drop_backup"}
Ending ==
    AfterPublish \cup {"unlink_backup", "backup_gone", "drop_intent", "unlink_intent",
                       "intent_gone", "read", "created"}

(* Which of these moments it is when the process gets to each step. *)
Placed ==
    /\ pc \in (Steps \cup {"ready", "absent"}) \ {"restore_intent", "unlink_intent"} =>
         dir.intent_removing = None
    /\ pc \in {"intent", "fill"} \cup BeforeMove => dir.state = cache
    /\ pc = "fill" => dir.intent = [pred |-> cache, succ |-> writing, whole |-> FALSE]
    /\ pc \in BeforeMove \cup AfterMove \cup {"verify_published", "published"} =>
         dir.intent = [pred |-> cache, succ |-> writing, whole |-> TRUE]
    /\ pc # "undo"
    /\ pc \in AfterMove => dir.state = None
    /\ pc = "roll_back" => Unpublished
    /\ pc \in AfterPublish => Published
    /\ pc = "unlink_backup" => Bound
    /\ pc \in {"backup_gone", "drop_intent", "rolled_back"} => Bound /\ dir.backup = None
    /\ pc = "unlink_intent" => dir.intent = None
    /\ pc \in {"intent_gone", "read", "absent", "ready", "created"} => Nothing
    /\ pc = "absent" => dir.state = None
    /\ pc \in Ending /\ writing # None => dir.state.id = writing
    /\ pc = "failed" /\ dir.state = cache => dir.intent_removing = None

(* Inductive relative to IInv. *)
Calm == ~intruded => (\A d \in onDisk : Tidy(d)) /\ Placed

-----------------------------------------------------------------------------
(* Files and directories. *)

USE DEF Taken, history

LEMMA FileShape ==
    /\ \A f \in File : f # None /\ f.id \in Nat /\ f.ct \in Nat /\ Touched(f) \in File
                       /\ Touched(f).id = f.id
    /\ \A i \in Intent : i # None /\ i.pred \in File
    /\ \A n \in Nat : n # None
BY NoneAssumption DEF File, Intent, Touched

LEMMA DirShape ==
    ASSUME NEW d \in Dir
    PROVE  /\ d.state \in File \cup {None} /\ d.backup \in File \cup {None}
           /\ d.backup_removing \in File \cup {None}
           /\ d.intent \in Intent \cup {None} /\ d.intent_removing \in Intent \cup {None}
BY DEF Dir

LEMMA NewState ==
    ASSUME NEW d \in Dir, NEW x \in File \cup {None}
    PROVE  /\ [d EXCEPT !.state = x] \in Dir /\ [d EXCEPT !.state = x].state = x
           /\ [d EXCEPT !.state = x].backup = d.backup
           /\ [d EXCEPT !.state = x].backup_removing = d.backup_removing
           /\ [d EXCEPT !.state = x].intent = d.intent
           /\ [d EXCEPT !.state = x].intent_removing = d.intent_removing
BY DEF Dir

LEMMA MovedShapes ==
    ASSUME NEW d \in Dir, d = dir
    PROVE  /\ d.state # None =>
                LET e == Moved("state", "backup") IN
                /\ e \in Dir /\ e.state = None /\ e.backup = Touched(d.state)
                /\ e.backup_removing = d.backup_removing
                /\ e.intent = d.intent /\ e.intent_removing = d.intent_removing
           /\ d.backup # None =>
                LET e == Moved("backup", "state") IN
                /\ e \in Dir /\ e.state = Touched(d.backup) /\ e.backup = None
                /\ e.backup_removing = d.backup_removing
                /\ e.intent = d.intent /\ e.intent_removing = d.intent_removing
           /\ d.backup # None =>
                LET e == Moved("backup", "backup_removing") IN
                /\ e \in Dir /\ e.state = d.state /\ e.backup = None
                /\ e.backup_removing = d.backup
                /\ e.intent = d.intent /\ e.intent_removing = d.intent_removing
           /\ d.backup_removing # None =>
                LET e == Moved("backup_removing", "backup") IN
                /\ e \in Dir /\ e.state = d.state /\ e.backup = d.backup_removing
                /\ e.backup_removing = None
                /\ e.intent = d.intent /\ e.intent_removing = d.intent_removing
           /\ d.intent # None =>
                LET e == Moved("intent", "intent_removing") IN
                /\ e \in Dir /\ e.state = d.state /\ e.backup = d.backup
                /\ e.backup_removing = d.backup_removing
                /\ e.intent = None /\ e.intent_removing = d.intent
           /\ d.intent_removing # None =>
                LET e == Moved("intent_removing", "intent") IN
                /\ e \in Dir /\ e.state = d.state /\ e.backup = d.backup
                /\ e.backup_removing = d.backup_removing
                /\ e.intent = d.intent_removing /\ e.intent_removing = None
<1>1. /\ d.state \in File \cup {None} /\ d.backup \in File \cup {None}
      /\ d.state # None => Touched(d.state) \in File
      /\ d.backup # None => Touched(d.backup) \in File
  BY DirShape, FileShape
<1>2. {"state", "backup"} = {"backup", "state"} /\ {"backup", "backup_removing"} # {"state", "backup"}
      /\ {"backup_removing", "backup"} # {"state", "backup"}
      /\ {"intent", "intent_removing"} # {"state", "backup"}
      /\ {"intent_removing", "intent"} # {"state", "backup"}
  OBVIOUS
<1> QED
  BY <1>1, <1>2 DEF Moved, Dir

-----------------------------------------------------------------------------
(* Changes of the directory. *)

LEMMA ChangeKeepsSound ==
    ASSUME TypeOK, AllSound, NEW d \in Dir, Sound(d), Change(d), files' = files,
           foreign' = foreign
    PROVE  dir' \in Dir /\ onDisk' \in SUBSET Dir /\ dir' \in onDisk' /\ AllSound'
<1>1. dir' = d /\ onDisk' = onDisk \cup {d} /\ files' = files
  BY DEF Change
<1> QED
  BY <1>1 DEF TypeOK, AllSound, Sound, Numbered

LEMMA UnchangedKeepsSound ==
    ASSUME TypeOK, AllSound, Unchanged, files' = files, foreign' = foreign
    PROVE  dir' \in Dir /\ onDisk' \in SUBSET Dir /\ dir' \in onDisk' /\ AllSound'
BY DEF Unchanged, TypeOK, AllSound, Sound, Numbered

(* A step that changes nothing but where the process stands and what it    *)
(* has in its hands.                                                       *)
LEMMA ProcessMoves ==
    ASSUME IInv, UNCHANGED <<dir, onDisk, files, history>>,
           pc' \in Steps \cup Rests, cache' \in File \cup {None},
           writing' \in Nat \cup {None}, command' \in {"none", "run", "found"},
           Known', InOrder', OneRemoval', Settled'
    PROVE  IInv'
<1>1. TypeOK' /\ NothingForeignIsLost'
  BY DEF IInv, TypeOK, history, NothingForeignIsLost, Holds
<1>2. AllSound'
  BY DEF IInv, AllSound, Sound, Numbered
<1> QED
  BY <1>1, <1>2 DEF IInv

(* A step that changes the directory. *)
LEMMA DirectoryChanges ==
    ASSUME IInv, NEW d \in Dir, Sound(d), Change(d), UNCHANGED <<files, history>>,
           pc' \in Steps \cup Rests, cache' \in File \cup {None},
           writing' \in Nat \cup {None}, command' \in {"none", "run", "found"},
           Known', InOrder', OneRemoval', Settled', foreign # None => Holds(d, foreign)
    PROVE  IInv'
<1>1. TypeOK /\ AllSound /\ dir' = d
  BY DEF IInv, Change
<1>2. dir' \in Dir /\ onDisk' \in SUBSET Dir /\ dir' \in onDisk' /\ AllSound'
  BY <1>1, ChangeKeepsSound
<1>3. TypeOK'
  BY <1>1, <1>2 DEF TypeOK, history
<1>4. NothingForeignIsLost'
  BY <1>1 DEF NothingForeignIsLost, Holds, history
<1> QED
  BY <1>2, <1>3, <1>4 DEF IInv

LEMMA RefuseIInv ==
    ASSUME IInv, Refuse, pc \in Steps \cup {"absent"}, UNCHANGED <<dir, onDisk, files, history>>
    PROVE  IInv'
<1>0. dir \in Dir /\ cache \in File \cup {None} /\ writing \in Nat \cup {None}
      /\ command \in {"none", "run", "found"}
  BY DEF IInv, TypeOK
<1>1. CASE writing = None
  <2>1. pc' = "refused" /\ UNCHANGED <<cache, writing, command>>
    BY <1>1 DEF Refuse, Goto
  <2>2. Known' /\ InOrder' /\ OneRemoval' /\ Settled'
    BY <1>1, <2>1 DEF IInv, Known, InOrder, OneRemoval, Settled, InPlace, WriteSteps, LoadSteps,
                      Steps, AfterSync
  <2> QED
    BY <1>0, <2>1, <2>2, ProcessMoves DEF Rests
<1>2. CASE writing # None
  <2>1. pc' = "failed" /\ writing' = None /\ UNCHANGED <<cache, command>>
    BY <1>2 DEF Refuse
  <2>2. cache = None => dir.state # None
    BY <1>2 DEF IInv, Known, InOrder, InPlace
  <2>3. dir.backup_removing # None => dir.state # cache
    BY <1>2 DEF IInv, Known, OneRemoval, LoadSteps
  <2>4. Known' /\ InOrder' /\ OneRemoval' /\ Settled'
    BY <2>1, <2>2, <2>3 DEF IInv, Known, InOrder, OneRemoval, Settled, InPlace, WriteSteps,
                            LoadSteps, Steps, AfterSync
  <2> QED
    BY <1>0, <2>1, <2>4, ProcessMoves DEF Rests
<1> QED
  BY <1>1, <1>2

-----------------------------------------------------------------------------
(* The steps. *)

LEMMA SyncIInv ==
    ASSUME IInv, Sync
    PROVE  IInv'
<1>1. /\ pc \in DOMAIN AfterSync /\ onDisk' = {dir} /\ pc' = AfterSync[pc]
      /\ UNCHANGED <<dir, files, history, cache, writing, command>>
  BY DEF Sync, Goto
<1>2. \/ pc = "restored_intent" /\ pc' = "restore_backup"
      \/ pc = "restored_backup" /\ pc' = "examine"
      \/ pc = "intent_filled" /\ pc' = "check"
      \/ pc = "published" /\ pc' = "drop_backup"
      \/ pc = "backup_gone" /\ pc' = "drop_intent"
      \/ pc = "rolled_back" /\ pc' = "drop_intent"
      \/ pc = "intent_gone" /\ pc' = "read"
      \/ pc = "created" /\ pc' = "read"
  BY <1>1 DEF AfterSync
<1>3. TypeOK'
  BY <1>1, <1>2 DEF IInv, TypeOK, Steps, history
<1>4. AllSound'
  BY <1>1 DEF IInv, TypeOK, AllSound, Sound, Numbered
<1>5. Known'
  BY <1>1, <1>2 DEF IInv, Known, WriteSteps, LoadSteps
<1>6. InOrder'
  BY <1>1, <1>2 DEF IInv, InOrder, InPlace
<1>7. OneRemoval'
  BY <1>1, <1>2 DEF IInv, OneRemoval, Steps, AfterSync
<1>8. Settled'
  BY <1>1 DEF Settled, Value
<1>9. NothingForeignIsLost'
  BY <1>1 DEF IInv, NothingForeignIsLost, Holds, history
<1> QED
  BY <1>3, <1>4, <1>5, <1>6, <1>7, <1>8, <1>9 DEF IInv

LEMMA RestoreIntentIInv ==
    ASSUME IInv, RestoreIntent
    PROVE  IInv'
<1> DEFINE e == Moved("intent_removing", "intent")
<1>0. pc = "restore_intent" /\ UNCHANGED <<files, history>> /\ dir \in Dir /\ writing = None
      /\ AllSound /\ dir \in onDisk
  BY DEF RestoreIntent, IInv, TypeOK, Known, LoadSteps
<1>1. CASE dir.intent_removing = None
  <2>1. Unchanged /\ Goto("restore_backup")
    BY <1>1 DEF RestoreIntent
  <2>2. Known' /\ InOrder' /\ OneRemoval' /\ Settled'
    BY <1>0, <2>1 DEF Unchanged, Goto, IInv, Known, InOrder, OneRemoval, Settled, InPlace,
                      WriteSteps, LoadSteps, Steps, AfterSync
  <2> QED
    BY <1>0, <2>1, <2>2, ProcessMoves DEF Unchanged, Goto, IInv, TypeOK, Steps
<1>2. CASE dir.intent_removing # None /\ dir.intent = None
  <2>1. Change(e) /\ Goto("restored_intent")
    BY <1>2 DEF RestoreIntent, Rename
  <2>2. /\ e \in Dir /\ e.state = dir.state /\ e.backup = dir.backup
        /\ e.backup_removing = dir.backup_removing
        /\ e.intent = dir.intent_removing /\ e.intent_removing = None
    BY <1>0, <1>2, MovedShapes
  <2> HIDE DEF e
  <2>3. Sound(e)
    BY <1>0, <2>2 DEF AllSound, Sound, Numbered
  <2>4. dir' = e /\ pc' = "restored_intent" /\ UNCHANGED <<cache, writing, command>>
    BY <2>1 DEF Change, Goto
  <2>5. dir' \in Dir /\ onDisk' \in SUBSET Dir /\ dir' \in onDisk' /\ AllSound'
    BY <1>0, <2>1, <2>2, <2>3, ChangeKeepsSound DEF IInv
  <2>6. TypeOK'
    BY <1>0, <2>4, <2>5 DEF IInv, TypeOK, Steps, AfterSync, history
  <2>7. Known' /\ InOrder' /\ OneRemoval' /\ Settled'
    BY <1>0, <2>2, <2>4 DEF IInv, Known, InOrder, OneRemoval, Settled, InPlace,
                            WriteSteps, LoadSteps, Steps, AfterSync
  <2>8. NothingForeignIsLost'
    BY <1>0, <2>2, <2>4 DEF IInv, NothingForeignIsLost, Holds, StateNames, history
  <2> QED
    BY <2>5, <2>6, <2>7, <2>8 DEF IInv
<1>3. CASE dir.intent_removing # None /\ dir.intent # None
  <2>1. Unchanged /\ Refuse
    BY <1>3 DEF RestoreIntent, Rename
  <2> QED
    BY <1>0, <2>1, RefuseIInv DEF Unchanged, Steps
<1> QED
  BY <1>1, <1>2, <1>3

LEMMA RestoreBackupIInv ==
    ASSUME IInv, RestoreBackup
    PROVE  IInv'
<1>0. /\ pc = "restore_backup"
      /\ UNCHANGED <<files, history>>
      /\ TypeOK /\ AllSound /\ dir \in Dir /\ Sound(dir)
      /\ foreign # None => Holds(dir, foreign)
      /\ writing = None
  BY FileShape DEF RestoreBackup, IInv, TypeOK, AllSound, NothingForeignIsLost, Known, InOrder,
     OneRemoval, Settled, InPlace, WriteSteps, LoadSteps, Steps, AfterSync, Rests
<1>1. CASE dir.backup_removing = None
  <2>1. /\ pc' = "examine" /\ UNCHANGED <<cache, writing, command, dir, onDisk>>
    BY <1>0, <1>1 DEF RestoreBackup, Rename, Unchanged, Goto
  <2>2. Known' /\ InOrder' /\ OneRemoval' /\ Settled'
    BY <1>0, <1>1, <2>1 DEF IInv, Known, InOrder, OneRemoval, Settled, InPlace,
                       WriteSteps, LoadSteps, Steps, AfterSync, Rests
  <2> QED
    BY <1>0, <2>1, <2>2, ProcessMoves DEF IInv, TypeOK, Steps, AfterSync, Rests
<1>2. CASE dir.backup_removing # None /\ dir.backup = None
  <2> DEFINE e == Moved("backup_removing", "backup")
  <2>1. /\ Change(e) /\ pc' = "restored_backup" /\ UNCHANGED <<cache, writing, command>>
    BY <1>0, <1>2 DEF RestoreBackup, Rename, Goto
  <2>2. /\ e \in Dir
        /\ e.state = dir.state
        /\ e.intent = dir.intent
        /\ e.intent_removing = dir.intent_removing
        /\ e.backup = dir.backup_removing
        /\ e.backup_removing = None
    BY <1>0, <1>2, MovedShapes
  <2> HIDE DEF e
  <2>3. Sound(e)
    BY <1>0, <1>2, <2>2, FileShape DEF Sound, Numbered
  <2>4. foreign # None => Holds(e, foreign)
    BY <1>0, <1>2, <2>2, FileShape DEF Holds, StateNames
  <2>5. dir' = e
    BY <2>1 DEF Change
  <2>6. Known' /\ InOrder' /\ OneRemoval' /\ Settled'
    BY <1>0, <1>2, <2>1, <2>2, <2>5, FileShape DEF IInv, Known, InOrder, OneRemoval, Settled,
       InPlace, WriteSteps, LoadSteps, Steps, AfterSync, Rests
  <2> QED
    BY <1>0, <2>1, <2>2, <2>3, <2>4, <2>6, DirectoryChanges DEF IInv, TypeOK, Steps, AfterSync,
       Rests
<1>3. CASE dir.backup_removing # None /\ dir.backup # None
  <2>1. Unchanged /\ Refuse
    BY <1>0, <1>3 DEF RestoreBackup, Rename, Unchanged
  <2> QED
    BY <1>0, <2>1, RefuseIInv DEF Unchanged, Steps, AfterSync
<1> QED
  BY <1>0, <1>1, <1>2, <1>3

LEMMA RollBackIInv ==
    ASSUME IInv, RollBack
    PROVE  IInv'
<1>0. /\ pc = "roll_back"
      /\ UNCHANGED <<files, history>>
      /\ TypeOK /\ AllSound /\ dir \in Dir /\ Sound(dir)
      /\ foreign # None => Holds(dir, foreign)
      /\ writing = None
  BY FileShape DEF RollBack, IInv, TypeOK, AllSound, NothingForeignIsLost, Known, InOrder,
     OneRemoval, Settled, InPlace, WriteSteps, LoadSteps, Steps, AfterSync, Rests
<1>1. CASE dir.backup # None /\ dir.state = None
  <2> DEFINE e == Moved("backup", "state")
  <2>1. /\ Change(e) /\ pc' = "rolled_back" /\ UNCHANGED <<cache, writing, command>>
    BY <1>0, <1>1 DEF RollBack, Rename, Goto
  <2>2. /\ e \in Dir
        /\ e.backup_removing = dir.backup_removing
        /\ e.intent = dir.intent
        /\ e.intent_removing = dir.intent_removing
        /\ e.backup = None
        /\ e.state = Touched(dir.backup)
        /\ e.state \in File /\ e.state.id = dir.backup.id
    BY <1>0, <1>1, MovedShapes, DirShape, FileShape
  <2> HIDE DEF e
  <2>3. Sound(e)
    BY <1>0, <1>1, <2>2, FileShape DEF Sound, Numbered
  <2>4. foreign # None => Holds(e, foreign)
    BY <1>0, <1>1, <2>2, FileShape DEF Holds, StateNames
  <2>5. dir' = e
    BY <2>1 DEF Change
  <2>6. Known' /\ InOrder' /\ OneRemoval' /\ Settled'
    BY <1>0, <1>1, <2>1, <2>2, <2>5, FileShape DEF IInv, Known, InOrder, OneRemoval, Settled,
       InPlace, WriteSteps, LoadSteps, Steps, AfterSync, Rests
  <2> QED
    BY <1>0, <2>1, <2>2, <2>3, <2>4, <2>6, DirectoryChanges DEF IInv, TypeOK, Steps, AfterSync,
       Rests
<1>2. CASE dir.backup = None \/ dir.state # None
  <2>1. Unchanged /\ Refuse
    BY <1>0, <1>2 DEF RollBack, Rename, Unchanged
  <2> QED
    BY <1>0, <2>1, RefuseIInv DEF Unchanged, Steps, AfterSync
<1> QED
  BY <1>0, <1>1, <1>2

LEMMA DropBackupIInv ==
    ASSUME IInv, DropBackup
    PROVE  IInv'
<1>0. /\ pc = "drop_backup"
      /\ UNCHANGED <<files, history>>
      /\ TypeOK /\ AllSound /\ dir \in Dir /\ Sound(dir)
      /\ foreign # None => Holds(dir, foreign)
      /\ dir.state # None
  BY FileShape DEF DropBackup, IInv, TypeOK, AllSound, NothingForeignIsLost, Known, InOrder,
     OneRemoval, Settled, InPlace, WriteSteps, LoadSteps, Steps, AfterSync, Rests
<1>1. CASE dir.backup # None /\ dir.backup_removing = None
  <2> DEFINE e == Moved("backup", "backup_removing")
  <2>1. /\ Change(e) /\ pc' = "unlink_backup" /\ UNCHANGED <<cache, writing, command>>
    BY <1>0, <1>1 DEF DropBackup, Rename, Goto
  <2>2. /\ e \in Dir
        /\ e.state = dir.state
        /\ e.intent = dir.intent
        /\ e.intent_removing = dir.intent_removing
        /\ e.backup = None
        /\ e.backup_removing = dir.backup
    BY <1>0, <1>1, MovedShapes
  <2> HIDE DEF e
  <2>3. Sound(e)
    BY <1>0, <1>1, <2>2, FileShape DEF Sound, Numbered
  <2>4. foreign # None => Holds(e, foreign)
    BY <1>0, <1>1, <2>2, FileShape DEF Holds, StateNames
  <2>5. dir' = e
    BY <2>1 DEF Change
  <2>6. Known' /\ InOrder' /\ OneRemoval' /\ Settled'
    BY <1>0, <1>1, <2>1, <2>2, <2>5, FileShape DEF IInv, Known, InOrder, OneRemoval, Settled,
       InPlace, WriteSteps, LoadSteps, Steps, AfterSync, Rests
  <2> QED
    BY <1>0, <2>1, <2>2, <2>3, <2>4, <2>6, DirectoryChanges DEF IInv, TypeOK, Steps, AfterSync,
       Rests
<1>2. CASE dir.backup = None \/ dir.backup_removing # None
  <2>1. Unchanged /\ Refuse
    BY <1>0, <1>2 DEF DropBackup, Rename, Unchanged
  <2> QED
    BY <1>0, <2>1, RefuseIInv DEF Unchanged, Steps, AfterSync
<1> QED
  BY <1>0, <1>1, <1>2

LEMMA UnlinkBackupIInv ==
    ASSUME IInv, UnlinkBackup
    PROVE  IInv'
<1>0. /\ pc = "unlink_backup"
      /\ UNCHANGED <<files, history>>
      /\ TypeOK /\ AllSound /\ dir \in Dir /\ Sound(dir)
      /\ foreign # None => Holds(dir, foreign)
      /\ Taken(dir.backup_removing)
  BY FileShape DEF UnlinkBackup, IInv, TypeOK, AllSound, NothingForeignIsLost, Known, InOrder,
     OneRemoval, Settled, InPlace, WriteSteps, LoadSteps, Steps, AfterSync, Rests
<1>1. CASE TRUE
  <2> DEFINE e == [dir EXCEPT !.backup_removing = None]
  <2>1. /\ Change(e) /\ pc' = "backup_gone" /\ UNCHANGED <<cache, writing, command>>
    BY <1>0, <1>1 DEF UnlinkBackup, Rename, Goto
  <2>2. /\ e \in Dir
        /\ e.state = dir.state
        /\ e.backup = dir.backup
        /\ e.intent = dir.intent
        /\ e.intent_removing = dir.intent_removing
        /\ e.backup_removing = None
    BY <1>0, <1>1, DirShape DEF Dir
  <2> HIDE DEF e
  <2>3. Sound(e)
    BY <1>0, <1>1, <2>2, FileShape DEF Sound, Numbered
  <2>4. foreign # None => Holds(e, foreign)
    BY <1>0, <1>1, <2>2, FileShape DEF Holds, StateNames
  <2>5. dir' = e
    BY <2>1 DEF Change
  <2>6. Known' /\ InOrder' /\ OneRemoval' /\ Settled'
    BY <1>0, <1>1, <2>1, <2>2, <2>5, FileShape DEF IInv, Known, InOrder, OneRemoval, Settled,
       InPlace, WriteSteps, LoadSteps, Steps, AfterSync, Rests
  <2> QED
    BY <1>0, <2>1, <2>2, <2>3, <2>4, <2>6, DirectoryChanges DEF IInv, TypeOK, Steps, AfterSync,
       Rests
<1> QED
  BY <1>0, <1>1

LEMMA DropIntentIInv ==
    ASSUME IInv, DropIntent
    PROVE  IInv'
<1>0. /\ pc = "drop_intent"
      /\ UNCHANGED <<files, history>>
      /\ TypeOK /\ AllSound /\ dir \in Dir /\ Sound(dir)
      /\ foreign # None => Holds(dir, foreign)
  BY FileShape DEF DropIntent, IInv, TypeOK, AllSound, NothingForeignIsLost, Known, InOrder,
     OneRemoval, Settled, InPlace, WriteSteps, LoadSteps, Steps, AfterSync, Rests
<1>1. CASE dir.intent # None /\ dir.intent_removing = None
  <2> DEFINE e == Moved("intent", "intent_removing")
  <2>1. /\ Change(e) /\ pc' = "unlink_intent" /\ UNCHANGED <<cache, writing, command>>
    BY <1>0, <1>1 DEF DropIntent, Rename, Goto
  <2>2. /\ e \in Dir
        /\ e.state = dir.state
        /\ e.backup = dir.backup
        /\ e.backup_removing = dir.backup_removing
        /\ e.intent = None
        /\ e.intent_removing = dir.intent
    BY <1>0, <1>1, MovedShapes
  <2> HIDE DEF e
  <2>3. Sound(e)
    BY <1>0, <1>1, <2>2, FileShape DEF Sound, Numbered
  <2>4. foreign # None => Holds(e, foreign)
    BY <1>0, <1>1, <2>2, FileShape DEF Holds, StateNames
  <2>5. dir' = e
    BY <2>1 DEF Change
  <2>6. Known' /\ InOrder' /\ OneRemoval' /\ Settled'
    BY <1>0, <1>1, <2>1, <2>2, <2>5, FileShape DEF IInv, Known, InOrder, OneRemoval, Settled,
       InPlace, WriteSteps, LoadSteps, Steps, AfterSync, Rests
  <2> QED
    BY <1>0, <2>1, <2>2, <2>3, <2>4, <2>6, DirectoryChanges DEF IInv, TypeOK, Steps, AfterSync,
       Rests
<1>2. CASE dir.intent = None \/ dir.intent_removing # None
  <2>1. Unchanged /\ Refuse
    BY <1>0, <1>2 DEF DropIntent, Rename, Unchanged
  <2> QED
    BY <1>0, <2>1, RefuseIInv DEF Unchanged, Steps, AfterSync
<1> QED
  BY <1>0, <1>1, <1>2

LEMMA UnlinkIntentIInv ==
    ASSUME IInv, UnlinkIntent
    PROVE  IInv'
<1>0. /\ pc = "unlink_intent"
      /\ UNCHANGED <<files, history>>
      /\ TypeOK /\ AllSound /\ dir \in Dir /\ Sound(dir)
      /\ foreign # None => Holds(dir, foreign)
  BY FileShape DEF UnlinkIntent, IInv, TypeOK, AllSound, NothingForeignIsLost, Known, InOrder,
     OneRemoval, Settled, InPlace, WriteSteps, LoadSteps, Steps, AfterSync, Rests
<1>1. CASE TRUE
  <2> DEFINE e == [dir EXCEPT !.intent_removing = None]
  <2>1. /\ Change(e) /\ pc' = "intent_gone" /\ UNCHANGED <<cache, writing, command>>
    BY <1>0, <1>1 DEF UnlinkIntent, Rename, Goto
  <2>2. /\ e \in Dir
        /\ e.state = dir.state
        /\ e.backup = dir.backup
        /\ e.backup_removing = dir.backup_removing
        /\ e.intent = dir.intent
        /\ e.intent_removing = None
    BY <1>0, <1>1, DirShape DEF Dir
  <2> HIDE DEF e
  <2>3. Sound(e)
    BY <1>0, <1>1, <2>2, FileShape DEF Sound, Numbered
  <2>4. foreign # None => Holds(e, foreign)
    BY <1>0, <1>1, <2>2, FileShape DEF Holds, StateNames
  <2>5. dir' = e
    BY <2>1 DEF Change
  <2>6. Known' /\ InOrder' /\ OneRemoval' /\ Settled'
    BY <1>0, <1>1, <2>1, <2>2, <2>5, FileShape DEF IInv, Known, InOrder, OneRemoval, Settled,
       InPlace, WriteSteps, LoadSteps, Steps, AfterSync, Rests
  <2> QED
    BY <1>0, <2>1, <2>2, <2>3, <2>4, <2>6, DirectoryChanges DEF IInv, TypeOK, Steps, AfterSync,
       Rests
<1> QED
  BY <1>0, <1>1

LEMMA MoveAsideIInv ==
    ASSUME IInv, MoveAside
    PROVE  IInv'
<1>0. /\ pc = "aside"
      /\ UNCHANGED <<files, history>>
      /\ TypeOK /\ AllSound /\ dir \in Dir /\ Sound(dir)
      /\ foreign # None => Holds(dir, foreign)
      /\ dir.backup_removing = None
  BY FileShape DEF MoveAside, IInv, TypeOK, AllSound, NothingForeignIsLost, Known, InOrder,
     OneRemoval, Settled, InPlace, WriteSteps, LoadSteps, Steps, AfterSync, Rests
<1>1. CASE dir.state # None /\ dir.backup = None
  <2> DEFINE e == Moved("state", "backup")
  <2>1. /\ Change(e) /\ pc' = "verify_aside" /\ UNCHANGED <<cache, writing, command>>
    BY <1>0, <1>1 DEF MoveAside, Rename, Goto
  <2>2. /\ e \in Dir
        /\ e.backup_removing = dir.backup_removing
        /\ e.intent = dir.intent
        /\ e.intent_removing = dir.intent_removing
        /\ e.state = None
        /\ e.backup = Touched(dir.state)
        /\ e.backup \in File /\ e.backup.id = dir.state.id
    BY <1>0, <1>1, MovedShapes, DirShape, FileShape
  <2> HIDE DEF e
  <2>3. Sound(e)
    BY <1>0, <1>1, <2>2, FileShape DEF Sound, Numbered
  <2>4. foreign # None => Holds(e, foreign)
    BY <1>0, <1>1, <2>2, FileShape DEF Holds, StateNames
  <2>5. dir' = e
    BY <2>1 DEF Change
  <2>6. Known' /\ InOrder' /\ OneRemoval' /\ Settled'
    BY <1>0, <1>1, <2>1, <2>2, <2>5, FileShape DEF IInv, Known, InOrder, OneRemoval, Settled,
       InPlace, WriteSteps, LoadSteps, Steps, AfterSync, Rests
  <2> QED
    BY <1>0, <2>1, <2>2, <2>3, <2>4, <2>6, DirectoryChanges DEF IInv, TypeOK, Steps, AfterSync,
       Rests
<1>2. CASE dir.state = None \/ dir.backup # None
  <2>1. Unchanged /\ Refuse
    BY <1>0, <1>2 DEF MoveAside, Rename, Unchanged
  <2> QED
    BY <1>0, <2>1, RefuseIInv DEF Unchanged, Steps, AfterSync
<1> QED
  BY <1>0, <1>1, <1>2

LEMMA CheckIInv ==
    ASSUME IInv, Check
    PROVE  IInv'
<1>0. /\ pc = "check"
      /\ UNCHANGED <<files, history>>
      /\ TypeOK /\ AllSound /\ dir \in Dir /\ Sound(dir)
      /\ foreign # None => Holds(dir, foreign)
  BY FileShape DEF Check, IInv, TypeOK, AllSound, NothingForeignIsLost, Known, InOrder,
     OneRemoval, Settled, InPlace, WriteSteps, LoadSteps, Steps, AfterSync, Rests
<1>1. CASE dir.state = cache
  <2>1. /\ pc' = "aside" /\ UNCHANGED <<cache, writing, command, dir, onDisk>>
    BY <1>0, <1>1 DEF Check, Rename, Unchanged, Goto
  <2>2. Known' /\ InOrder' /\ OneRemoval' /\ Settled'
    BY <1>0, <1>1, <2>1 DEF IInv, Known, InOrder, OneRemoval, Settled, InPlace,
                       WriteSteps, LoadSteps, Steps, AfterSync, Rests
  <2> QED
    BY <1>0, <2>1, <2>2, ProcessMoves DEF IInv, TypeOK, Steps, AfterSync, Rests
<1>2. CASE dir.state # cache
  <2>1. Unchanged /\ Refuse
    BY <1>0, <1>2 DEF Check, Rename, Unchanged
  <2> QED
    BY <1>0, <2>1, RefuseIInv DEF Unchanged, Steps, AfterSync
<1> QED
  BY <1>0, <1>1, <1>2

LEMMA VerifyAsideIInv ==
    ASSUME IInv, VerifyAside
    PROVE  IInv'
<1>0. /\ pc = "verify_aside"
      /\ UNCHANGED <<files, history>>
      /\ TypeOK /\ AllSound /\ dir \in Dir /\ Sound(dir)
      /\ foreign # None => Holds(dir, foreign)
  BY FileShape DEF VerifyAside, IInv, TypeOK, AllSound, NothingForeignIsLost, Known, InOrder,
     OneRemoval, Settled, InPlace, WriteSteps, LoadSteps, Steps, AfterSync, Rests
<1>1. CASE dir.backup.id = cache.id
  <2>1. /\ pc' = "publish" /\ UNCHANGED <<cache, writing, command, dir, onDisk>>
    BY <1>0, <1>1 DEF VerifyAside, Rename, Unchanged, Goto
  <2>2. Known' /\ InOrder' /\ OneRemoval' /\ Settled'
    BY <1>0, <1>1, <2>1 DEF IInv, Known, InOrder, OneRemoval, Settled, InPlace,
                       WriteSteps, LoadSteps, Steps, AfterSync, Rests
  <2> QED
    BY <1>0, <2>1, <2>2, ProcessMoves DEF IInv, TypeOK, Steps, AfterSync, Rests
<1>2. CASE dir.backup.id # cache.id
  <2>1. /\ pc' = "undo" /\ UNCHANGED <<cache, writing, command, dir, onDisk>>
    BY <1>0, <1>2 DEF VerifyAside, Rename, Unchanged, Goto
  <2>2. Known' /\ InOrder' /\ OneRemoval' /\ Settled'
    BY <1>0, <1>2, <2>1 DEF IInv, Known, InOrder, OneRemoval, Settled, InPlace,
                       WriteSteps, LoadSteps, Steps, AfterSync, Rests
  <2> QED
    BY <1>0, <2>1, <2>2, ProcessMoves DEF IInv, TypeOK, Steps, AfterSync, Rests
<1> QED
  BY <1>0, <1>1, <1>2

LEMMA VerifyPublishedIInv ==
    ASSUME IInv, VerifyPublished
    PROVE  IInv'
<1>0. /\ pc = "verify_published"
      /\ UNCHANGED <<files, history>>
      /\ TypeOK /\ AllSound /\ dir \in Dir /\ Sound(dir)
      /\ foreign # None => Holds(dir, foreign)
  BY FileShape DEF VerifyPublished, IInv, TypeOK, AllSound, NothingForeignIsLost, Known,
     InOrder, OneRemoval, Settled, InPlace, WriteSteps, LoadSteps, Steps, AfterSync, Rests
<1>1. CASE dir.state.id = writing
  <2>1. /\ pc' = "published" /\ UNCHANGED <<cache, writing, command, dir, onDisk>>
    BY <1>0, <1>1 DEF VerifyPublished, Rename, Unchanged, Goto
  <2>2. Known' /\ InOrder' /\ OneRemoval' /\ Settled'
    BY <1>0, <1>1, <2>1 DEF IInv, Known, InOrder, OneRemoval, Settled, InPlace,
                       WriteSteps, LoadSteps, Steps, AfterSync, Rests
  <2> QED
    BY <1>0, <2>1, <2>2, ProcessMoves DEF IInv, TypeOK, Steps, AfterSync, Rests
<1>2. CASE dir.state.id # writing
  <2>1. Unchanged /\ Refuse
    BY <1>0, <1>2 DEF VerifyPublished, Rename, Unchanged
  <2> QED
    BY <1>0, <2>1, RefuseIInv DEF Unchanged, Steps, AfterSync
<1> QED
  BY <1>0, <1>1, <1>2

LEMMA PublishIInv ==
    ASSUME IInv, Publish
    PROVE  IInv'
<1>0. /\ pc = "publish"
      /\ UNCHANGED <<files, history>>
      /\ TypeOK /\ AllSound /\ dir \in Dir /\ Sound(dir)
      /\ foreign # None => Holds(dir, foreign)
      /\ writing \in Nat /\ writing <= files /\ cache # None /\ cache.id < writing
  BY FileShape DEF Publish, IInv, TypeOK, AllSound, NothingForeignIsLost, Known, InOrder,
     OneRemoval, Settled, InPlace, WriteSteps, LoadSteps, Steps, AfterSync, Rests
<1>1. CASE dir.state = None
  <2> DEFINE e == [dir EXCEPT !.state = [id |-> writing, ct |-> 1]]
  <2>1. /\ Change(e) /\ pc' = "verify_published" /\ UNCHANGED <<cache, writing, command>>
    BY <1>0, <1>1 DEF Publish, Rename, Goto
  <2>2. /\ e \in Dir
        /\ e.backup = dir.backup
        /\ e.backup_removing = dir.backup_removing
        /\ e.intent = dir.intent
        /\ e.intent_removing = dir.intent_removing
        /\ e.state \in File /\ e.state.id = writing
    BY <1>0, <1>1, NewState DEF File
  <2> HIDE DEF e
  <2>3. Sound(e)
    BY <1>0, <1>1, <2>2, FileShape DEF Sound, Numbered
  <2>4. foreign # None => Holds(e, foreign)
    BY <1>0, <1>1, <2>2, FileShape DEF Holds, StateNames
  <2>5. dir' = e
    BY <2>1 DEF Change
  <2>6. Known' /\ InOrder' /\ OneRemoval' /\ Settled'
    BY <1>0, <1>1, <2>1, <2>2, <2>5, FileShape DEF IInv, Known, InOrder, OneRemoval, Settled,
       InPlace, WriteSteps, LoadSteps, Steps, AfterSync, Rests
  <2> QED
    BY <1>0, <2>1, <2>2, <2>3, <2>4, <2>6, DirectoryChanges DEF IInv, TypeOK, Steps, AfterSync,
       Rests
<1>2. CASE dir.state # None
  <2>1. Unchanged /\ Refuse
    BY <1>0, <1>2 DEF Publish, Rename, Unchanged
  <2> QED
    BY <1>0, <2>1, RefuseIInv DEF Unchanged, Steps, AfterSync
<1> QED
  BY <1>0, <1>1, <1>2

LEMMA CreateIntentIInv ==
    ASSUME IInv, CreateIntent
    PROVE  IInv'
<1>0. /\ pc = "intent"
      /\ UNCHANGED <<files, history>>
      /\ TypeOK /\ AllSound /\ dir \in Dir /\ Sound(dir)
      /\ foreign # None => Holds(dir, foreign)
      /\ writing \in Nat
      /\ cache \in File /\ Taken(cache) /\ cache.id <= files
  BY FileShape DEF CreateIntent, IInv, TypeOK, AllSound, NothingForeignIsLost, Known, InOrder,
     OneRemoval, Settled, InPlace, WriteSteps, LoadSteps, Steps, AfterSync, Rests
<1>1. CASE dir.intent = None
  <2> DEFINE e == [dir EXCEPT !.intent = [pred |-> cache, succ |-> writing, whole |-> FALSE]]
  <2>1. /\ Change(e) /\ pc' = "fill" /\ UNCHANGED <<cache, writing, command>>
    BY <1>0, <1>1 DEF CreateIntent, Rename, Goto
  <2>2. /\ e \in Dir
        /\ e.state = dir.state
        /\ e.backup = dir.backup
        /\ e.backup_removing = dir.backup_removing
        /\ e.intent_removing = dir.intent_removing
        /\ e.intent \in Intent /\ e.intent.pred = cache
    BY <1>0, <1>1, DirShape DEF Dir, Intent
  <2> HIDE DEF e
  <2>3. Sound(e)
    BY <1>0, <1>1, <2>2, FileShape DEF Sound, Numbered
  <2>4. foreign # None => Holds(e, foreign)
    BY <1>0, <1>1, <2>2, FileShape DEF Holds, StateNames
  <2>5. dir' = e
    BY <2>1 DEF Change
  <2>6. Known' /\ InOrder' /\ OneRemoval' /\ Settled'
    BY <1>0, <1>1, <2>1, <2>2, <2>5, FileShape DEF IInv, Known, InOrder, OneRemoval, Settled,
       InPlace, WriteSteps, LoadSteps, Steps, AfterSync, Rests
  <2> QED
    BY <1>0, <2>1, <2>2, <2>3, <2>4, <2>6, DirectoryChanges DEF IInv, TypeOK, Steps, AfterSync,
       Rests
<1>2. CASE dir.intent # None
  <2>1. Unchanged /\ Refuse
    BY <1>0, <1>2 DEF CreateIntent, Rename, Unchanged
  <2> QED
    BY <1>0, <2>1, RefuseIInv DEF Unchanged, Steps, AfterSync
<1> QED
  BY <1>0, <1>1, <1>2

LEMMA ExamineIInv ==
    ASSUME IInv, Examine
    PROVE  IInv'
<1>0. /\ pc = "examine"
      /\ UNCHANGED <<files, history>>
      /\ TypeOK /\ AllSound /\ dir \in Dir /\ Sound(dir)
      /\ foreign # None => Holds(dir, foreign)
      /\ writing = None
  BY FileShape DEF Examine, IInv, TypeOK, AllSound, NothingForeignIsLost, Known, InOrder,
     OneRemoval, Settled, InPlace, WriteSteps, LoadSteps, Steps, AfterSync, Rests
<1>1. CASE Nothing /\ pc' = "read"
  <2>1. UNCHANGED <<cache, writing, command, dir, onDisk>>
    BY <1>0, <1>1 DEF Examine, Goto, Refuse
  <2>2. Known' /\ InOrder' /\ OneRemoval' /\ Settled'
    BY <1>0, <1>1, <2>1 DEF Nothing, IInv, Known, InOrder, OneRemoval, Settled, InPlace,
                          WriteSteps, LoadSteps, Steps, AfterSync, Rests
  <2> QED
    BY <1>0, <1>1, <2>1, <2>2, ProcessMoves DEF IInv, TypeOK, Steps
<1>2. CASE Unpublished /\ pc' = "roll_back"
  <2>1. UNCHANGED <<cache, writing, command, dir, onDisk>>
    BY <1>0, <1>2 DEF Examine, Goto, Refuse
  <2>2. Known' /\ InOrder' /\ OneRemoval' /\ Settled'
    BY <1>0, <1>2, <2>1 DEF IInv, Known, InOrder, OneRemoval, Settled, InPlace,
                          WriteSteps, LoadSteps, Steps, AfterSync, Rests
  <2> QED
    BY <1>0, <1>2, <2>1, <2>2, ProcessMoves DEF IInv, TypeOK, Steps
<1>3. CASE Published /\ pc' = "drop_backup"
  <2>1. UNCHANGED <<cache, writing, command, dir, onDisk>>
    BY <1>0, <1>3 DEF Examine, Goto, Refuse
  <2>2. dir.state # None /\ dir.backup # None /\ Taken(dir.backup)
    BY <1>0, <1>3 DEF Published, Bound, Sound
  <2>3. Known' /\ InOrder' /\ OneRemoval' /\ Settled'
    BY <1>0, <1>3, <2>1, <2>2 DEF IInv, Known, InOrder, OneRemoval, Settled, InPlace,
                          WriteSteps, LoadSteps, Steps, AfterSync, Rests
  <2> QED
    BY <1>0, <1>3, <2>1, <2>3, ProcessMoves DEF IInv, TypeOK, Steps
<1>4. CASE OnlyIntent /\ pc' = "drop_intent"
  <2>1. UNCHANGED <<cache, writing, command, dir, onDisk>>
    BY <1>0, <1>4 DEF Examine, Goto, Refuse
  <2>2. Known' /\ InOrder' /\ OneRemoval' /\ Settled'
    BY <1>0, <1>4, <2>1 DEF OnlyIntent, IInv, Known, InOrder, OneRemoval, Settled, InPlace,
                          WriteSteps, LoadSteps, Steps, AfterSync, Rests
  <2> QED
    BY <1>0, <1>4, <2>1, <2>2, ProcessMoves DEF IInv, TypeOK, Steps
<1>5. CASE Refuse
  <2> QED
    BY <1>0, <1>5, RefuseIInv DEF Examine, Steps
<1> QED
  BY <1>0, <1>1, <1>2, <1>3, <1>4, <1>5 DEF Examine, Goto

(* Steps that leave the files alone. *)
LEMMA QuietIInv ==
    ASSUME IInv, Run \/ Recover \/ Enter \/ Leave \/ CallFails \/ Kill
    PROVE  IInv'
<1>0. /\ UNCHANGED <<dir, onDisk, files, history>>
      /\ cache \in File \cup {None} /\ writing \in Nat \cup {None}
      /\ command \in {"none", "run", "found"}
  BY DEF Run, Recover, Enter, Leave, CallFails, Kill, IInv, TypeOK
<1>1. CASE Run \/ Recover \/ Enter \/ Leave \/ Kill
  <2>1. /\ pc' \in {"out", "missing", "restore_intent"}
        /\ cache' \in {cache, None} /\ writing' \in {writing, None}
        /\ command' \in {"none", "run", "found"}
        /\ pc' # "out" => pc = "out"
        /\ pc' = "out" => pc = "out" \/ writing' = None
    BY <1>0, <1>1 DEF Run, Recover, Enter, Leave, Kill, Out, Goto, Rests
  <2>2. pc = "out" => writing = None
    BY DEF IInv, Known
  <2>3. writing' = None
    BY <2>1, <2>2
  <2>4. Known' /\ InOrder' /\ OneRemoval' /\ Settled'
    BY <1>0, <2>1, <2>3 DEF IInv, Known, InOrder, OneRemoval, Settled, InPlace,
              WriteSteps, LoadSteps, Steps, AfterSync, Rests
  <2> QED
    BY <1>0, <2>1, <2>3, <2>4, ProcessMoves DEF Steps, Rests
<1>2. CASE CallFails
  <2>1. /\ pc \in Steps /\ writing # None /\ writing' = None
        /\ pc' = (IF cache = None THEN "out" ELSE "failed")
        /\ UNCHANGED <<cache, command>>
    BY <1>2 DEF CallFails
  <2>2. dir.backup_removing # None => dir.state # cache
    BY <2>1 DEF IInv, Known, OneRemoval, LoadSteps
  <2>3. Known' /\ InOrder' /\ OneRemoval' /\ Settled'
    BY <1>0, <2>1, <2>2 DEF IInv, Known, InOrder, OneRemoval, Settled, InPlace,
              WriteSteps, LoadSteps, Steps, AfterSync, Rests
  <2> QED
    BY <1>0, <2>1, <2>3, ProcessMoves DEF Rests
<1> QED
  BY <1>1, <1>2

LEMMA ReadIInv ==
    ASSUME IInv, Read
    PROVE  IInv'
<1>0. /\ pc = "read" /\ UNCHANGED <<dir, onDisk, files, intruded>>
      /\ dir \in Dir /\ Sound(dir) /\ acked \in Nat
      /\ cache \in File \cup {None} /\ writing \in Nat \cup {None}
  BY DEF Read, Unchanged, IInv, TypeOK, AllSound
<1>1. CASE dir.state = None
  <2>1. pc' = "absent" /\ UNCHANGED <<cache, writing, command, acked, foreign>>
    BY <1>0, <1>1 DEF Read, Goto
  <2>2. Known' /\ InOrder' /\ OneRemoval' /\ Settled'
    BY <1>0, <1>1, <2>1 DEF IInv, Known, InOrder, OneRemoval, Settled, InPlace,
              WriteSteps, LoadSteps, Steps, AfterSync, Rests
  <2> QED
    BY <1>0, <2>1, <2>2, ProcessMoves DEF IInv, TypeOK, Rests, history
<1>2. CASE dir.state # None /\ Refuse /\ UNCHANGED <<acked, foreign>>
  BY <1>0, <1>2, RefuseIInv DEF Steps, history
<1>3. CASE /\ dir.state # None /\ dir.state.id # Stranger /\ writing \in {None, dir.state.id}
           /\ pc' = "ready" /\ cache' = dir.state /\ writing' = None /\ command' = "found"
           /\ acked' = IF writing = None THEN acked ELSE writing
           /\ foreign' = IF dir.state.id = foreign THEN None ELSE foreign
  <2>1. dir.state \in File /\ dir.state.id <= files /\ dir.backup_removing = None
    BY <1>0, <1>3, DirShape DEF Sound, Numbered, IInv, OneRemoval, Steps, AfterSync
  <2>2. acked' \in Nat
    BY <1>0, <1>3
  <2>3. TypeOK'
    BY <1>0, <1>3, <2>1, <2>2 DEF IInv, TypeOK, Rests
  <2>4. AllSound' /\ NothingForeignIsLost'
    <3>1. \A d \in Dir : /\ d.intent # None => d.intent.pred.id # None
                         /\ d.intent_removing # None => d.intent_removing.pred.id # None
      BY DirShape, FileShape
    <3>2. AllSound'
      BY <1>0, <1>3, <3>1 DEF IInv, TypeOK, AllSound, Sound, Numbered
    <3> QED
      BY <1>0, <1>3, <3>2 DEF IInv, NothingForeignIsLost, Holds
  <2>5. Known' /\ InOrder' /\ OneRemoval' /\ Settled'
    BY <1>0, <1>3, <2>1, FileShape DEF IInv, Known, InOrder, OneRemoval, Settled, InPlace,
              WriteSteps, LoadSteps, Steps, AfterSync, Rests
  <2> QED
    BY <2>3, <2>4, <2>5 DEF IInv
<1> QED
  BY <1>0, <1>1, <1>2, <1>3 DEF Read

(* The number of a new file is above all others. *)
LEMMA NewNumber ==
    ASSUME IInv
    PROVE  files \in Nat /\ \A d \in onDisk : Numbered(d, files + 1)
<1>1. files \in Nat /\ onDisk \in SUBSET Dir
  BY DEF IInv, TypeOK
<1>2. ASSUME NEW d \in onDisk PROVE Numbered(d, files + 1)
  <2>1. /\ d.state # None => d.state.id \in Nat
        /\ d.backup # None => d.backup.id \in Nat
        /\ d.backup_removing # None => d.backup_removing.id \in Nat
        /\ d.intent # None => d.intent.pred.id \in Nat
        /\ d.intent_removing # None => d.intent_removing.pred.id \in Nat
    BY <1>1, DirShape, FileShape
  <2>2. Numbered(d, files)
    BY DEF IInv, AllSound, Sound
  <2> QED
    BY <1>1, <2>1, <2>2 DEF Numbered
<1> QED
  BY <1>1, <1>2

LEMMA CreateIInv ==
    ASSUME IInv, Create
    PROVE  IInv'
<1>0. /\ pc = "absent" /\ UNCHANGED history /\ dir \in Dir /\ Sound(dir) /\ writing = None
      /\ files \in Nat /\ cache \in File \cup {None} /\ dir.backup_removing = None
      /\ foreign # None => Holds(dir, foreign)
      /\ cache # None => Taken(cache) /\ cache.id <= files /\ cache.id \in Nat
      /\ command \in {"none", "run", "found"}
  BY FileShape DEF Create, IInv, TypeOK, AllSound, Known, OneRemoval, NothingForeignIsLost
<1>1. CASE dir.state # None
  <2>1. UNCHANGED <<dir, onDisk, files, cache, writing, command>> /\ pc' = "refused"
    BY <1>1 DEF Create, Unchanged, Goto
  <2>2. Known' /\ InOrder' /\ OneRemoval' /\ Settled'
    BY <1>0, <2>1 DEF IInv, Known, InOrder, OneRemoval, Settled, InPlace,
              WriteSteps, LoadSteps, Steps, AfterSync, Rests
  <2> QED
    BY <1>0, <2>1, <2>2, ProcessMoves DEF IInv, TypeOK, Rests
<1>2. CASE dir.state = None
  <2> DEFINE e == [dir EXCEPT !.state = [id |-> files + 1, ct |-> 1]]
  <2>1. /\ Change(e) /\ files' = files + 1 /\ writing' = files + 1 /\ pc' = "created"
        /\ UNCHANGED <<cache, command>>
    BY <1>2 DEF Create
  <2>2. /\ e \in Dir /\ e.backup = dir.backup /\ e.backup_removing = dir.backup_removing
        /\ e.intent = dir.intent /\ e.intent_removing = dir.intent_removing
        /\ e.state \in File /\ e.state.id = files + 1
    BY <1>0, NewState DEF File
  <2> HIDE DEF e
  <2>3. dir' = e /\ onDisk' = onDisk \cup {e}
    BY <2>1 DEF Change
  <2>4. Numbered(e, files + 1)
    <3>1. Numbered(dir, files + 1)
      BY NewNumber DEF IInv, TypeOK
    <3> QED
      BY <1>0, <2>2, <3>1 DEF Numbered
  <2>5. AllSound'
    <3>1. \A d \in onDisk : Sound(d) /\ Numbered(d, files + 1)
      BY NewNumber DEF IInv, AllSound
    <3>2. \A d \in onDisk' : /\ d.backup_removing # None => d.state # None
                             /\ d.intent # None => Taken(d.intent.pred)
                             /\ d.intent_removing # None => Taken(d.intent_removing.pred)
                             /\ Numbered(d, files')
      BY <1>0, <2>1, <2>2, <2>3, <2>4, <3>1 DEF Sound
    <3> QED
      BY <1>0, <3>2 DEF AllSound, Sound, Numbered
  <2>6. TypeOK'
    BY <1>0, <2>1, <2>2, <2>3 DEF IInv, TypeOK, Steps, AfterSync, history
  <2>7. NothingForeignIsLost'
    BY <1>0, <1>2, <2>2, <2>3 DEF NothingForeignIsLost, Holds, StateNames, history
  <2>8. Known'
    BY <1>0, <2>1, <2>2, <2>3, FileShape DEF Known, WriteSteps, LoadSteps
  <2>9. InOrder' /\ OneRemoval' /\ Settled'
    BY <1>0, <2>1, <2>2, <2>3, FileShape DEF InOrder, OneRemoval, Settled, InPlace, Steps,
       AfterSync
  <2> QED
    BY <2>5, <2>6, <2>7, <2>8, <2>9 DEF IInv
<1> QED
  BY <1>1, <1>2

LEMMA BeginWriteIInv ==
    ASSUME IInv, BeginWrite
    PROVE  IInv'
<1>0. /\ pc \in {"ready", "failed"} /\ UNCHANGED <<dir, onDisk, cache, command, history>>
      /\ dir \in Dir /\ writing = None /\ files \in Nat /\ cache \in File \cup {None}
      /\ cache # None => Taken(cache) /\ cache.id <= files /\ cache.id \in Nat
  BY FileShape DEF BeginWrite, IInv, TypeOK, Known
<1>1. CASE dir.state # cache
  <2>1. UNCHANGED <<files, writing>> /\ pc' = "failed"
    BY <1>1 DEF BeginWrite
  <2>2. pc = "ready" => cache # None
    BY DEF IInv, Known
  <2>3. Known' /\ InOrder' /\ OneRemoval' /\ Settled'
    BY <1>0, <1>1, <2>1, <2>2 DEF IInv, Known, InOrder, OneRemoval, Settled, InPlace,
              WriteSteps, LoadSteps, Steps, AfterSync, Rests
  <2> QED
    BY <1>0, <2>1, <2>3, ProcessMoves DEF IInv, TypeOK, Rests
<1>2. CASE dir.state = cache
  <2>1. pc' = "intent" /\ writing' = files + 1 /\ files' = files + 1
    BY <1>2 DEF BeginWrite
  <2>2. cache # None /\ dir.backup_removing = None
    BY <1>0, <1>2 DEF IInv, Known, OneRemoval
  <2>3. TypeOK'
    BY <1>0, <2>1 DEF IInv, TypeOK, Steps, history
  <2>4. AllSound'
    <3>1. \A d \in onDisk : Sound(d) /\ Numbered(d, files + 1)
      BY NewNumber DEF IInv, AllSound
    <3> QED
      BY <1>0, <2>1, <3>1 DEF AllSound, Sound, Numbered
  <2>5. NothingForeignIsLost'
    BY <1>0 DEF IInv, NothingForeignIsLost, Holds, history
  <2>6. Known'
    <3>1. /\ files + 1 \in 1 .. files + 1
          /\ cache # None => cache.id < files + 1 /\ cache.id <= files + 1
      BY <1>0
    <3> QED
      BY <1>0, <2>1, <2>2, <3>1, FileShape DEF Known, WriteSteps, LoadSteps
  <2>7. InOrder' /\ OneRemoval' /\ Settled'
    BY <1>0, <2>1, <2>2 DEF InOrder, OneRemoval, Settled, InPlace, Steps, AfterSync
  <2> QED
    BY <2>3, <2>4, <2>5, <2>6, <2>7 DEF IInv
<1> QED
  BY <1>1, <1>2

(* Filling the intent changes nothing but that it can be read. *)
LEMMA FilledShape ==
    ASSUME TypeOK, dir.intent # None, NEW d \in Dir
    PROVE  /\ Filled(d) \in Dir /\ Filled(d).state = d.state /\ Filled(d).backup = d.backup
           /\ Filled(d).backup_removing = d.backup_removing
           /\ Filled(d).intent_removing = d.intent_removing
           /\ Filled(d).intent # None <=> d.intent # None
           /\ d.intent # None => Filled(d).intent.pred = d.intent.pred
<1>1. CASE d.intent # dir.intent
  BY <1>1 DEF Filled
<1>2. CASE d.intent = dir.intent
  <2> DEFINE i == [d.intent EXCEPT !.whole = TRUE]
  <2>1. d.intent \in Intent
    BY <1>2, DirShape
  <2>2. i \in Intent /\ i.pred = d.intent.pred
    BY <2>1 DEF Intent
  <2>3. Filled(d) = [d EXCEPT !.intent = i]
    BY <1>2 DEF Filled
  <2> HIDE DEF i
  <2>4. /\ [d EXCEPT !.intent = i] \in Dir /\ [d EXCEPT !.intent = i].state = d.state
        /\ [d EXCEPT !.intent = i].backup = d.backup
        /\ [d EXCEPT !.intent = i].backup_removing = d.backup_removing
        /\ [d EXCEPT !.intent = i].intent_removing = d.intent_removing
        /\ [d EXCEPT !.intent = i].intent = i
    BY <2>2 DEF Dir
  <2> QED
    BY <1>2, <2>1, <2>2, <2>3, <2>4, FileShape
<1> QED
  BY <1>1, <1>2

LEMMA FillIntentIInv ==
    ASSUME IInv, FillIntent
    PROVE  IInv'
<1>0. /\ pc = "fill" /\ dir' = Filled(dir) /\ onDisk' = {Filled(d) : d \in onDisk}
      /\ pc' = "intent_filled" /\ UNCHANGED <<cache, writing, command, files, history>>
      /\ TypeOK /\ dir \in Dir /\ dir \in onDisk /\ onDisk \in SUBSET Dir
      /\ dir.intent # None
  BY DEF FillIntent, Goto, IInv, TypeOK, InOrder
<1>1. ASSUME NEW d \in onDisk PROVE Filled(d) \in Dir /\ Sound(Filled(d))
  <2>1. Sound(d)
    BY DEF IInv, AllSound
  <2> QED
    BY <1>0, <2>1, FilledShape DEF Sound, Numbered
<1>2. onDisk' \in SUBSET Dir /\ dir' \in onDisk' /\ \A d \in onDisk' : Sound(d)
  BY <1>0, <1>1
<1>3. TypeOK'
  BY <1>0, <1>2 DEF TypeOK, Steps, AfterSync, history
<1>4. AllSound'
  BY <1>0, <1>2 DEF AllSound, Sound, Numbered
<1>5. /\ dir'.state = dir.state /\ dir'.backup = dir.backup
      /\ dir'.backup_removing = dir.backup_removing
      /\ dir'.intent # None
  BY <1>0, FilledShape
<1>6. NothingForeignIsLost'
  BY <1>0, <1>5 DEF IInv, NothingForeignIsLost, Holds, StateNames, history
<1>7. Known' /\ InOrder' /\ OneRemoval' /\ Settled'
  BY <1>0, <1>5 DEF IInv, Known, InOrder, OneRemoval, Settled, InPlace,
              WriteSteps, LoadSteps, Steps, AfterSync, Rests
<1> QED
  BY <1>3, <1>4, <1>6, <1>7 DEF IInv

LEMMA UndoIInv ==
    ASSUME IInv, Undo
    PROVE  IInv'
<1>0. /\ pc = "undo" /\ Refuse /\ UNCHANGED <<files, history>> /\ dir \in Dir /\ Sound(dir)
      /\ writing # None /\ cache # None /\ dir.backup # None /\ dir.backup_removing = None
      /\ cache \in File \cup {None} /\ command \in {"none", "run", "found"}
      /\ foreign # None => Holds(dir, foreign)
  BY DEF Undo, IInv, TypeOK, AllSound, Known, InOrder, OneRemoval, NothingForeignIsLost,
         WriteSteps, Steps
<1>1. CASE dir.state # None
  <2>1. UNCHANGED <<dir, onDisk>>
    BY <1>1 DEF Undo, Unchanged
  <2> QED
    BY <1>0, <2>1, RefuseIInv DEF Steps
<1>2. CASE dir.state = None
  <2> DEFINE e == Moved("backup", "state")
  <2>1. Change(e) /\ pc' = "failed" /\ writing' = None /\ UNCHANGED <<cache, command>>
    BY <1>0, <1>2 DEF Undo, Refuse
  <2>2. /\ e \in Dir /\ e.state = Touched(dir.backup) /\ e.backup = None
        /\ e.backup_removing = None /\ e.state # None /\ e.state.id = dir.backup.id
        /\ e.intent = dir.intent /\ e.intent_removing = dir.intent_removing
    BY <1>0, MovedShapes, DirShape, FileShape
  <2> HIDE DEF e
  <2>3. Sound(e)
    BY <1>0, <2>2 DEF Sound, Numbered
  <2>4. foreign # None => Holds(e, foreign)
    BY <1>0, <1>2, <2>2 DEF Holds, StateNames
  <2>5. dir' = e
    BY <2>1 DEF Change
  <2>6. Known' /\ InOrder' /\ OneRemoval' /\ Settled'
    BY <1>0, <2>1, <2>2, <2>5 DEF IInv, Known, InOrder, OneRemoval, Settled, InPlace,
              WriteSteps, LoadSteps, Steps, AfterSync, Rests
  <2> QED
    BY <1>0, <2>1, <2>2, <2>3, <2>4, <2>6, DirectoryChanges DEF Rests
<1> QED
  BY <1>1, <1>2

LEMMA PowerFailsIInv ==
    ASSUME IInv, PowerFails
    PROVE  IInv'
<1>0. /\ dir' \in onDisk /\ onDisk' = {dir'} /\ pc' = "out" /\ cache' = None
      /\ writing' = None /\ command' = "none"
      /\ (foreign' = foreign /\ Holds(dir', foreign)) \/ foreign' = None
      /\ UNCHANGED <<files, acked, intruded>>
  BY DEF PowerFails, Out
<1>1. \A d \in Dir : /\ d.intent # None => d.intent.pred.id # None
                     /\ d.intent_removing # None => d.intent_removing.pred.id # None
  BY DirShape, FileShape
<1>2. TypeOK'
  BY <1>0 DEF IInv, TypeOK, Rests
<1>3. AllSound'
  BY <1>0, <1>1 DEF IInv, TypeOK, AllSound, Sound, Numbered
<1>4. NothingForeignIsLost'
  BY <1>0 DEF NothingForeignIsLost, Holds
<1>5. Known' /\ InOrder' /\ OneRemoval' /\ Settled'
  BY <1>0 DEF IInv, Known, InOrder, OneRemoval, Settled, InPlace,
              WriteSteps, LoadSteps, Steps, AfterSync, Rests
<1> QED
  BY <1>2, <1>3, <1>4, <1>5 DEF IInv

LEMMA IntrudeIInv ==
    ASSUME IInv, Intrude
    PROVE  IInv'
<1> PICK n \in {Stranger, files + 1} :
      /\ Change([dir EXCEPT !.state = [id |-> n, ct |-> 0]])
      /\ files' = (IF n = Stranger THEN files ELSE n) /\ foreign' = n
  BY DEF Intrude
<1> DEFINE f == [id |-> n, ct |-> 0]
           e == [dir EXCEPT !.state = f]
<1>0. /\ Change(e) /\ intruded' = TRUE /\ foreign' = n
      /\ UNCHANGED <<pc, cache, writing, command, acked>>
      /\ dir \in Dir /\ TypeOK /\ AllSound /\ Sound(dir) /\ files \in Nat
      /\ cache # None => Taken(cache) /\ cache.id <= files
  BY DEF Intrude, process, IInv, TypeOK, AllSound, Known
<1>a. /\ n \in Nat /\ files' \in Nat /\ n <= files' /\ files <= files'
      /\ n = 0 \/ n > files
  BY <1>0 DEF Stranger
<1>1. f \in File /\ f.id = n /\ f # None
  BY <1>a, FileShape DEF File
<1>2. /\ e \in Dir /\ e.state = f /\ e.backup = dir.backup
      /\ e.backup_removing = dir.backup_removing
      /\ e.intent = dir.intent /\ e.intent_removing = dir.intent_removing
  BY <1>0, <1>1, NewState
<1>3. f # cache
  <2>1. cache # None => cache.id \in Nat /\ cache.id # n
    BY <1>0, <1>a, FileShape DEF TypeOK, Stranger
  <2> QED
    BY <1>1, <2>1
<1> HIDE DEF e, f
<1>5. dir' = e /\ onDisk' = onDisk \cup {e}
  BY <1>0 DEF Change
<1> DEFINE Later(d) ==
       /\ d.backup_removing # None => d.state # None
       /\ d.intent # None => d.intent.pred.id \notin {Stranger, n}
       /\ d.intent_removing # None => d.intent_removing.pred.id \notin {Stranger, n}
       /\ Numbered(d, files')
<1>4. ASSUME NEW d \in Dir, Sound(d) PROVE Later(d)
  <2>1. /\ d.state # None => d.state.id \in Nat
        /\ d.backup # None => d.backup.id \in Nat
        /\ d.backup_removing # None => d.backup_removing.id \in Nat
        /\ d.intent # None => d.intent.pred.id \in Nat
        /\ d.intent_removing # None => d.intent_removing.pred.id \in Nat
    BY DirShape, FileShape
  <2> QED
    BY <1>0, <1>a, <1>4, <2>1 DEF Sound, Numbered, Stranger
<1>6. Later(e)
  <2>1. Later(dir)
    BY <1>0, <1>4
  <2> QED
    BY <1>a, <1>1, <1>2, <2>1 DEF Numbered
<1>7. AllSound' /\ TypeOK'
  <2>1. \A d \in onDisk' : Later(d)
    BY <1>0, <1>4, <1>5, <1>6 DEF TypeOK, AllSound
  <2>2. AllSound'
    BY <1>0, <2>1 DEF AllSound, Sound, Numbered
  <2> QED
    BY <1>0, <1>a, <1>2, <1>5, <2>2 DEF TypeOK
<1>8. NothingForeignIsLost'
  BY <1>0, <1>1, <1>2, <1>5 DEF NothingForeignIsLost, Holds, StateNames
<1>c. /\ cache # None => cache.id \notin {Stranger, n} /\ cache.id <= files'
      /\ dir.backup # None /\ Taken(dir.backup) => dir.backup.id \notin {Stranger, n}
      /\ dir.backup_removing # None /\ Taken(dir.backup_removing) =>
           dir.backup_removing.id \notin {Stranger, n}
  BY <1>0, <1>a, DirShape, FileShape DEF TypeOK, Sound, Numbered, Stranger
<1>d. dir'.state = f /\ dir'.backup = dir.backup /\ dir'.backup_removing = dir.backup_removing
      /\ dir'.intent = dir.intent /\ dir'.intent_removing = dir.intent_removing
  BY <1>2, <1>5
<1>e. foreign' = n /\ files' \in Nat /\ UNCHANGED process
  BY <1>0, <1>a DEF process
<1>9. Known'
  <2>1. writing # None => writing \in 1 .. files'
    BY <1>0, <1>a DEF IInv, Known, TypeOK
  <2> QED
    BY <1>1, <1>c, <1>d, <1>e, <2>1 DEF IInv, Known, process, WriteSteps, LoadSteps
<1>10. InOrder'
  <2>1. /\ pc \in {"verify_aside", "undo", "publish"} => dir.backup # None
        /\ pc = "fill" => dir.intent # None
        /\ pc = "publish" => dir.backup.id = cache.id
        /\ pc \in {"publish", "verify_published", "published", "drop_backup"} =>
             dir.backup # None /\ Taken(dir.backup)
        /\ pc = "unlink_backup" =>
             dir.backup_removing # None /\ Taken(dir.backup_removing)
    BY DEF IInv, InOrder
  <2> QED
    BY <1>1, <1>c, <1>d, <1>e, <2>1 DEF InOrder, process
<1>11. OneRemoval'
  BY <1>3, <1>d, <1>e DEF IInv, OneRemoval, process, Steps, AfterSync
<1>12. Settled'
  <2>1. writing # None => writing # n
    BY <1>0, <1>a DEF IInv, Known
  <2> QED
    BY <1>1, <1>d, <1>e, <2>1 DEF Settled, process
<1> QED
  BY <1>7, <1>8, <1>9, <1>10, <1>11, <1>12 DEF IInv

LEMMA InitIInv == Init => IInv
<1> SUFFICES ASSUME Init PROVE IInv
  OBVIOUS
<1>1. TypeOK
  <2>1. dir \in Dir
    BY DEF Init, Dir
  <2> QED
    BY <2>1 DEF Init, TypeOK, Rests
<1>2. AllSound /\ NothingForeignIsLost
  BY DEF Init, AllSound, Sound, Numbered, NothingForeignIsLost
<1>3. Known /\ InOrder /\ OneRemoval /\ Settled
  BY DEF Init, IInv, Known, InOrder, OneRemoval, Settled, InPlace,
              WriteSteps, LoadSteps, Steps, AfterSync, Rests
<1> QED
  BY <1>1, <1>2, <1>3 DEF IInv

LEMMA StepIInv == IInv /\ [Next]_vars => IInv'
<1> SUFFICES ASSUME IInv, [Next]_vars PROVE IInv'
  OBVIOUS
<1>1. CASE Load
  BY <1>1, QuietIInv, RestoreIntentIInv, RestoreBackupIInv, ExamineIInv, RollBackIInv,
     DropBackupIInv, UnlinkBackupIInv, DropIntentIInv, UnlinkIntentIInv, ReadIInv DEF Load
<1>2. CASE Write
  BY <1>2, CreateIInv, BeginWriteIInv, CreateIntentIInv, FillIntentIInv, CheckIInv,
     MoveAsideIInv, VerifyAsideIInv, UndoIInv, PublishIInv, VerifyPublishedIInv, QuietIInv
     DEF Write
<1>3. CASE Sync
  BY <1>3, SyncIInv
<1>4. CASE World
  BY <1>4, QuietIInv, PowerFailsIInv, IntrudeIInv DEF World
<1>5. CASE UNCHANGED vars
  <2>1. UNCHANGED <<dir, onDisk, pc, cache, writing, command, files, history>>
    BY <1>5 DEF vars, process
  <2>2. Known' /\ InOrder' /\ OneRemoval' /\ Settled'
    BY <2>1 DEF IInv, Known, InOrder, OneRemoval, Settled, Value
  <2> QED
    BY <2>1, <2>2, ProcessMoves DEF IInv, TypeOK
<1> QED
  BY <1>1, <1>2, <1>3, <1>4, <1>5 DEF Next

-----------------------------------------------------------------------------
(* A lab whose directory no stranger wrote into. *)

LEMMA CalmHere ==
    ASSUME IInv, Calm, ~intruded
    PROVE  /\ dir \in Dir /\ Tidy(dir) /\ Placed /\ Known /\ InOrder /\ OneRemoval
           /\ dir.state \in File \cup {None} /\ dir.backup \in File \cup {None}
           /\ dir.backup_removing \in File \cup {None}
           /\ dir.intent \in Intent \cup {None} /\ dir.intent_removing \in Intent \cup {None}
           /\ cache \in File \cup {None} /\ writing \in Nat \cup {None}
           /\ files \in Nat
<1>1. dir \in Dir /\ Tidy(dir)
  BY DEF IInv, TypeOK, Calm
<1> QED
  BY <1>1, DirShape DEF IInv, TypeOK, Calm

(* The numbers of the files and what an intent says of them. *)
LEMMA IntentShape ==
    ASSUME NEW i \in Intent
    PROVE  /\ i # None /\ i.pred \in File /\ i.pred # None /\ i.pred.id \in Nat /\ i.succ \in Nat
           /\ i.whole \in BOOLEAN
BY NoneAssumption DEF File, Intent

(* Filling an intent changes nothing but that it can be read. *)
LEMMA FilledIntent ==
    \A i \in Intent : [i EXCEPT !.whole = TRUE] = [pred |-> i.pred, succ |-> i.succ, whole |-> TRUE]
<1> SUFFICES ASSUME NEW i \in Intent
             PROVE  [i EXCEPT !.whole = TRUE] = [pred |-> i.pred, succ |-> i.succ, whole |-> TRUE]
  OBVIOUS
<1> DEFINE k == [i EXCEPT !.whole = TRUE]
<1>1. k \in Intent /\ k.pred = i.pred /\ k.succ = i.succ /\ k.whole = TRUE
  BY DEF Intent
<1> HIDE DEF k
<1>2. k = [pred |-> k.pred, succ |-> k.succ, whole |-> k.whole]
  BY <1>1 DEF Intent
<1>3. k = [pred |-> i.pred, succ |-> i.succ, whole |-> TRUE]
  BY <1>1, <1>2
<1> QED
  BY <1>3 DEF k

(* A step that changes no file has only the places to establish. *)
LEMMA CalmMoves ==
    ASSUME Calm, UNCHANGED <<dir, onDisk, intruded>>, ~intruded => Placed'
    PROVE  Calm'
BY DEF Calm, Tidy, Ours, Announced

(* A step that changes the directory has the new directory to show tidy. *)
LEMMA CalmChanges ==
    ASSUME Calm, NEW d, Change(d), UNCHANGED intruded, ~intruded => Tidy(d) /\ Placed'
    PROVE  Calm'
BY DEF Calm, Change, Tidy, Ours, Announced

(* A refused load or write, or one whose call fails, changes no file. *)
LEMMA StopsCalm ==
    ASSUME IInv, Calm, pc \in Steps \cup {"absent"}, UNCHANGED <<dir, onDisk, intruded>>,
           \/ Refuse
           \/ CallFails
           \/ pc' = "refused" /\ UNCHANGED <<cache, writing>>
    PROVE  Calm'
<1>1. ASSUME ~intruded PROVE Placed'
  <2>1. \/ pc' \in {"refused", "out"}
        \/ pc' = "failed" /\ cache' = cache /\ writing # None
    BY DEF Refuse, Goto, CallFails
  <2>2. writing # None /\ dir.state = cache => dir.intent_removing = None
    <3> SUFFICES ASSUME writing # None, dir.state = cache PROVE dir.intent_removing = None
      OBVIOUS
    <3>1. pc \notin {"restore_intent", "absent"}
      BY CalmHere, <1>1 DEF Known, LoadSteps
    <3>2. pc # "unlink_intent"
      <4> SUFFICES ASSUME pc = "unlink_intent" PROVE FALSE
        OBVIOUS
      <4>1. dir.state # None /\ dir.state.id = writing
        BY CalmHere, <1>1 DEF Placed, Ending, InOrder, InPlace
      <4>2. cache # None => cache.id < writing /\ cache.id \in Nat
        BY CalmHere, <1>1, FileShape DEF Known
      <4> QED
        BY <4>1, <4>2
    <3> QED
      BY <3>1, <3>2, <1>1, CalmHere DEF Placed
  <2>3. UNCHANGED dir
    OBVIOUS
  <2> QED
    BY <2>1, <2>2, <2>3 DEF Placed, Nothing, Bound, Unpublished, Published, BeforeMove,
       AfterMove, AfterPublish, Ending, Steps, AfterSync
<1> QED
  BY <1>1, CalmMoves

(* The steps between two operations change no file and are nowhere in a write. *)
LEMMA QuietCalm ==
    ASSUME IInv, Calm, ~intruded, Run \/ Recover \/ Enter \/ Leave \/ Kill
    PROVE  Calm'
<1>1. /\ UNCHANGED <<dir, onDisk, intruded>>
      /\ pc' \in {"out", "missing", "restore_intent"}
  BY DEF Run, Recover, Enter, Leave, Kill, Out, Goto, Rests, history
<1>2. Placed'
  BY <1>1 DEF Placed, Nothing, Bound, Unpublished, Published, BeforeMove, AfterMove,
     AfterPublish, Ending, Steps, AfterSync
<1> QED
  BY <1>1, <1>2, CalmMoves

(* A sync leaves the directory tidy, and the next step finds what it needs. *)
LEMMA SyncCalm ==
    ASSUME IInv, Calm, ~intruded, Sync
    PROVE  Calm'
<1>1. /\ onDisk' = {dir} /\ UNCHANGED <<dir, intruded, cache, writing>>
      /\ \/ pc = "restored_intent" /\ pc' = "restore_backup"
         \/ pc = "restored_backup" /\ pc' = "examine"
         \/ pc = "intent_filled" /\ pc' = "check"
         \/ pc = "published" /\ pc' = "drop_backup"
         \/ pc = "backup_gone" /\ pc' = "drop_intent"
         \/ pc = "rolled_back" /\ pc' = "drop_intent"
         \/ pc = "intent_gone" /\ pc' = "read"
         \/ pc = "created" /\ pc' = "read"
  BY DEF Sync, Goto, AfterSync, history
<1>2. Placed'
  <2>1. CASE pc \in {"restored_intent", "restored_backup"}
    BY <1>1, <2>1, CalmHere DEF Placed, Nothing, Bound, Unpublished, Published, BeforeMove,
       AfterMove, AfterPublish, Ending, Steps, AfterSync
  <2>2. CASE pc \in {"intent_filled", "published", "backup_gone"}
    BY <1>1, <2>2, CalmHere DEF Placed, Nothing, Bound, Unpublished, Published, BeforeMove,
       AfterMove, AfterPublish, Ending, Steps, AfterSync
  <2>3. CASE pc \in {"rolled_back", "intent_gone", "created"}
    BY <1>1, <2>3, CalmHere DEF Known, LoadSteps, Placed, Nothing, Bound, Unpublished,
       Published, BeforeMove, AfterMove, AfterPublish, Ending, Steps, AfterSync
  <2> QED
    BY <1>1, <2>1, <2>2, <2>3
<1>3. Tidy(dir)'
  BY <1>1, CalmHere DEF Tidy, Ours, Announced
<1> QED
  BY <1>1, <1>2, <1>3 DEF Calm

LEMMA RestoreIntentCalm ==
    ASSUME IInv, Calm, ~intruded, RestoreIntent
    PROVE  Calm'
<1>1. pc = "restore_intent" /\ UNCHANGED intruded
  BY DEF RestoreIntent, history
<1>2. CASE dir.intent_removing # None /\ dir.intent = None
  <2> DEFINE e == Moved("intent_removing", "intent")
  <2>1. Change(e) /\ pc' = "restored_intent" /\ UNCHANGED <<cache, writing>>
    BY <1>1, <1>2 DEF RestoreIntent, Rename, Goto
  <2>2. /\ e \in Dir
        /\ e.state = dir.state
        /\ e.backup = dir.backup
        /\ e.backup_removing = dir.backup_removing
        /\ e.intent = dir.intent_removing /\ e.intent_removing = None
    BY <1>1, <1>2, MovedShapes, CalmHere
  <2> HIDE DEF e
  <2>3. Tidy(e)
    BY <1>1, <1>2, <2>2, CalmHere, IntentShape, FileShape DEF Tidy, Ours, Announced, Known,
       InOrder, OneRemoval, InPlace, WriteSteps, LoadSteps, Placed, Nothing, Bound,
       Unpublished, Published, BeforeMove, AfterMove, AfterPublish, Ending, Steps, AfterSync
  <2>4. Placed'
    BY <1>1, <1>2, <2>1, <2>2, <2>3, CalmHere, IntentShape, FileShape DEF Change, Tidy,
       Announced, Known, InOrder, OneRemoval, InPlace, WriteSteps, LoadSteps, Placed, Nothing,
       Bound, Unpublished, Published, BeforeMove, AfterMove, AfterPublish, Ending, Steps,
       AfterSync
  <2> QED
    BY <1>1, <2>1, <2>3, <2>4, CalmChanges
<1>3. CASE dir.intent_removing # None /\ dir.intent # None
  <2>1. Unchanged /\ Refuse
    BY <1>1, <1>3 DEF RestoreIntent, Rename
  <2> QED
    BY <1>1, <2>1, StopsCalm DEF Unchanged, Steps, AfterSync
<1>4. CASE dir.intent_removing = None
  <2>1. UNCHANGED <<dir, onDisk, cache, writing>> /\ pc' = "restore_backup"
    BY <1>1, <1>4 DEF RestoreIntent, Unchanged, Goto
  <2>2. Placed'
    BY <1>1, <1>4, <2>1, CalmHere, IntentShape, FileShape DEF OneRemoval, Placed, Nothing,
       Bound, Unpublished, Published, BeforeMove, AfterMove, AfterPublish, Ending, Steps,
       AfterSync
  <2> QED
    BY <1>1, <2>1, <2>2, CalmMoves
<1> QED
  BY <1>1, <1>2, <1>3, <1>4 DEF RestoreIntent

LEMMA RestoreBackupCalm ==
    ASSUME IInv, Calm, ~intruded, RestoreBackup
    PROVE  Calm'
<1>1. pc = "restore_backup" /\ UNCHANGED intruded
  BY DEF RestoreBackup, history
<1>2. CASE dir.backup_removing # None /\ dir.backup = None
  <2> DEFINE e == Moved("backup_removing", "backup")
  <2>1. Change(e) /\ pc' = "restored_backup" /\ UNCHANGED <<cache, writing>>
    BY <1>1, <1>2 DEF RestoreBackup, Rename, Goto
  <2>2. /\ e \in Dir
        /\ e.state = dir.state
        /\ e.intent = dir.intent
        /\ e.intent_removing = dir.intent_removing
        /\ e.backup = dir.backup_removing /\ e.backup_removing = None
    BY <1>1, <1>2, MovedShapes, CalmHere
  <2> HIDE DEF e
  <2>3. Tidy(e)
    BY <1>1, <1>2, <2>2, CalmHere, IntentShape, FileShape DEF Tidy, Ours, Announced, Known,
       InOrder, OneRemoval, InPlace, WriteSteps, LoadSteps, Placed, Nothing, Bound,
       Unpublished, Published, BeforeMove, AfterMove, AfterPublish, Ending, Steps, AfterSync
  <2>4. Placed'
    BY <1>1, <1>2, <2>1, <2>2, <2>3, CalmHere, IntentShape, FileShape DEF Change, Tidy,
       Announced, Known, InOrder, OneRemoval, InPlace, WriteSteps, LoadSteps, Placed, Nothing,
       Bound, Unpublished, Published, BeforeMove, AfterMove, AfterPublish, Ending, Steps,
       AfterSync
  <2> QED
    BY <1>1, <2>1, <2>3, <2>4, CalmChanges
<1>3. CASE dir.backup_removing # None /\ dir.backup # None
  <2>1. Unchanged /\ Refuse
    BY <1>1, <1>3 DEF RestoreBackup, Rename
  <2> QED
    BY <1>1, <2>1, StopsCalm DEF Unchanged, Steps, AfterSync
<1>4. CASE dir.backup_removing = None
  <2>1. UNCHANGED <<dir, onDisk, cache, writing>> /\ pc' = "examine"
    BY <1>1, <1>4 DEF RestoreBackup, Unchanged, Goto
  <2>2. Placed'
    BY <1>1, <1>4, <2>1, CalmHere, IntentShape, FileShape DEF OneRemoval, Placed, Nothing,
       Bound, Unpublished, Published, BeforeMove, AfterMove, AfterPublish, Ending, Steps,
       AfterSync
  <2> QED
    BY <1>1, <2>1, <2>2, CalmMoves
<1> QED
  BY <1>1, <1>2, <1>3, <1>4 DEF RestoreBackup

LEMMA RollBackCalm ==
    ASSUME IInv, Calm, ~intruded, RollBack
    PROVE  Calm'
<1>1. pc = "roll_back" /\ UNCHANGED intruded
  BY DEF RollBack, history
<1>2. CASE dir.backup # None /\ dir.state = None
  <2> DEFINE e == Moved("backup", "state")
  <2>1. Change(e) /\ pc' = "rolled_back" /\ UNCHANGED <<cache, writing>>
    BY <1>1, <1>2 DEF RollBack, Rename, Goto
  <2>2. /\ e \in Dir
        /\ e.backup_removing = dir.backup_removing
        /\ e.intent = dir.intent
        /\ e.intent_removing = dir.intent_removing
        /\ e.backup = None /\ e.state # None /\ e.state.id = dir.backup.id
    BY <1>1, <1>2, MovedShapes, CalmHere, FileShape
  <2> HIDE DEF e
  <2>3. Tidy(e)
    BY <1>1, <1>2, <2>2, CalmHere, IntentShape, FileShape DEF Tidy, Ours, Announced, Known,
       InOrder, OneRemoval, InPlace, WriteSteps, LoadSteps, Placed, Nothing, Bound,
       Unpublished, Published, BeforeMove, AfterMove, AfterPublish, Ending, Steps, AfterSync
  <2>4. Placed'
    BY <1>1, <1>2, <2>1, <2>2, <2>3, CalmHere, IntentShape, FileShape DEF Change, Tidy,
       Announced, Known, InOrder, OneRemoval, InPlace, WriteSteps, LoadSteps, Placed, Nothing,
       Bound, Unpublished, Published, BeforeMove, AfterMove, AfterPublish, Ending, Steps,
       AfterSync
  <2> QED
    BY <1>1, <2>1, <2>3, <2>4, CalmChanges
<1>3. CASE dir.backup = None \/ dir.state # None
  <2>1. Unchanged /\ Refuse
    BY <1>1, <1>3 DEF RollBack, Rename
  <2> QED
    BY <1>1, <2>1, StopsCalm DEF Unchanged, Steps, AfterSync
<1> QED
  BY <1>1, <1>2, <1>3 DEF RollBack

LEMMA DropBackupCalm ==
    ASSUME IInv, Calm, ~intruded, DropBackup
    PROVE  Calm'
<1>1. pc = "drop_backup" /\ UNCHANGED intruded
  BY DEF DropBackup, history
<1>2. CASE dir.backup # None /\ dir.backup_removing = None
  <2> DEFINE e == Moved("backup", "backup_removing")
  <2>1. Change(e) /\ pc' = "unlink_backup" /\ UNCHANGED <<cache, writing>>
    BY <1>1, <1>2 DEF DropBackup, Rename, Goto
  <2>2. /\ e \in Dir
        /\ e.state = dir.state
        /\ e.intent = dir.intent
        /\ e.intent_removing = dir.intent_removing
        /\ e.backup = None /\ e.backup_removing = dir.backup
    BY <1>1, <1>2, MovedShapes, CalmHere
  <2> HIDE DEF e
  <2>3. Tidy(e)
    BY <1>1, <1>2, <2>2, CalmHere, IntentShape, FileShape DEF Tidy, Ours, Announced, Known,
       InOrder, OneRemoval, InPlace, WriteSteps, LoadSteps, Placed, Nothing, Bound,
       Unpublished, Published, BeforeMove, AfterMove, AfterPublish, Ending, Steps, AfterSync
  <2>4. Placed'
    BY <1>1, <1>2, <2>1, <2>2, <2>3, CalmHere, IntentShape, FileShape DEF Change, Tidy,
       Announced, Known, InOrder, OneRemoval, InPlace, WriteSteps, LoadSteps, Placed, Nothing,
       Bound, Unpublished, Published, BeforeMove, AfterMove, AfterPublish, Ending, Steps,
       AfterSync
  <2> QED
    BY <1>1, <2>1, <2>3, <2>4, CalmChanges
<1>3. CASE dir.backup = None \/ dir.backup_removing # None
  <2>1. Unchanged /\ Refuse
    BY <1>1, <1>3 DEF DropBackup, Rename
  <2> QED
    BY <1>1, <2>1, StopsCalm DEF Unchanged, Steps, AfterSync
<1> QED
  BY <1>1, <1>2, <1>3 DEF DropBackup

LEMMA UnlinkBackupCalm ==
    ASSUME IInv, Calm, ~intruded, UnlinkBackup
    PROVE  Calm'
<1>1. pc = "unlink_backup" /\ UNCHANGED intruded
  BY DEF UnlinkBackup, history
<1>2. CASE TRUE
  <2> DEFINE e == [dir EXCEPT !.backup_removing = None]
  <2>1. Change(e) /\ pc' = "backup_gone" /\ UNCHANGED <<cache, writing>>
    BY <1>1, <1>2 DEF UnlinkBackup, Rename, Goto
  <2>2. /\ e \in Dir
        /\ e.state = dir.state
        /\ e.backup = dir.backup
        /\ e.intent = dir.intent
        /\ e.intent_removing = dir.intent_removing
        /\ e.backup_removing = None
    BY <1>1, <1>2, CalmHere DEF Dir
  <2> HIDE DEF e
  <2>3. Tidy(e)
    BY <1>1, <1>2, <2>2, CalmHere, IntentShape, FileShape DEF Tidy, Ours, Announced, Known,
       InOrder, OneRemoval, InPlace, WriteSteps, LoadSteps, Placed, Nothing, Bound,
       Unpublished, Published, BeforeMove, AfterMove, AfterPublish, Ending, Steps, AfterSync
  <2>4. Placed'
    BY <1>1, <1>2, <2>1, <2>2, <2>3, CalmHere, IntentShape, FileShape DEF Change, Tidy,
       Announced, Known, InOrder, OneRemoval, InPlace, WriteSteps, LoadSteps, Placed, Nothing,
       Bound, Unpublished, Published, BeforeMove, AfterMove, AfterPublish, Ending, Steps,
       AfterSync
  <2> QED
    BY <1>1, <2>1, <2>3, <2>4, CalmChanges
<1> QED
  BY <1>1, <1>2 DEF UnlinkBackup

LEMMA DropIntentCalm ==
    ASSUME IInv, Calm, ~intruded, DropIntent
    PROVE  Calm'
<1>1. pc = "drop_intent" /\ UNCHANGED intruded
  BY DEF DropIntent, history
<1>2. CASE dir.intent # None /\ dir.intent_removing = None
  <2> DEFINE e == Moved("intent", "intent_removing")
  <2>1. Change(e) /\ pc' = "unlink_intent" /\ UNCHANGED <<cache, writing>>
    BY <1>1, <1>2 DEF DropIntent, Rename, Goto
  <2>2. /\ e \in Dir
        /\ e.state = dir.state
        /\ e.backup = dir.backup
        /\ e.backup_removing = dir.backup_removing
        /\ e.intent = None /\ e.intent_removing = dir.intent
    BY <1>1, <1>2, MovedShapes, CalmHere
  <2> HIDE DEF e
  <2>3. Tidy(e)
    BY <1>1, <1>2, <2>2, CalmHere, IntentShape, FileShape DEF Tidy, Ours, Announced, Known,
       InOrder, OneRemoval, InPlace, WriteSteps, LoadSteps, Placed, Nothing, Bound,
       Unpublished, Published, BeforeMove, AfterMove, AfterPublish, Ending, Steps, AfterSync
  <2>4. Placed'
    BY <1>1, <1>2, <2>1, <2>2, <2>3, CalmHere, IntentShape, FileShape DEF Change, Tidy,
       Announced, Known, InOrder, OneRemoval, InPlace, WriteSteps, LoadSteps, Placed, Nothing,
       Bound, Unpublished, Published, BeforeMove, AfterMove, AfterPublish, Ending, Steps,
       AfterSync
  <2> QED
    BY <1>1, <2>1, <2>3, <2>4, CalmChanges
<1>3. CASE dir.intent = None \/ dir.intent_removing # None
  <2>1. Unchanged /\ Refuse
    BY <1>1, <1>3 DEF DropIntent, Rename
  <2> QED
    BY <1>1, <2>1, StopsCalm DEF Unchanged, Steps, AfterSync
<1> QED
  BY <1>1, <1>2, <1>3 DEF DropIntent

LEMMA UnlinkIntentCalm ==
    ASSUME IInv, Calm, ~intruded, UnlinkIntent
    PROVE  Calm'
<1>1. pc = "unlink_intent" /\ UNCHANGED intruded
  BY DEF UnlinkIntent, history
<1>2. CASE TRUE
  <2> DEFINE e == [dir EXCEPT !.intent_removing = None]
  <2>1. Change(e) /\ pc' = "intent_gone" /\ UNCHANGED <<cache, writing>>
    BY <1>1, <1>2 DEF UnlinkIntent, Rename, Goto
  <2>2. /\ e \in Dir
        /\ e.state = dir.state
        /\ e.backup = dir.backup
        /\ e.backup_removing = dir.backup_removing
        /\ e.intent = dir.intent
        /\ e.intent_removing = None
    BY <1>1, <1>2, CalmHere DEF Dir
  <2> HIDE DEF e
  <2>3. Tidy(e)
    BY <1>1, <1>2, <2>2, CalmHere, IntentShape, FileShape DEF Tidy, Ours, Announced, Known,
       InOrder, OneRemoval, InPlace, WriteSteps, LoadSteps, Placed, Nothing, Bound,
       Unpublished, Published, BeforeMove, AfterMove, AfterPublish, Ending, Steps, AfterSync
  <2>4. Placed'
    BY <1>1, <1>2, <2>1, <2>2, <2>3, CalmHere, IntentShape, FileShape DEF Change, Tidy,
       Announced, Known, InOrder, OneRemoval, InPlace, WriteSteps, LoadSteps, Placed, Nothing,
       Bound, Unpublished, Published, BeforeMove, AfterMove, AfterPublish, Ending, Steps,
       AfterSync
  <2> QED
    BY <1>1, <2>1, <2>3, <2>4, CalmChanges
<1> QED
  BY <1>1, <1>2 DEF UnlinkIntent

LEMMA MoveAsideCalm ==
    ASSUME IInv, Calm, ~intruded, MoveAside
    PROVE  Calm'
<1>1. pc = "aside" /\ UNCHANGED intruded
  BY DEF MoveAside, history
<1>2. CASE dir.state # None /\ dir.backup = None
  <2> DEFINE e == Moved("state", "backup")
  <2>1. Change(e) /\ pc' = "verify_aside" /\ UNCHANGED <<cache, writing>>
    BY <1>1, <1>2 DEF MoveAside, Rename, Goto
  <2>2. /\ e \in Dir
        /\ e.backup_removing = dir.backup_removing
        /\ e.intent = dir.intent
        /\ e.intent_removing = dir.intent_removing
        /\ e.state = None /\ e.backup # None /\ e.backup.id = dir.state.id
    BY <1>1, <1>2, MovedShapes, CalmHere, FileShape
  <2> HIDE DEF e
  <2>3. Tidy(e)
    <3>1. /\ dir.intent = [pred |-> cache, succ |-> writing, whole |-> TRUE] /\ dir.state = cache
          /\ dir.intent_removing = None /\ dir.backup_removing = None /\ cache \in File
      BY <1>1, <1>2, CalmHere DEF Placed, BeforeMove, OneRemoval, Steps, AfterSync
    <3>2. dir.intent # None /\ dir.intent.pred = cache /\ dir.intent.whole
      <4>1. dir.intent.pred = cache /\ dir.intent.whole = TRUE
        BY <3>1
      <4>2. writing \in Nat
        BY <1>1, CalmHere DEF Known, WriteSteps
      <4> QED
        BY <3>1, <4>1, <4>2, IntentShape DEF Intent
    <3>3. dir.intent.pred.id < dir.intent.succ /\ dir.state.id # Stranger
      BY <1>2, <3>2, CalmHere DEF Tidy, Announced, Ours
    <3> QED
      BY <1>2, <2>2, <3>1, <3>2, <3>3 DEF Tidy, Announced, Ours
  <2>4. Placed'
    BY <1>1, <1>2, <2>1, <2>2, <2>3, CalmHere, IntentShape, FileShape DEF Change, Tidy,
       Announced, Known, InOrder, OneRemoval, InPlace, WriteSteps, LoadSteps, Placed, Nothing,
       Bound, Unpublished, Published, BeforeMove, AfterMove, AfterPublish, Ending, Steps,
       AfterSync
  <2> QED
    BY <1>1, <2>1, <2>3, <2>4, CalmChanges
<1>3. CASE dir.state = None \/ dir.backup # None
  <2>1. Unchanged /\ Refuse
    BY <1>1, <1>3 DEF MoveAside, Rename
  <2> QED
    BY <1>1, <2>1, StopsCalm DEF Unchanged, Steps, AfterSync
<1> QED
  BY <1>1, <1>2, <1>3 DEF MoveAside

LEMMA PublishCalm ==
    ASSUME IInv, Calm, ~intruded, Publish
    PROVE  Calm'
<1>1. pc = "publish" /\ UNCHANGED intruded
  BY DEF Publish, history
<1>2. CASE dir.state = None
  <2> DEFINE e == [dir EXCEPT !.state = [id |-> writing, ct |-> 1]]
  <2>1. Change(e) /\ pc' = "verify_published" /\ UNCHANGED <<cache, writing>>
    BY <1>1, <1>2 DEF Publish, Rename, Goto
  <2>2. /\ e \in Dir
        /\ e.backup = dir.backup
        /\ e.backup_removing = dir.backup_removing
        /\ e.intent = dir.intent
        /\ e.intent_removing = dir.intent_removing
        /\ e.state # None /\ e.state.id = writing
    BY <1>1, <1>2, CalmHere, NewState, FileShape DEF File, Known, WriteSteps
  <2> HIDE DEF e
  <2>3. Tidy(e)
    <3>1. /\ dir.intent = [pred |-> cache, succ |-> writing, whole |-> TRUE]
          /\ dir.intent_removing = None /\ dir.backup_removing = None /\ dir.backup # None
          /\ cache \in File /\ writing \in Nat /\ writing # 0
      BY <1>1, CalmHere DEF Placed, AfterMove, OneRemoval, Steps, AfterSync, InOrder, Known,
         WriteSteps
    <3>2. dir.intent # None /\ dir.intent.succ = writing /\ dir.intent.whole
      <4>1. dir.intent.succ = writing /\ dir.intent.whole = TRUE
        BY <3>1
      <4> QED
        BY <3>1, <4>1, IntentShape DEF Intent
    <3> QED
      BY <1>2, <2>2, <3>1, <3>2, CalmHere DEF Tidy, Announced, Ours, Stranger
  <2>4. Placed'
    BY <1>1, <1>2, <2>1, <2>2, <2>3, CalmHere, IntentShape, FileShape DEF Change, Tidy,
       Announced, Known, InOrder, OneRemoval, InPlace, WriteSteps, LoadSteps, Placed, Nothing,
       Bound, Unpublished, Published, BeforeMove, AfterMove, AfterPublish, Ending, Steps,
       AfterSync
  <2> QED
    BY <1>1, <2>1, <2>3, <2>4, CalmChanges
<1>3. CASE dir.state # None
  <2>1. Unchanged /\ Refuse
    BY <1>1, <1>3 DEF Publish, Rename
  <2> QED
    BY <1>1, <2>1, StopsCalm DEF Unchanged, Steps, AfterSync
<1> QED
  BY <1>1, <1>2, <1>3 DEF Publish

LEMMA CreateIntentCalm ==
    ASSUME IInv, Calm, ~intruded, CreateIntent
    PROVE  Calm'
<1>1. pc = "intent" /\ UNCHANGED intruded
  BY DEF CreateIntent, history
<1>2. CASE dir.intent = None
  <2> DEFINE e == [dir EXCEPT !.intent = [pred |-> cache, succ |-> writing, whole |-> FALSE]]
  <2>1. Change(e) /\ pc' = "fill" /\ UNCHANGED <<cache, writing>>
    BY <1>1, <1>2 DEF CreateIntent, Rename, Goto
  <2>2. /\ e \in Dir
        /\ e.state = dir.state
        /\ e.backup = dir.backup
        /\ e.backup_removing = dir.backup_removing
        /\ e.intent_removing = dir.intent_removing
        /\ e.intent = [pred |-> cache, succ |-> writing, whole |-> FALSE] /\ e.intent # None
    BY <1>1, <1>2, CalmHere, IntentShape DEF Dir, Intent, Known, WriteSteps
  <2> HIDE DEF e
  <2>3. Tidy(e)
    BY <1>1, <1>2, <2>2, CalmHere, IntentShape, FileShape DEF Tidy, Ours, Announced, Known,
       InOrder, OneRemoval, InPlace, WriteSteps, LoadSteps, Placed, Nothing, Bound,
       Unpublished, Published, BeforeMove, AfterMove, AfterPublish, Ending, Steps, AfterSync
  <2>4. Placed'
    BY <1>1, <1>2, <2>1, <2>2, <2>3, CalmHere, IntentShape, FileShape DEF Change, Tidy,
       Announced, Known, InOrder, OneRemoval, InPlace, WriteSteps, LoadSteps, Placed, Nothing,
       Bound, Unpublished, Published, BeforeMove, AfterMove, AfterPublish, Ending, Steps,
       AfterSync
  <2> QED
    BY <1>1, <2>1, <2>3, <2>4, CalmChanges
<1>3. CASE dir.intent # None
  <2>1. Unchanged /\ Refuse
    BY <1>1, <1>3 DEF CreateIntent, Rename
  <2> QED
    BY <1>1, <2>1, StopsCalm DEF Unchanged, Steps, AfterSync
<1> QED
  BY <1>1, <1>2, <1>3 DEF CreateIntent

LEMMA CreateCalm ==
    ASSUME IInv, Calm, ~intruded, Create
    PROVE  Calm'
<1>1. pc = "absent" /\ UNCHANGED intruded
  BY DEF Create, history
<1>2. CASE dir.state = None
  <2> DEFINE e == [dir EXCEPT !.state = [id |-> files + 1, ct |-> 1]]
  <2>1. Change(e) /\ pc' = "created" /\ writing' = files + 1
    BY <1>1, <1>2 DEF Create
  <2>2. /\ e \in Dir
        /\ e.backup = dir.backup
        /\ e.backup_removing = dir.backup_removing
        /\ e.intent = dir.intent
        /\ e.intent_removing = dir.intent_removing
        /\ e.state # None /\ e.state.id = files + 1
    BY <1>1, <1>2, CalmHere, NewState, FileShape DEF File
  <2> HIDE DEF e
  <2>3. Tidy(e)
    <3>1. dir.intent = None /\ dir.intent_removing = None /\ dir.backup = None
          /\ dir.backup_removing = None /\ files + 1 # 0
      BY <1>1, CalmHere DEF Placed, Nothing, OneRemoval
    <3> QED
      BY <2>2, <3>1 DEF Tidy, Ours, Announced, Stranger
  <2>4. Placed'
    BY <1>1, <1>2, <2>1, <2>2, <2>3, CalmHere, IntentShape, FileShape DEF Change, Placed,
       Nothing, Bound, Unpublished, Published, BeforeMove, AfterMove, AfterPublish, Ending,
       Steps, AfterSync
  <2> QED
    BY <1>1, <2>1, <2>3, <2>4, CalmChanges
<1>3. CASE dir.state # None
  <2>1. UNCHANGED <<dir, onDisk, cache, writing>> /\ pc' = "refused"
    BY <1>3 DEF Create, Unchanged, Goto
  <2> QED
    BY <1>1, <2>1, StopsCalm
<1> QED
  BY <1>2, <1>3

LEMMA BeginWriteCalm ==
    ASSUME IInv, Calm, ~intruded, BeginWrite
    PROVE  Calm'
<1>1. pc \in {"ready", "failed"} /\ UNCHANGED <<dir, onDisk, cache, intruded>>
  BY DEF BeginWrite, history
<1>2. \/ dir.state = cache /\ pc' = "intent"
      \/ dir.state # cache /\ pc' = "failed"
  BY DEF BeginWrite
<1>3. Placed'
  BY <1>1, <1>2, CalmHere DEF Placed, Nothing, Bound, Unpublished, Published, BeforeMove,
     AfterMove, AfterPublish, Ending, Steps, AfterSync
<1> QED
  BY <1>1, <1>3, CalmMoves

LEMMA FillCalm ==
    ASSUME IInv, Calm, ~intruded, FillIntent
    PROVE  Calm'
<1>1. /\ pc = "fill" /\ UNCHANGED <<intruded, cache, writing>> /\ pc' = "intent_filled"
      /\ dir' = Filled(dir) /\ onDisk' = {Filled(d) : d \in onDisk}
  BY DEF FillIntent, Goto, history
<1>2. dir.intent = [pred |-> cache, succ |-> writing, whole |-> FALSE] /\ dir.state = cache
      /\ dir.intent \in Intent /\ writing \in Nat /\ cache \in File
  BY <1>1, CalmHere, IntentShape, FileShape DEF Placed, InOrder, Known, WriteSteps
<1> DEFINE i == [pred |-> cache, succ |-> writing, whole |-> TRUE]
<1>3. i \in Intent /\ i # None
  BY <1>2, IntentShape DEF Intent
<1>4. ASSUME NEW d \in onDisk
      PROVE  /\ d.intent # dir.intent => Filled(d) = d
             /\ d.intent = dir.intent =>
                  /\ Filled(d).intent = i /\ Filled(d).state = d.state
                  /\ Filled(d).backup = d.backup /\ Filled(d).backup_removing = d.backup_removing
                  /\ Filled(d).intent_removing = d.intent_removing
  <2>1. d \in Dir
    BY DEF IInv, TypeOK
  <2>2. [dir.intent EXCEPT !.whole = TRUE] = i
    <3>1. \A j \in Intent : [j EXCEPT !.whole = TRUE] = [pred |-> j.pred, succ |-> j.succ, whole |-> TRUE]
      BY FilledIntent
    <3>2. dir.intent.pred = cache /\ dir.intent.succ = writing
      BY <1>2
    <3> QED
      BY <1>2, <3>1, <3>2
  <2> HIDE DEF i
  <2> QED
    BY <2>1, <2>2, <1>2 DEF Filled, Dir
<1>5. ASSUME NEW d \in onDisk PROVE Tidy(Filled(d))
  <2>1. Tidy(d)
    BY DEF Calm
  <2>2. CASE d.intent # dir.intent
    BY <1>4, <2>1, <2>2
  <2>3. CASE d.intent = dir.intent
    <3>1. /\ i.pred = d.intent.pred /\ i.succ = d.intent.succ /\ i.whole = TRUE
          /\ d.intent # None /\ ~d.intent.whole
      <4>1. d.intent = [pred |-> cache, succ |-> writing, whole |-> FALSE] /\ d.intent \in Intent
        BY <1>2, <2>3
      <4>2. d.intent.pred = cache /\ d.intent.succ = writing /\ d.intent.whole = FALSE
        BY <4>1
      <4> QED
        BY <4>1, <4>2, IntentShape
    <3> HIDE DEF i
    <3> QED
      BY <1>3, <1>4, <2>1, <2>3, <3>1 DEF Tidy, Ours, Announced
  <2> QED
    BY <2>2, <2>3
<1>6. dir \in onDisk
  BY DEF IInv, TypeOK
<1>7. /\ dir'.intent = i /\ dir'.state = dir.state /\ dir'.intent_removing = dir.intent_removing
  BY <1>1, <1>4, <1>6
<1> HIDE DEF i
<1>8. Placed'
  BY <1>1, <1>2, <1>7, CalmHere DEF i, Placed, Nothing, Bound, Unpublished, Published,
     BeforeMove, AfterMove, AfterPublish, Ending, Steps, AfterSync
<1> QED
  BY <1>1, <1>5, <1>8 DEF Calm

LEMMA CheckCalm ==
    ASSUME IInv, Calm, ~intruded, Check
    PROVE  Calm'
<1>1. pc = "check" /\ UNCHANGED <<dir, onDisk, cache, writing, intruded>> /\ pc' = "aside"
  BY CalmHere DEF Check, Goto, history, Unchanged, Placed, BeforeMove
<1>2. Placed'
  BY <1>1, CalmHere DEF Placed, Nothing, Bound, Unpublished, Published, BeforeMove, AfterMove,
     AfterPublish, Ending, Steps, AfterSync
<1> QED
  BY <1>1, <1>2, CalmMoves

(* What was moved aside is the predecessor. *)
LEMMA VerifyAsideCalm ==
    ASSUME IInv, Calm, ~intruded, VerifyAside
    PROVE  Calm'
<1>1. pc = "verify_aside" /\ UNCHANGED <<dir, onDisk, cache, writing, intruded>>
  BY DEF VerifyAside, Goto, history, Unchanged
<1>2. dir.backup.id = cache.id
  <2>1. dir.backup # None /\ dir.intent = [pred |-> cache, succ |-> writing, whole |-> TRUE]
    BY <1>1, CalmHere DEF Placed, AfterMove, InOrder
  <2>2. cache \in File /\ writing \in Nat
    BY <1>1, CalmHere DEF Known, WriteSteps
  <2>3. dir.intent \in Intent /\ dir.intent.pred = cache
    BY <2>1, <2>2 DEF Intent
  <2> QED
    BY <2>1, <2>3, CalmHere, IntentShape DEF Tidy, Announced
<1>3. pc' = "publish"
  BY <1>2 DEF VerifyAside, Goto
<1>4. Placed'
  BY <1>1, <1>3, CalmHere DEF Placed, Nothing, Bound, Unpublished, Published, BeforeMove,
     AfterMove, AfterPublish, Ending, Steps, AfterSync
<1> QED
  BY <1>1, <1>4, CalmMoves

LEMMA VerifyPublishedCalm ==
    ASSUME IInv, Calm, ~intruded, VerifyPublished
    PROVE  Calm'
<1>1. pc = "verify_published" /\ UNCHANGED <<dir, onDisk, intruded>>
  BY DEF VerifyPublished, history, Unchanged
<1>2. CASE Refuse
  BY <1>1, <1>2, StopsCalm DEF Steps
<1>3. CASE Goto("published")
  <2>1. Placed'
    BY <1>1, <1>3, CalmHere DEF Goto, Placed, Nothing, Bound, Unpublished, Published,
       BeforeMove, AfterMove, AfterPublish, Ending, Steps, AfterSync
  <2> QED
    BY <1>1, <2>1, CalmMoves
<1> QED
  BY <1>2, <1>3 DEF VerifyPublished

LEMMA ExamineCalm ==
    ASSUME IInv, Calm, ~intruded, Examine
    PROVE  Calm'
<1>1. pc = "examine" /\ UNCHANGED <<dir, onDisk, intruded>> /\ writing = None
  BY CalmHere DEF Examine, history, Known, LoadSteps
<1>2. CASE Refuse
  BY <1>1, <1>2, StopsCalm DEF Steps
<1>3. CASE \/ Nothing /\ Goto("read")
           \/ Unpublished /\ Goto("roll_back")
           \/ Published /\ Goto("drop_backup")
           \/ OnlyIntent /\ Goto("drop_intent")
  <2>1. Placed'
    BY <1>1, <1>3, CalmHere DEF Goto, OnlyIntent, Placed, Nothing, Bound, Unpublished,
       Published, BeforeMove, AfterMove, AfterPublish, Ending, Steps, AfterSync
  <2> QED
    BY <1>1, <2>1, CalmMoves
<1> QED
  BY <1>2, <1>3 DEF Examine

LEMMA ReadCalm ==
    ASSUME IInv, Calm, ~intruded, Read
    PROVE  Calm'
<1>1. pc = "read" /\ UNCHANGED <<dir, onDisk, intruded>>
  BY DEF Read, Unchanged
<1>2. CASE Refuse
  BY <1>1, <1>2, StopsCalm DEF Steps
<1>3. CASE pc' = "ready" \/ (dir.state = None /\ Goto("absent"))
  <2>1. Placed'
    BY <1>1, <1>3, CalmHere DEF Goto, Placed, Nothing, Bound, Unpublished, Published,
       BeforeMove, AfterMove, AfterPublish, Ending, Steps, AfterSync
  <2> QED
    BY <1>1, <2>1, CalmMoves
<1> QED
  BY <1>2, <1>3 DEF Read

LEMMA PowerFailsCalm ==
    ASSUME IInv, Calm, ~intruded, PowerFails
    PROVE  Calm'
<1>1. dir' \in onDisk /\ onDisk' = {dir'} /\ pc' = "out" /\ UNCHANGED intruded
  BY DEF PowerFails, Out
<1>2. Placed'
  BY <1>1 DEF Placed, Nothing, Bound, Unpublished, Published, BeforeMove, AfterMove,
     AfterPublish, Ending, Steps, AfterSync
<1>3. \A d \in onDisk' : Tidy(d)
  BY <1>1 DEF Calm
<1> QED
  BY <1>2, <1>3 DEF Calm

LEMMA InitCalm == Init => Calm
BY DEF Init, Calm, Tidy, Ours, Announced, Placed, Nothing, Bound, Unpublished, Published,
   BeforeMove, AfterMove, AfterPublish, Ending, Steps, AfterSync

LEMMA NextCalm == IInv /\ Calm /\ [Next]_vars => Calm'
<1> SUFFICES ASSUME IInv, Calm, [Next]_vars PROVE Calm'
  OBVIOUS
<1>1. CASE intruded \/ Intrude
  <2>1. intruded'
    <3>1. CASE Intrude
      BY <3>1 DEF Intrude
    <3>2. CASE ~Intrude
      BY <1>1, <3>2 DEF Next, Load, Write, World, vars, history, Run, Recover, Enter,
         RestoreIntent, RestoreBackup, Examine, RollBack, DropBackup, UnlinkBackup, DropIntent,
         UnlinkIntent, Read, Leave, Create, BeginWrite, CreateIntent, FillIntent, Check,
         MoveAside, VerifyAside, Undo, Publish, VerifyPublished, CallFails, Sync, Kill,
         PowerFails
    <3> QED
      BY <3>1, <3>2
  <2> QED
    BY <2>1 DEF Calm
<1> SUFFICES ASSUME ~intruded, ~Intrude PROVE Calm'
  BY <1>1
<1>2. CASE Load
  BY <1>2, QuietCalm, RestoreIntentCalm, RestoreBackupCalm, ExamineCalm, RollBackCalm,
     DropBackupCalm, UnlinkBackupCalm, DropIntentCalm, UnlinkIntentCalm, ReadCalm DEF Load
<1>3. CASE Write
  <2>1. CallFails => Calm'
    BY StopsCalm DEF CallFails, history
  <2>2. ~Undo
    BY CalmHere DEF Undo, Placed
  <2> QED
    BY <1>3, <2>1, <2>2, CreateCalm, BeginWriteCalm, CreateIntentCalm, FillCalm, CheckCalm,
       MoveAsideCalm, VerifyAsideCalm, PublishCalm, VerifyPublishedCalm DEF Write
<1>4. CASE Sync \/ World
  BY <1>4, SyncCalm, QuietCalm, PowerFailsCalm DEF World
<1>5. CASE UNCHANGED vars
  <2>1. UNCHANGED <<dir, onDisk, intruded, pc, cache, writing, command>>
    BY <1>5 DEF vars, process, history
  <2>2. Placed'
    BY <2>1, CalmHere DEF Placed, Nothing, Bound, Unpublished, Published, BeforeMove,
       AfterMove, AfterPublish, Ending, Steps, AfterSync
  <2> QED
    BY <2>1, <2>2, CalmMoves
<1> QED
  BY <1>2, <1>3, <1>4, <1>5 DEF Next

(* Where a load is refused, and why. *)
LEMMA NextExplained == IInv /\ Calm /\ RefusalsExplained /\ [Next]_vars => RefusalsExplained'
<1> SUFFICES ASSUME IInv, Calm, RefusalsExplained, [Next]_vars, ~intruded'
             PROVE  /\ pc' = "refused" =>
                         TornIntent' \/ HalfRolledBack' \/ (Nothing' /\ command' = "run")
                    /\ pc' = "missing" => Value(dir)' = None \/ Unpublished'
  BY DEF RefusalsExplained
<1> DEFINE Explained ==
      /\ pc' = "refused" => TornIntent' \/ HalfRolledBack' \/ (Nothing' /\ command' = "run")
      /\ pc' = "missing" => Value(dir)' = None \/ Unpublished'
<1>1. ~intruded
  BY DEF Next, Load, Write, World, vars, history, Run, Recover, Enter, RestoreIntent,
         RestoreBackup, Examine, RollBack, DropBackup, UnlinkBackup, DropIntent, UnlinkIntent,
         Read, Leave, Create, BeginWrite, CreateIntent, FillIntent, Check, MoveAside,
         VerifyAside, Undo, Publish, VerifyPublished, CallFails, Sync, Kill, PowerFails, Intrude
<1>2. CASE Recover
  <2>1. pc' # "refused" /\ (pc' = "missing" => dir.state = None) /\ dir' = dir
    BY <1>2 DEF Recover
  <2>2. dir.state = None => Value(dir) = None \/ Unpublished
    BY <1>1, CalmHere, IntentShape, FileShape DEF Tidy, Announced, Value, Unpublished, Bound
  <2> QED
    BY <2>1, <2>2 DEF Value, Unpublished, Bound
<1>3. CASE Examine
  <2>1. /\ pc = "examine" /\ dir' = dir /\ pc' # "missing"
        /\ pc' = "refused" => ~(Nothing \/ Unpublished \/ Published \/ OnlyIntent)
    BY <1>3 DEF Examine, Goto, Refuse
  <2>2. dir.intent_removing = None /\ dir.backup_removing = None
    BY <1>1, <2>1, CalmHere DEF Placed, OneRemoval, Steps
  <2>3. \/ Nothing \/ Unpublished \/ Published \/ OnlyIntent \/ TornIntent \/ HalfRolledBack
    BY <1>1, <2>2, CalmHere, IntentShape, FileShape DEF Tidy, Announced, Nothing, Unpublished,
       Published, Bound, OnlyIntent, TornIntent, HalfRolledBack
  <2> QED
    BY <2>1, <2>3 DEF TornIntent, HalfRolledBack, Bound
<1>4. CASE Read
  <2>1. pc = "read" /\ dir' = dir /\ pc' # "missing"
    BY <1>4 DEF Read, Unchanged, Goto, Refuse
  <2>2. pc' = "refused" => dir.state # None /\ Refuse /\ writing = None
    BY <1>4 DEF Read, Goto, Refuse
  <2>3. dir.state # None => dir.state.id # Stranger
    BY <1>1, CalmHere DEF Tidy, Ours
  <2>4. pc' = "refused" => command = "run" /\ command' = command
    BY <1>4, <2>2, <2>3 DEF Read, Goto, Refuse
  <2>5. Nothing
    BY <1>1, <2>1, CalmHere DEF Placed
  <2> QED
    BY <2>1, <2>4, <2>5 DEF Nothing
<1>5. CASE RestoreIntent \/ RestoreBackup \/ RollBack \/ DropBackup \/ DropIntent
  <2>1. pc' # "missing"
    BY <1>5 DEF RestoreIntent, RestoreBackup, RollBack, DropBackup, DropIntent, Rename, Goto,
       Refuse
  <2>2. ASSUME RestoreIntent PROVE pc' # "refused"
    <3>1. dir.intent_removing # None => dir.intent = None
      BY <1>1, CalmHere DEF Tidy
    <3> QED
      BY <2>2, <3>1 DEF RestoreIntent, Rename, Goto
  <2>3. ASSUME RestoreBackup PROVE pc' # "refused"
    <3>1. dir.backup_removing # None => dir.backup = None
      BY <1>1, CalmHere, IntentShape, FileShape DEF Tidy, Announced
    <3> QED
      BY <2>3, <3>1 DEF RestoreBackup, Rename, Goto
  <2>4. ASSUME RollBack PROVE pc' # "refused"
    <3>1. dir.backup # None /\ dir.state = None
      BY <1>1, <2>4, CalmHere DEF RollBack, Placed, Unpublished
    <3> QED
      BY <2>4, <3>1 DEF RollBack, Rename, Goto
  <2>5. ASSUME DropBackup PROVE pc' # "refused"
    <3>1. dir.backup # None /\ dir.backup_removing = None
      BY <1>1, <2>5, CalmHere DEF DropBackup, Placed, AfterPublish, Published, OneRemoval, Steps
    <3> QED
      BY <2>5, <3>1 DEF DropBackup, Rename, Goto
  <2>6. ASSUME DropIntent PROVE pc' # "refused"
    <3>1. dir.intent # None /\ dir.intent_removing = None
      BY <1>1, <2>6, CalmHere DEF DropIntent, Placed, Bound, Steps
    <3> QED
      BY <2>6, <3>1 DEF DropIntent, Rename, Goto
  <2> QED
    BY <1>5, <2>1, <2>2, <2>3, <2>4, <2>5, <2>6
<1>6. CASE CreateIntent \/ Check \/ MoveAside \/ Undo \/ Publish \/ VerifyPublished
  <2>1. pc \in WriteSteps
    BY <1>6 DEF CreateIntent, Check, MoveAside, Undo, Publish, VerifyPublished, WriteSteps
  <2>2. writing # None
    BY <1>1, <2>1, CalmHere DEF Known
  <2> QED
    BY <1>6, <2>2 DEF CreateIntent, Check, MoveAside, Undo, Publish, VerifyPublished, Rename,
       Goto, Refuse
<1>7. CASE Create
  <2>1. dir.state = None
    BY <1>1, <1>7, CalmHere DEF Create, Placed
  <2> QED
    BY <1>7, <2>1 DEF Create
<1>8. CASE \/ Run \/ Enter \/ UnlinkBackup \/ UnlinkIntent \/ Leave \/ BeginWrite \/ FillIntent
           \/ VerifyAside \/ CallFails \/ Sync \/ Kill \/ PowerFails
  BY <1>8 DEF Run, Enter, UnlinkBackup, UnlinkIntent, Leave, BeginWrite, FillIntent, VerifyAside,
     CallFails, Sync, Kill, PowerFails, Goto, Out, AfterSync
<1>9. CASE UNCHANGED vars
  BY <1>9 DEF vars, process, history, RefusalsExplained, TornIntent, HalfRolledBack, Nothing,
     Bound, Unpublished, Value
<1>10. CASE Intrude
  BY <1>10 DEF Intrude
<1> QED
  BY <1>2, <1>3, <1>4, <1>5, <1>6, <1>7, <1>8, <1>9, <1>10 DEF Next, Load, Write, World

-----------------------------------------------------------------------------
(* The refinement. *)

LEMMA SameFiles ==
    ASSUME UNCHANGED <<dir, onDisk, acked>>
    PROVE  UNCHANGED Cell!cell
BY DEF Cell!cell, Value

(* A change of the directory that leaves the value what it was. *)
LEMMA SameValue ==
    ASSUME TypeOK, NEW d, Change(d), Value(d) = Value(dir), acked' = acked
    PROVE  UNCHANGED Cell!cell
<1>1. dir' = d /\ onDisk' = onDisk \cup {d} /\ dir \in onDisk
  BY DEF Change, TypeOK
<1>2. {Value(x) : x \in onDisk \cup {d}} = {Value(x) : x \in onDisk}
  BY <1>1
<1>3. /\ Value(dir)' = Value(dir)
      /\ {Value(x) : x \in onDisk}' = {Value(x) : x \in onDisk}
  <2>1. Value(dir)' = Value(d)
    BY <1>1 DEF Value
  <2>2. {Value(x) : x \in onDisk}' = {Value(x) : x \in onDisk \cup {d}}
    BY <1>1 DEF Value
  <2> QED
    BY <1>2, <2>1, <2>2
<1> QED
  BY <1>3 DEF Cell!cell

(* A change that stores a new value. *)
LEMMA NewValue ==
    ASSUME TypeOK, NEW d, Change(d), Value(d) \in Nat \ {Stranger}, Value(dir) # Stranger,
           Value(dir) # None => Value(d) > Value(dir), acked' = acked
    PROVE  Cell!Next
<1>1. dir' = d /\ onDisk' = onDisk \cup {d}
  BY DEF Change
<1>2. Value(dir)' = Value(d)
  BY <1>1 DEF Value
<1>3. {Value(x) : x \in onDisk}' = {Value(x) : x \in onDisk} \cup {Value(d)}
  <2>1. {Value(x) : x \in onDisk}' = {Value(x) : x \in onDisk \cup {d}}
    BY <1>1 DEF Value
  <2> QED
    BY <2>1
<1> QED
  BY <1>2, <1>3 DEF Cell!Next, Cell!Store

(* The renames: what a reader gets moves with the file. *)
LEMMA RenamesStay ==
    ASSUME IInv,
           RestoreIntent \/ RestoreBackup \/ RollBack \/ DropBackup \/ UnlinkBackup
             \/ DropIntent \/ UnlinkIntent \/ MoveAside \/ Undo \/ CreateIntent
    PROVE  UNCHANGED Cell!cell
<1>0. /\ TypeOK /\ dir \in Dir /\ Sound(dir) /\ acked' = acked
      /\ pc = "drop_backup" => dir.state # None
      /\ pc = "undo" => dir.backup # None
  BY DEF IInv, TypeOK, AllSound, InOrder, InPlace, history, RestoreIntent, RestoreBackup,
         RollBack, DropBackup, UnlinkBackup, DropIntent, UnlinkIntent, MoveAside, Undo,
         CreateIntent
<1>1. \/ UNCHANGED <<dir, onDisk>>
      \/ /\ dir.intent_removing # None /\ Change(Moved("intent_removing", "intent"))
      \/ /\ dir.backup_removing # None /\ Change(Moved("backup_removing", "backup"))
      \/ /\ dir.backup # None /\ dir.state = None /\ Change(Moved("backup", "state"))
      \/ /\ pc = "drop_backup" /\ dir.backup # None /\ Change(Moved("backup", "backup_removing"))
      \/ Change([dir EXCEPT !.backup_removing = None])
      \/ dir.intent # None /\ Change(Moved("intent", "intent_removing"))
      \/ Change([dir EXCEPT !.intent_removing = None])
      \/ /\ dir.state # None /\ dir.backup = None /\ Change(Moved("state", "backup"))
      \/ Change([dir EXCEPT !.intent = [pred |-> cache, succ |-> writing, whole |-> FALSE]])
  BY <1>0 DEF RestoreIntent, RestoreBackup, RollBack, DropBackup, UnlinkBackup, DropIntent,
              UnlinkIntent, MoveAside, Undo, CreateIntent, Rename, Unchanged
<1>2. dir.intent_removing # None => Value(Moved("intent_removing", "intent")) = Value(dir)
  BY <1>0, MovedShapes DEF Value
<1>3. dir.backup_removing # None => Value(Moved("backup_removing", "backup")) = Value(dir)
  BY <1>0, MovedShapes DEF Value, Sound
<1>4. dir.backup # None /\ dir.state = None => Value(Moved("backup", "state")) = Value(dir)
  BY <1>0, MovedShapes, DirShape, FileShape DEF Value
<1>5. pc = "drop_backup" /\ dir.backup # None =>
        Value(Moved("backup", "backup_removing")) = Value(dir)
  BY <1>0, MovedShapes DEF Value
<1>6. Value([dir EXCEPT !.backup_removing = None]) = Value(dir)
  BY <1>0 DEF Value, Dir
<1>7. dir.intent # None => Value(Moved("intent", "intent_removing")) = Value(dir)
  BY <1>0, MovedShapes DEF Value
<1>8. Value([dir EXCEPT !.intent_removing = None]) = Value(dir)
  BY <1>0 DEF Value, Dir
<1>9. dir.state # None /\ dir.backup = None => Value(Moved("state", "backup")) = Value(dir)
  BY <1>0, MovedShapes, DirShape, FileShape DEF Value
<1>10. Value([dir EXCEPT !.intent = [pred |-> cache, succ |-> writing, whole |-> FALSE]])
         = Value(dir)
  BY <1>0 DEF Value, Dir
<1> QED
  BY <1>0, <1>1, <1>2, <1>3, <1>4, <1>5, <1>6, <1>7, <1>8, <1>9, <1>10, SameFiles, SameValue

LEMMA FillStays ==
    ASSUME IInv, FillIntent
    PROVE  UNCHANGED Cell!cell
<1>0. /\ pc = "fill" /\ dir' = Filled(dir) /\ onDisk' = {Filled(d) : d \in onDisk}
      /\ TypeOK /\ dir \in onDisk /\ onDisk \in SUBSET Dir /\ dir.intent # None
      /\ acked' = acked
  BY DEF FillIntent, IInv, TypeOK, InOrder, history
<1>1. \A d \in onDisk : Value(Filled(d)) = Value(d)
  BY <1>0, FilledShape DEF Value
<1>2. Value(dir') = Value(dir)
  BY <1>0, <1>1
<1>3. {Value(d) : d \in onDisk'} = {Value(d) : d \in onDisk}
  BY <1>0, <1>1
<1> QED
  BY <1>0, <1>2, <1>3 DEF Cell!cell, Value

(* A file enters: the first one, or the successor of the one set aside. *)
LEMMA EntersAsStore ==
    ASSUME IInv, Create \/ Publish
    PROVE  Cell!Next \/ UNCHANGED Cell!cell
<1>0. TypeOK /\ dir \in Dir /\ acked' = acked /\ files \in Nat
  BY DEF IInv, TypeOK, Create, Publish, history
<1>1. CASE UNCHANGED <<dir, onDisk>>
  BY <1>0, <1>1, SameFiles
<1>2. CASE Create /\ dir.state = None
  <2> DEFINE e == [dir EXCEPT !.state = [id |-> files + 1, ct |-> 1]]
  <2>1. Change(e) /\ Value(dir) = None
    BY <1>2 DEF Create, IInv, InOrder, Value
  <2>2. e.state = [id |-> files + 1, ct |-> 1] /\ [id |-> files + 1, ct |-> 1] \in File
    BY <1>0, NewState DEF File
  <2>3. Value(e) = files + 1
    BY <2>2, FileShape DEF Value
  <2> HIDE DEF e
  <2> QED
    BY <1>0, <2>1, <2>3, FileShape, NewValue DEF Stranger
<1>3. CASE Publish /\ dir.state = None
  <2> DEFINE e == [dir EXCEPT !.state = [id |-> writing, ct |-> 1]]
  <2>1. Change(e)
    BY <1>3 DEF Publish
  <2>2. /\ writing \in 1 .. files /\ cache # None /\ cache.id # Stranger /\ cache.id < writing
        /\ dir.backup # None /\ dir.backup.id = cache.id
    BY <1>3 DEF Publish, IInv, Known, InOrder, WriteSteps
  <2>3. Value(dir) = cache.id
    BY <1>3, <2>2 DEF Value
  <2>4. e.state = [id |-> writing, ct |-> 1] /\ [id |-> writing, ct |-> 1] \in File
    BY <1>0, <2>2, NewState DEF File
  <2>5. Value(e) = writing
    BY <2>4, FileShape DEF Value
  <2>6. writing \in Nat \ {0}
    BY <1>0, <2>2
  <2>7. writing > cache.id
    <3>1. cache.id \in Nat
      BY <1>0, <2>2, FileShape DEF TypeOK
    <3> QED
      BY <2>2, <2>6, <3>1
  <2> HIDE DEF e
  <2> QED
    BY <1>0, <2>1, <2>2, <2>3, <2>5, <2>6, <2>7, NewValue DEF Stranger
<1> QED
  BY <1>1, <1>2, <1>3 DEF Create, Publish, Unchanged

LEMMA ReadRefines ==
    ASSUME IInv, Read
    PROVE  Cell!Next \/ UNCHANGED Cell!cell
<1>1. UNCHANGED <<dir, onDisk>> /\ pc = "read" /\ TypeOK
  BY DEF Read, Unchanged, IInv
<1>2. CASE acked' = acked
  BY <1>1, <1>2, SameFiles
<1>3. CASE /\ dir.state # None /\ dir.state.id # Stranger /\ writing = dir.state.id
           /\ writing # None /\ acked' = writing
  <2>1. \A d \in onDisk : Value(d) = Value(dir)
    BY <1>1, <1>3 DEF IInv, Settled
  <2>2. dir \in onDisk /\ Value(dir) = writing /\ writing # 0
    BY <1>1, <1>3 DEF TypeOK, Value, Stranger
  <2>3. {Value(d) : d \in onDisk} = {Value(dir)}
    BY <2>1, <2>2
  <2>4. /\ Value(dir)' = Value(dir)
        /\ {Value(d) : d \in onDisk}' = {Value(d) : d \in onDisk}
        /\ (IF acked = 0 THEN None ELSE acked)' = Value(dir)
    BY <1>1, <1>3, <2>2 DEF Value
  <2> QED
    BY <1>3, <2>2, <2>3, <2>4 DEF Cell!Next, Cell!Acknowledge
<1> QED
  BY <1>1, <1>2, <1>3 DEF Read

LEMMA WorldRefines ==
    ASSUME IInv, Calm, PowerFails \/ Intrude \/ Sync
    PROVE  Cell!Next
<1>1. CASE PowerFails
  <2>1. dir' \in onDisk /\ onDisk' = {dir'} /\ acked' = acked
    BY <1>1 DEF PowerFails
  <2>2. Value(dir') \in {Value(d) : d \in onDisk} /\ {Value(d) : d \in onDisk'} = {Value(dir')}
    BY <2>1
  <2> QED
    BY <2>1, <2>2 DEF Cell!Next, Cell!PowerFails, Value
<1>2. CASE Intrude
  <2> PICK n \in {Stranger, files + 1} : Change([dir EXCEPT !.state = [id |-> n, ct |-> 0]])
    BY <1>2 DEF Intrude
  <2> DEFINE f == [id |-> n, ct |-> 0]
             e == [dir EXCEPT !.state = f]
  <2>1. Change(e) /\ acked' = acked /\ dir \in Dir /\ ~intruded /\ files \in Nat
    BY <1>2 DEF Intrude, IInv, TypeOK
  <2>2. n \in Nat /\ f \in File /\ f.id = n /\ f # None
    BY <2>1, FileShape DEF File, Stranger
  <2>3. Value(e) = n
    BY <2>1, <2>2, NewState DEF Value
  <2> HIDE DEF e, f
  <2>4. CASE n = Stranger
    <3>1. dir' = e /\ onDisk' = onDisk \cup {e}
      BY <2>1 DEF Change
    <3>2. Value(dir') = Stranger
      BY <2>3, <2>4, <3>1
    <3>3. {Value(d) : d \in onDisk'} = {Value(d) : d \in onDisk} \cup {Stranger}
      BY <2>3, <2>4, <3>1
    <3> QED
      BY <2>1, <3>2, <3>3 DEF Cell!Next, Cell!Intrude, Value
  <2>5. CASE n = files + 1
    <3>1. Ours(dir) /\ Sound(dir) /\ TypeOK
      BY <2>1, CalmHere DEF IInv, AllSound, TypeOK, Tidy
    <3>2. Value(dir) # Stranger /\ (Value(dir) # None => Value(dir) \in Nat /\ Value(dir) <= files)
      BY <2>1, <3>1, DirShape, FileShape DEF Ours, Sound, Numbered, Value, Stranger
    <3> QED
      BY <2>1, <2>2, <2>3, <2>5, <3>1, <3>2, NewValue DEF Stranger
  <2> QED
    BY <2>4, <2>5
<1>3. CASE Sync
  <2>1. dir' = dir /\ onDisk' = {dir} /\ acked' = acked
    BY <1>3 DEF Sync, history
  <2>2. {Value(d) : d \in onDisk'} = {Value(dir)} /\ Value(dir') = Value(dir)
    BY <2>1
  <2> QED
    BY <2>1, <2>2 DEF Cell!Next, Cell!Persist, Value
<1> QED
  BY <1>1, <1>2, <1>3

LEMMA OthersStay ==
    ASSUME Run \/ Recover \/ Enter \/ Examine \/ Leave \/ BeginWrite \/ Check \/ VerifyAside
             \/ VerifyPublished \/ CallFails \/ Kill
    PROVE  UNCHANGED Cell!cell
BY SameFiles DEF Run, Recover, Enter, Examine, Leave, BeginWrite, Check, VerifyAside,
                 VerifyPublished, CallFails, Kill, Unchanged, history

LEMMA InitRefines == Init => Cell!Init
<1> SUFFICES ASSUME Init PROVE Cell!Init
  OBVIOUS
<1>1. Value(dir) = None /\ onDisk = {dir} /\ acked = 0
  BY DEF Init, Value
<1> QED
  BY <1>1 DEF Cell!Init

LEMMA StepRefines == IInv /\ Calm /\ [Next]_vars => [Cell!Next]_(Cell!cell)
<1> SUFFICES ASSUME IInv, Calm, [Next]_vars PROVE Cell!Next \/ UNCHANGED Cell!cell
  OBVIOUS
<1>1. CASE Load
  BY <1>1, RenamesStay, OthersStay, ReadRefines DEF Load
<1>2. CASE Write
  BY <1>2, RenamesStay, OthersStay, EntersAsStore, FillStays DEF Write
<1>3. CASE Sync \/ World
  BY <1>3, WorldRefines, OthersStay DEF World
<1>4. CASE UNCHANGED vars
  BY <1>4, SameFiles DEF vars, history
<1> QED
  BY <1>1, <1>2, <1>3, <1>4 DEF Next

-----------------------------------------------------------------------------
(* Theorems. *)

(* The inductive invariant: where the files of the transaction are when    *)
(* the process gets to each of its steps, and what may have survived.      *)
THEOREM Invariance == Spec => []IInv
<1> QED
  BY InitIInv, StepIInv, PTL DEF Spec

(* Every variable keeps its type. *)
THEOREM TypeCorrect == Spec => []TypeOK
<1>1. IInv => TypeOK
  BY DEF IInv
<1> QED
  BY <1>1, Invariance, PTL

(* A file put in the place of state.json by a writer that takes no lock is *)
(* neither written over nor removed before a load took it for the lab's.   *)
THEOREM StrangersAreKept == Spec => []NothingForeignIsLost
<1>1. IInv => NothingForeignIsLost
  BY DEF IInv
<1> QED
  BY <1>1, Invariance, PTL

(* Which moment of a replacement or a roll-back a directory without a      *)
(* stranger shows.                                                         *)
THEOREM Tidiness == Spec => []Calm
<1> QED
  BY InitCalm, NextCalm, Invariance, PTL DEF Spec

(* Every behaviour of the renames, the intent and the recovery is one of a *)
(* cell that is replaced in one step and durable when acknowledged.        *)
THEOREM Refinement == Spec => ImplementsDurableCell
<1> QED
  BY InitRefines, StepRefines, Invariance, Tidiness, PTL DEF Spec, ImplementsDurableCell,
     Cell!Spec

(* A load that nobody disturbed is refused, and a recovery misses a lab,   *)
(* for the reasons listed and no other, wherever processes died.           *)
THEOREM Refusals == Spec => []RefusalsExplained
<1>1. Init => RefusalsExplained
  BY DEF Init, RefusalsExplained
<1> QED
  BY <1>1, NextExplained, Invariance, Tidiness, PTL DEF Spec
=============================================================================
