---------------------------- MODULE LabStateFile ----------------------------
(* How a lab's state.json is replaced and recovered                        *)
(* (tools/unified_ext_lab/state.py 1894-2897, 3113-3134).                  *)
(*                                                                         *)
(* The successor is written to a temporary file, an intent file names it   *)
(* and its predecessor, the predecessor is renamed to a backup name, the   *)
(* successor to state.json, and backup and intent are removed by way of    *)
(* quarantine names.  No rename replaces a file.  The next process that    *)
(* loads the state finishes or rolls back what it finds.  Processes die,   *)
(* calls fail, the power fails, and a stranger, a program that takes no    *)
(* lock, may put a file of its own in the place of state.json: one that is *)
(* a state of this lab and profile, which a load takes for the lab's, or   *)
(* one that is not.                                                        *)
EXTENDS Naturals, FiniteSets

CONSTANTS None,       \* no such file
          MaxFiles    \* bound: state files ever written

ASSUME NoneAssumption ==
    /\ None \notin [id : Nat, ct : Nat]
    /\ None \notin [pred : [id : Nat, ct : Nat], succ : Nat, whole : BOOLEAN]
    /\ None \notin Nat
ASSUME MaxFilesAssumption == MaxFiles \in Nat

VARIABLES
    dir,        \* the lab's directory: what each name is linked to
    onDisk,     \* the directories a power failure may leave
    pc,         \* the next step of the process that holds the lab's locks
    cache,      \* its _state_identity
    writing,    \* the file it is about to publish, or None while it loads
    command,    \* "none", "run" while it is creating the lab, "found" after
    files,      \* the last state file written, whoever wrote it
    acked,      \* history: the last file whose writer was told so
    intruded,   \* history: the stranger has written
    foreign     \* history: the stranger's file, until a load takes it or
                \* a power failure undoes it; or None

process == <<pc, cache, writing, command>>
history == <<acked, intruded, foreign>>
vars == <<dir, onDisk, process, files, history>>

(* A state file: its number stands for inode and content, ct for the ctime *)
(* that each rename of it moves on.  (What a file is renamed to while it   *)
(* is being removed is compared with no recorded ctime.)                   *)
File == [id : Nat, ct : Nat]
Intent == [pred : File, succ : Nat, whole : BOOLEAN]
Stranger == 0    \* the number of a file that is no state of this lab

StateNames == {"state", "backup", "backup_removing"}
IntentNames == {"intent", "intent_removing"}
Dir == [state : File \cup {None}, backup : File \cup {None},
        backup_removing : File \cup {None},
        intent : Intent \cup {None}, intent_removing : Intent \cup {None}]

Touched(file) == [file EXCEPT !.ct = @ + 1]

(* What follows each fsync of the directory. *)
AfterSync ==
    [restored_intent |-> "restore_backup", restored_backup |-> "examine",
     intent_filled |-> "check", published |-> "drop_backup",
     backup_gone |-> "drop_intent", rolled_back |-> "drop_intent",
     intent_gone |-> "read", created |-> "read"]

Steps ==
    DOMAIN AfterSync \cup
    {"restore_intent", "restore_backup", "examine", "roll_back", "drop_backup",
     "unlink_backup", "drop_intent", "unlink_intent", "read", "intent", "fill",
     "check", "aside", "verify_aside", "undo", "publish", "verify_published"}
Rests == {"out", "missing", "absent", "ready", "failed", "refused"}

TypeOK ==
    /\ dir \in Dir
    /\ onDisk \in SUBSET Dir /\ dir \in onDisk
    /\ pc \in Steps \cup Rests
    /\ cache \in File \cup {None}
    /\ writing \in Nat \cup {None}
    /\ command \in {"none", "run", "found"}
    /\ files \in Nat /\ acked \in Nat
    /\ intruded \in BOOLEAN /\ foreign \in Nat \cup {None}

Init ==
    /\ dir = [state |-> None, backup |-> None, backup_removing |-> None,
              intent |-> None, intent_removing |-> None]
    /\ onDisk = {dir}
    /\ pc = "out" /\ cache = None /\ writing = None /\ command = "none"
    /\ files = 0 /\ acked = 0 /\ intruded = FALSE /\ foreign = None

-----------------------------------------------------------------------------
(* Building blocks. *)

Goto(next) == pc' = next /\ UNCHANGED <<cache, writing, command>>
Out == pc' = "out" /\ cache' = None /\ writing' = None
Change(d) == dir' = d /\ onDisk' = onDisk \cup {d}
Unchanged == UNCHANGED <<dir, onDisk>>

(* InvariantRefusalError: a load ends the command; a write leaves the      *)
(* store with what it had cached.                                          *)
Refuse ==
    IF writing = None THEN Goto("refused")
    ELSE pc' = "failed" /\ writing' = None /\ UNCHANGED <<cache, command>>

(* _rename_noreplace_at, of a file of the transaction.  Only renames       *)
(* between the two names a state file is read under count for ct.          *)
Moved(from, to) ==
    [dir EXCEPT ![to] = IF {from, to} = {"state", "backup"} THEN Touched(dir[from])
                                                            ELSE dir[from],
                ![from] = None]
Rename(from, to, next) ==
    IF dir[from] # None /\ dir[to] = None
    THEN Change(Moved(from, to)) /\ Goto(next)
    ELSE Unchanged /\ Refuse

(* _fsync_directory_descriptor *)
Sync ==
    /\ pc \in DOMAIN AfterSync
    /\ onDisk' = {dir} /\ Goto(AfterSync[pc])
    /\ UNCHANGED <<dir, files, history>>

-----------------------------------------------------------------------------
(* load: _recover_atomic_replacement and the read that follows it. *)

(* A command that creates a lab goes on only where there is no state.json, *)
(* every other one only where there is; both look before they take a lock. *)
Run ==
    /\ pc = "out" /\ command = "none" /\ dir.state = None
    /\ command' = "run"
    /\ UNCHANGED <<dir, onDisk, pc, cache, writing, files, history>>

Recover ==
    /\ pc = "out" /\ command = "none"
    /\ IF dir.state = None THEN pc' = "missing" /\ UNCHANGED command
                           ELSE command' = "found" /\ UNCHANGED pc
    /\ UNCHANGED <<dir, onDisk, cache, writing, files, history>>

Enter ==
    /\ pc = "out" /\ command # "none" /\ Goto("restore_intent")
    /\ UNCHANGED <<dir, onDisk, files, history>>

(* Mutant of RestoreIntent: the intent is put back under the other name.   *)
RestoreIntentAstray ==
    /\ pc = "restore_intent"
    /\ IF dir.intent_removing = None
       THEN Unchanged /\ Goto("restore_backup")
       ELSE Rename("intent_removing", "backup", "restored_intent")
    /\ UNCHANGED <<files, history>>

(* _restore_interrupted_private_removal_at, first for the intent. *)
RestoreIntent ==
    /\ pc = "restore_intent"
    /\ IF dir.intent_removing = None
       THEN Unchanged /\ Goto("restore_backup")
       ELSE Rename("intent_removing", "intent", "restored_intent")
    /\ UNCHANGED <<files, history>>

(* Mutant of RestoreBackup: a removal of the backup is not taken up again. *)
RestoreNoBackup ==
    /\ pc = "restore_backup" /\ Unchanged /\ Goto("examine")
    /\ UNCHANGED <<files, history>>

RestoreBackup ==
    /\ pc = "restore_backup"
    /\ IF dir.backup_removing = None
       THEN Unchanged /\ Goto("examine")
       ELSE Rename("backup_removing", "backup", "restored_backup")
    /\ UNCHANGED <<files, history>>

(* What is to be done about what is there. *)
Nothing == dir.intent = None /\ dir.backup = None
Bound == dir.intent # None /\ dir.intent.whole

Unpublished ==
    /\ Bound /\ dir.backup # None /\ dir.backup.id = dir.intent.pred.id
    /\ dir.state = None
Published ==
    /\ Bound /\ dir.backup # None /\ dir.backup.id = dir.intent.pred.id
    /\ dir.state # None /\ dir.state.id = dir.intent.succ
OnlyIntent ==
    /\ Bound /\ dir.backup = None /\ dir.state # None
    /\ dir.state = dir.intent.pred \/ dir.state.id = dir.intent.succ

Examine ==
    /\ pc = "examine"
    /\ \/ Nothing /\ Goto("read")
       \/ Unpublished /\ Goto("roll_back")
       \/ Published /\ Goto("drop_backup")
       \/ OnlyIntent /\ Goto("drop_intent")
       \/ ~(Nothing \/ Unpublished \/ Published \/ OnlyIntent) /\ Refuse
    /\ UNCHANGED <<dir, onDisk, files, history>>

RollBack ==
    /\ pc = "roll_back" /\ Rename("backup", "state", "rolled_back")
    /\ UNCHANGED <<files, history>>

(* _remove_exact_private_file_at, the end of a recovery and of a write. *)
DropBackup ==
    /\ pc = "drop_backup" /\ Rename("backup", "backup_removing", "unlink_backup")
    /\ UNCHANGED <<files, history>>

UnlinkBackup ==
    /\ pc = "unlink_backup"
    /\ Change([dir EXCEPT !.backup_removing = None]) /\ Goto("backup_gone")
    /\ UNCHANGED <<files, history>>

DropIntent ==
    /\ pc = "drop_intent" /\ Rename("intent", "intent_removing", "unlink_intent")
    /\ UNCHANGED <<files, history>>

UnlinkIntent ==
    /\ pc = "unlink_intent"
    /\ Change([dir EXCEPT !.intent_removing = None]) /\ Goto("intent_gone")
    /\ UNCHANGED <<files, history>>

(* The state is read: what a load returns, and the last check of a write.  *)
(* A load takes whatever is a state of this lab and profile.               *)
Read ==
    /\ pc = "read" /\ Unchanged /\ UNCHANGED <<files, intruded>>
    /\ IF dir.state = None
       THEN Goto("absent") /\ UNCHANGED <<acked, foreign>>
       ELSE IF \/ dir.state.id = Stranger \/ writing \notin {None, dir.state.id}
               \/ writing = None /\ command = "run"    \* it exists already
       THEN Refuse /\ UNCHANGED <<acked, foreign>>
       ELSE /\ pc' = "ready" /\ cache' = dir.state /\ writing' = None
            /\ command' = "found"
            /\ acked' = IF writing = None THEN acked ELSE writing
            /\ foreign' = IF dir.state.id = foreign THEN None ELSE foreign

(* The command lets the locks go, to take them again or to end. *)
Leave ==
    /\ pc \in Rests \ {"out"} /\ Out /\ command' \in {command, "none"}
    /\ UNCHANGED <<dir, onDisk, files, history>>

-----------------------------------------------------------------------------
(* _create and _write. *)

Create ==
    /\ pc = "absent" /\ command = "run" /\ files < MaxFiles
    /\ IF dir.state = None
       THEN /\ Change([dir EXCEPT !.state = [id |-> files + 1, ct |-> 1]])
            /\ files' = files + 1 /\ writing' = files + 1
            /\ pc' = "created" /\ UNCHANGED <<cache, command>>
       ELSE Unchanged /\ Goto("refused") /\ UNCHANGED files
    /\ UNCHANGED history

(* _atomic_replace_at: the temporary file is on the disk. *)
BeginWrite ==
    /\ pc \in {"ready", "failed"} /\ files < MaxFiles
    /\ IF dir.state = cache
       THEN pc' = "intent" /\ writing' = files + 1 /\ files' = files + 1
       ELSE pc' = "failed" /\ UNCHANGED <<writing, files>>
    /\ UNCHANGED <<dir, onDisk, cache, command, history>>

(* The intent file is created under its own name, then filled. *)
CreateIntent ==
    /\ pc = "intent"
    /\ IF dir.intent = None
       THEN /\ Change([dir EXCEPT !.intent =
                          [pred |-> cache, succ |-> writing, whole |-> FALSE]])
            /\ Goto("fill")
       ELSE Unchanged /\ Refuse
    /\ UNCHANGED <<files, history>>

Filled(d) ==
    IF d.intent = dir.intent THEN [d EXCEPT !.intent = [@ EXCEPT !.whole = TRUE]] ELSE d

FillIntent ==
    /\ pc = "fill"
    /\ dir' = Filled(dir) /\ onDisk' = {Filled(d) : d \in onDisk}
    /\ Goto("intent_filled")
    /\ UNCHANGED <<files, history>>

Check ==
    /\ pc = "check" /\ Unchanged
    /\ IF dir.state = cache THEN Goto("aside") ELSE Refuse
    /\ UNCHANGED <<files, history>>

(* Mutant of MoveAside: the predecessor is removed. *)
RemoveFirst ==
    /\ pc = "aside"
    /\ Change([dir EXCEPT !.state = None]) /\ Goto("publish")
    /\ UNCHANGED <<files, history>>

MoveAside ==
    /\ pc = "aside" /\ Rename("state", "backup", "verify_aside")
    /\ UNCHANGED <<files, history>>

VerifyAside ==
    /\ pc = "verify_aside" /\ Unchanged
    /\ Goto(IF dir.backup.id = cache.id THEN "publish" ELSE "undo")
    /\ UNCHANGED <<files, history>>

(* What was moved was not the predecessor: it goes back, unless the place  *)
(* is taken.                                                               *)
Undo ==
    /\ pc = "undo" /\ Refuse
    /\ IF dir.state = None THEN Change(Moved("backup", "state")) ELSE Unchanged
    /\ UNCHANGED <<files, history>>

(* Mutant of Publish: a rename that replaces what is there. *)
PublishOver ==
    /\ pc = "publish"
    /\ Change([dir EXCEPT !.state = [id |-> writing, ct |-> 1]])
    /\ Goto("verify_published")
    /\ UNCHANGED <<files, history>>

Publish ==
    /\ pc = "publish"
    /\ IF dir.state = None
       THEN /\ Change([dir EXCEPT !.state = [id |-> writing, ct |-> 1]])
            /\ Goto("verify_published")
       ELSE Unchanged /\ Refuse
    /\ UNCHANGED <<files, history>>

VerifyPublished ==
    /\ pc = "verify_published" /\ Unchanged
    /\ IF dir.state.id = writing THEN Goto("published") ELSE Refuse
    /\ UNCHANGED <<files, history>>

(* A call of a write fails: the error is raised through it. *)
CallFails ==
    /\ pc \in Steps /\ writing # None
    /\ pc' = (IF cache = None THEN "out" ELSE "failed")
    /\ writing' = None
    /\ UNCHANGED <<dir, onDisk, cache, command, files, history>>

-----------------------------------------------------------------------------
(* The world. *)

Kill ==
    /\ command # "none" /\ Out /\ command' = "none"
    /\ UNCHANGED <<dir, onDisk, files, history>>

Holds(d, file) == \E n \in StateNames : d[n] # None /\ d[n].id = file

PowerFails ==
    /\ dir' \in onDisk /\ onDisk' = {dir'}
    /\ Out /\ command' = "none"
    /\ foreign' = IF Holds(dir', foreign) THEN foreign ELSE None
    /\ UNCHANGED <<files, acked, intruded>>

(* A writer that does not cooperate replaces state.json, once, with what   *)
(* is no state of this lab or with one.                                    *)
Intrude ==
    /\ ~intruded
    /\ \E n \in {Stranger, files + 1} :
         /\ n <= MaxFiles
         /\ Change([dir EXCEPT !.state = [id |-> n, ct |-> 0]])
         /\ files' = (IF n = Stranger THEN files ELSE n)
         /\ foreign' = n
    /\ intruded' = TRUE
    /\ UNCHANGED <<process, acked>>

Load ==
    \/ Run \/ Recover \/ Enter \/ RestoreIntent \/ RestoreBackup \/ Examine \/ RollBack
    \/ DropBackup \/ UnlinkBackup \/ DropIntent \/ UnlinkIntent \/ Read \/ Leave
Write ==
    \/ Create \/ BeginWrite \/ CreateIntent \/ FillIntent \/ Check \/ MoveAside
    \/ VerifyAside \/ Undo \/ Publish \/ VerifyPublished \/ CallFails
World == Kill \/ PowerFails \/ Intrude

Next == Load \/ Write \/ Sync \/ World

Spec == Init /\ [][Next]_vars

-----------------------------------------------------------------------------
(* What the protocol is for. *)

(* What a load of the directory d comes to, when it comes to something.    *)
Value(d) ==
    IF d.state # None THEN d.state.id
    ELSE IF d.backup # None THEN d.backup.id
    ELSE None

(* A file that a writer which takes no lock put in the place of state.json *)
(* is never written over or removed before a load took it for the lab's    *)
(* state (state.py 2347-2351); what is no state of the lab never is.       *)
NothingForeignIsLost == foreign # None => Holds(dir, foreign)

(* A load that nobody disturbed is refused for three reasons only: a       *)
(* command that creates finds the lab; the intent was cut short; or a      *)
(* roll-back was, between its rename and the removal of the intent.  And a *)
(* recovery command misses a lab for one reason only: state.json, the name *)
(* it looks for before it recovers, was moved aside by a process that died *)
(* before it put the successor there.                                      *)
TornIntent == dir.intent # None /\ ~dir.intent.whole
HalfRolledBack ==
    /\ Bound /\ dir.backup = None /\ dir.state # None
    /\ dir.state.id = dir.intent.pred.id /\ dir.state # dir.intent.pred
RefusalsExplained ==
    /\ pc = "refused" /\ ~intruded =>
         TornIntent \/ HalfRolledBack \/ (Nothing /\ command = "run")
    /\ pc = "missing" /\ ~intruded => Value(dir) = None \/ Unpublished

(* The file is one value, replaced in one step, durable when acknowledged. *)
Cell == INSTANCE DurableCell WITH
    Foreign <- Stranger,
    value <- Value(dir),
    survivors <- {Value(d) : d \in onDisk},
    acked <- IF acked = 0 THEN None ELSE acked
ImplementsDurableCell == Cell!Spec
=============================================================================
