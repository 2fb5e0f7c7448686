---------------------------- MODULE LabLifecycle ----------------------------
(* The durable lifecycle of one extension lab                              *)
(* (tools/unified_ext_lab/state.py, lifecycle.py, provider_lifecycle.py,   *)
(* docker_runtime.py and the three command lines).                         *)
(*                                                                         *)
(* The harness drives a container daemon through create, install, test,    *)
(* evidence, logout, destroy, verify and seal.  Each effect is preceded by *)
(* a durable *_PENDING phase, the process may die after any step, the      *)
(* daemon may fail a command it carries out all the same, or carry it out  *)
(* later, and the next process goes on from what the state file says.  A   *)
(* save is one step: LabStateFile models how it is made atomic.            *)
EXTENDS Naturals, Sequences, FiniteSets

CONSTANTS
    Profiles,    \* the execution profiles explored
    MaxFaults,   \* bound: commands and file operations that fail
    MaxCrashes   \* bound: processes that die

ASSUME LabAssumption == MaxFaults \in Nat /\ MaxCrashes \in Nat

VARIABLES
    profile,    \* the lab's execution profile (never changes)
    st,         \* the state file
    daemon,     \* [role -> what the daemon has of it]
    online,     \* the container is attached to the install network
    snapshot,   \* the derived snapshot directory and its identity marker
    evidence,   \* the published manifest's result, or "none"
    pc,         \* the next step of the process that holds the lab's lock
    loc,        \* its local variables
    alive,      \* the command that created the lab still runs
    faults, crashes,
    asked,      \* history: how often the daemon was asked to create a role
    spoiled     \* history: an operation failed or was interrupted

world == <<daemon, online, snapshot, evidence>>
proc == <<pc, loc, alive>>
bounds == <<faults, crashes>>
history == <<asked, spoiled>>
vars == <<profile, st, world, proc, bounds, history>>

Roles == {"container", "volume", "image"}

(* What the command builder of each profile manages and in which order:    *)
(* the fixture's three volumes are one here, the daemon-backed profiles    *)
(* manage one container, by its immutable id.                              *)
CreateOrder ==
    IF profile = "fixture" THEN <<"image", "volume", "container">> ELSE <<"container">>
CleanupOrder ==
    IF profile = "fixture" THEN <<"container", "volume", "image">> ELSE <<"container">>
UsesIds == profile # "fixture"
Identified == profile = "provider"

-----------------------------------------------------------------------------
(* The phases of the state file. *)

PendingStep ==
    [CREATE_PENDING |-> "create", INSTALL_PENDING |-> "install",
     TEST_PENDING |-> "test", EVIDENCE_PENDING |-> "evidence",
     LOGOUT_PENDING |-> "logout", DESTROY_PENDING |-> "destroy",
     VERIFY_CLEAN_PENDING |-> "verify_clean", SEAL_PENDING |-> "seal"]

StableForwardStep ==
    [NEW |-> "create", CREATED |-> "install", INSTALLED |-> "test", TESTED |-> "evidence"]

Transitions ==
    [NEW |-> {"CREATE_PENDING"}, CREATE_PENDING |-> {"CREATED"},
     CREATED |-> {"INSTALL_PENDING"}, INSTALL_PENDING |-> {"INSTALLED"},
     INSTALLED |-> {"TEST_PENDING"}, TEST_PENDING |-> {"TESTED"},
     TESTED |-> {"EVIDENCE_PENDING"}, EVIDENCE_PENDING |-> {"EVIDENCE_CAPTURED"},
     EVIDENCE_CAPTURED |-> {"LOGOUT_PENDING"},
     LOGOUT_PENDING |-> {"LOGOUT_DONE", "LOGOUT_FAILED"},
     LOGOUT_DONE |-> {"DESTROY_PENDING"}, LOGOUT_FAILED |-> {"DESTROY_PENDING"},
     DESTROY_PENDING |-> {"DESTROY_DONE", "DESTROY_FAILED"},
     DESTROY_DONE |-> {"VERIFY_CLEAN_PENDING"},
     DESTROY_FAILED |-> {"VERIFY_CLEAN_PENDING"},
     VERIFY_CLEAN_PENDING |-> {"CLEAN_VERIFIED", "DIRTY"},
     CLEAN_VERIFIED |-> {"SEAL_PENDING"},
     DIRTY |-> {"DESTROY_PENDING", "VERIFY_CLEAN_PENDING"},
     SEAL_PENDING |-> {"PASSED", "FAILED_CLEAN"},
     PASSED |-> {}, FAILED_CLEAN |-> {},
     RECOVERY_REQUIRED |-> {"LOGOUT_PENDING", "DESTROY_PENDING", "VERIFY_CLEAN_PENDING"}]

Phases == DOMAIN Transitions
Steps == {PendingStep[p] : p \in DOMAIN PendingStep}
Terminal == {"PASSED", "FAILED_CLEAN"}
EvidencePhases == {"EVIDENCE_PENDING", "EVIDENCE_CAPTURED", "SEAL_PENDING"} \cup Terminal

StepOf(phase) == IF phase \in DOMAIN PendingStep THEN PendingStep[phase] ELSE "none"

(* LabState.transition: a legal edge, and no evidence once tainted. *)
Movable(s, target) ==
    /\ target \in Transitions[s.phase]
    /\ s.tainted => target \notin EvidencePhases

(* Mutant of Moved: pending_step is left as it was. *)
MovedOnly(s, target) == [s EXCEPT !.phase = target]

Moved(s, target) == [s EXCEPT !.phase = target, !.step = StepOf(target)]
Observed(s, step, outcome) == [s EXCEPT !.ops = @ \cup {<<step, outcome>>}]

(* fail_pending, interrupt_stable_forward and recover_interrupted_state. *)
(* Mutant of Recovering: the interruption is not observed. *)
RecoveringQuietly(s, step) == [s EXCEPT !.phase = "RECOVERY_REQUIRED", !.step = step]

Recovering(s, step) ==
    Observed([s EXCEPT !.phase = "RECOVERY_REQUIRED", !.step = step], step, "failed")
Interrupted(s) == s.phase \in DOMAIN PendingStep \ {"SEAL_PENDING"}

(* A create that may have reached the daemon and whose id is not durable. *)
Unresolved(s) ==
    /\ UsesIds /\ s.step = "create"
    /\ \E i \in DOMAIN CleanupOrder : CleanupOrder[i] \notin s.ids

(* Mutant of NeedsHold: an unresolved creation puts no hold on the lab. *)
NeverHeld(s) == FALSE

NeedsHold(s) == Unresolved(s) /\ ~s.tainted

(* _latest_succeeded, build_manifest and _seal_payload. *)
CleanupObserved(s) ==
    \A step \in {"logout", "destroy", "verify_clean"} : \E o \in s.ops : o[1] = step
AnyFailed(s) == \E o \in s.ops : o[2] = "failed"
Result(s) == IF \A o \in s.ops : o[2] = "succeeded" THEN "passed" ELSE "failed_clean"

(* The driver: the fixture's and the conformance run's _cleanup_and_seal   *)
(* choose the next cleanup method; a provider lab's are single commands in *)
(* any order.                                                              *)
DrivesLogout(s) ==
    Identified \/ s.phase = "EVIDENCE_CAPTURED" \/ s.step \notin {"destroy", "verify_clean"}

(* Mutant of DrivesDestroy: a dirty lab is not destroyed again. *)
DrivesDestroyOnce(s) ==
    Identified \/ s.phase \notin {"RECOVERY_REQUIRED", "DIRTY"} \/ s.step = "destroy"

DrivesDestroy(s) == Identified \/ s.phase # "RECOVERY_REQUIRED" \/ s.step = "destroy"
DrivesVerify(s) ==
    Identified \/ IF s.phase = "RECOVERY_REQUIRED" THEN s.step = "verify_clean"
                                                   ELSE s.phase # "DIRTY"

PCs ==
    {"idle", "command", "inspect", "own", "start", "failing", "connect", "guest",
     "disconnect", "settle", "test", "evidence", "logout", "role", "claim", "remove",
     "ledger", "snapshot", "unlink", "rmdir", "record", "finalize", "destroyed",
     "verify", "publish", "commit"}
Present == snapshot \in {"unmarked", "marked", "opened"}
Fresh == [at |-> 1, bad |-> FALSE, open |-> FALSE, resumed |-> FALSE]

TypeOK ==
    /\ profile \in Profiles
    /\ st \in [phase : Phases, step : Steps \cup {"none"}, tainted : BOOLEAN,
               ids : SUBSET Roles, created : SUBSET Roles, removed : SUBSET Roles,
               ops : SUBSET (Steps \X {"succeeded", "failed", "skipped"}),
               draft : BOOLEAN, intent : {"none", "passed", "failed_clean"},
               base : {"none", "unbound", "bound", "removing", "removed"}]
    /\ st.removed \subseteq st.created
    /\ st.phase \in DOMAIN PendingStep => st.step = PendingStep[st.phase]
    /\ st.phase = "RECOVERY_REQUIRED" => st.step \in Steps \ {"seal"}
    /\ (st.intent # "none") <=> st.phase \in {"SEAL_PENDING"} \cup Terminal
    /\ st.intent # "none" => st.draft
    /\ daemon \in [Roles -> {"absent", "coming", "present"}]
    /\ online \in BOOLEAN
    /\ snapshot \in {"absent", "unmarked", "marked", "opened", "tomb"}
    /\ evidence \in {"none", "passed", "failed_clean"}
    /\ pc \in PCs
    /\ loc \in [at : 1..4, bad : BOOLEAN, open : BOOLEAN, resumed : BOOLEAN]
    /\ alive \in BOOLEAN
    /\ faults \in 0..MaxFaults /\ crashes \in 0..MaxCrashes
    /\ asked \in [Roles -> Nat] /\ spoiled \in BOOLEAN

Init ==
    /\ profile \in Profiles
    /\ st = [phase |-> "NEW", step |-> "none", tainted |-> FALSE, ids |-> {},
             created |-> {}, removed |-> {}, ops |-> {}, draft |-> FALSE,
             intent |-> "none", base |-> IF UsesIds THEN "unbound" ELSE "none"]
    /\ daemon = [r \in Roles |-> "absent"]
    /\ online = FALSE /\ snapshot = "absent" /\ evidence = "none"
    /\ pc = "idle" /\ loc = Fresh /\ alive = TRUE
    /\ faults = 0 /\ crashes = 0
    /\ asked = [r \in Roles |-> 0] /\ spoiled = FALSE

-----------------------------------------------------------------------------
(* Building blocks of the steps. *)

Fault == faults < MaxFaults /\ faults' = faults + 1 /\ spoiled' = TRUE
NoFault == UNCHANGED <<faults, spoiled>>
Goto(next) == pc' = next /\ UNCHANGED loc
Leave == pc' = "idle" /\ loc' = Fresh
Enter(next) == pc' = next /\ loc' = Fresh

(* The process takes the lab's lock and saves the pending phase. *)
Begin(phase, next) ==
    /\ pc = "idle" /\ Movable(st, phase)
    /\ st' = Moved(st, phase)
    /\ Enter(next)
    /\ UNCHANGED <<profile, world, alive, bounds, history>>

(* It saves the outcome and lets the lock go. *)
Finish(step, outcome, phase) ==
    /\ st' = Observed(Moved(st, phase), step, outcome)
    /\ Leave
Fail(step) == st' = Recovering(st, step) /\ Leave

-----------------------------------------------------------------------------
(* Before create: a daemon-backed run makes and binds the snapshot. *)

(* runtime.capture_snapshot: the directory, and a provider lab's marker    *)
(* pair; a failure ends the command.                                       *)
CaptureSnapshot ==
    /\ pc = "idle" /\ alive /\ st.phase = "NEW" /\ st.base = "unbound"
    /\ \/ /\ snapshot = "absent" /\ snapshot' = "unmarked"
          /\ UNCHANGED <<faults, spoiled, alive>>
       \/ /\ snapshot = "unmarked" /\ Identified
          /\ snapshot' = "marked"
          /\ UNCHANGED <<faults, spoiled, alive>>
       \/ /\ snapshot \in {"absent", "unmarked"} /\ Fault /\ alive' = FALSE
          /\ UNCHANGED snapshot
    /\ UNCHANGED <<profile, st, daemon, online, evidence, pc, loc, crashes, asked>>

BindSnapshot ==
    /\ pc = "idle" /\ alive /\ st.phase = "NEW" /\ st.base = "unbound"
    /\ snapshot = IF Identified THEN "marked" ELSE "unmarked"
    /\ st' = [st EXCEPT !.base = "bound"]
    /\ UNCHANGED <<profile, world, proc, bounds, history>>

-----------------------------------------------------------------------------
(* create *)

BeginCreate ==
    /\ alive /\ st.phase = "NEW" /\ st.base # "unbound"
    /\ Begin("CREATE_PENDING", "command")

(* The daemon is asked for the next role; a failed or lost request may     *)
(* have been carried out, or be carried out later.                         *)
Submitted(outcomes) ==
    LET r == CreateOrder[loc.at] IN
    /\ asked' = [asked EXCEPT ![r] = @ + 1]
    /\ \E o \in outcomes : daemon' = [daemon EXCEPT ![r] = o]
AnyOutcome == {"absent", "present"} \cup (IF UsesIds THEN {"coming"} ELSE {})

Command ==
    /\ pc = "command"
    /\ \/ Submitted({"present"}) /\ NoFault /\ pc' = "inspect" /\ UNCHANGED crashes
          /\ loc' = [loc EXCEPT !.open = UsesIds] /\ UNCHANGED alive
       \/ Submitted(AnyOutcome) /\ Fault /\ pc' = "failing" /\ UNCHANGED crashes
          /\ loc' = [loc EXCEPT !.open = UsesIds] /\ UNCHANGED alive
       \/ Submitted(AnyOutcome) /\ crashes < MaxCrashes /\ crashes' = crashes + 1
          /\ UNCHANGED faults /\ spoiled' = TRUE /\ Leave /\ alive' = FALSE
    /\ UNCHANGED <<profile, st, online, snapshot, evidence>>

(* A base image or an absence check that fails before the first command.   *)
CheckFails ==
    /\ pc = "command" /\ loc.at = 1 /\ Fault /\ Goto("failing")
    /\ UNCHANGED <<profile, st, world, alive, crashes, asked>>

Inspect ==
    /\ pc = "inspect"
    /\ \/ /\ NoFault /\ Goto("own")
          /\ st' = IF UsesIds THEN [st EXCEPT !.ids = @ \cup {CreateOrder[loc.at]}] ELSE st
       \/ Fault /\ Goto("failing") /\ UNCHANGED st
    /\ UNCHANGED <<profile, world, alive, crashes, asked>>

RecordOwned ==
    /\ pc = "own"
    /\ st' = [st EXCEPT !.created = @ \cup {CreateOrder[loc.at]}]
    /\ IF loc.at < Len(CreateOrder)
       THEN pc' = "command" /\ loc' = [loc EXCEPT !.at = @ + 1, !.open = FALSE]
       ELSE pc' = "start" /\ loc' = [loc EXCEPT !.open = FALSE]
    /\ UNCHANGED <<profile, world, alive, bounds, history>>

Start ==
    /\ pc = "start"
    /\ \/ NoFault /\ Finish("create", "succeeded", "CREATED")
       \/ Fault /\ Goto("failing") /\ UNCHANGED st
    /\ UNCHANGED <<profile, world, alive, crashes, asked>>

(* The except clause: the taint is saved before the failure. *)
CreateFails ==
    /\ pc = "failing"
    /\ IF loc.open
       THEN /\ st' = [st EXCEPT !.tainted = TRUE]
            /\ pc' = pc /\ loc' = [loc EXCEPT !.open = FALSE]
       ELSE Fail("create")
    /\ UNCHANGED <<profile, world, alive, bounds, history>>

(* The same clause on an interrupt: no failure is saved, the next load     *)
(* finds the pending phase.                                                *)
CreateInterrupted ==
    /\ pc \in {"command", "inspect", "own", "start"}
    /\ crashes < MaxCrashes /\ crashes' = crashes + 1 /\ spoiled' = TRUE
    /\ IF pc = "command" THEN Submitted(AnyOutcome) ELSE UNCHANGED <<daemon, asked>>
    /\ st' = IF loc.open \/ (pc = "command" /\ UsesIds)
             THEN [st EXCEPT !.tainted = TRUE] ELSE st
    /\ Leave
    /\ UNCHANGED <<profile, online, snapshot, evidence, alive, faults>>

-----------------------------------------------------------------------------
(* install, test and evidence *)

Continues == alive \/ Identified

BeginInstall ==
    /\ Continues /\ st.phase = "CREATED"
    /\ Begin("INSTALL_PENDING", IF Identified THEN "connect" ELSE "guest")

(* A provider's install window: whatever connect reports, the forced       *)
(* disconnect follows.                                                     *)
Connect ==
    /\ pc = "connect"
    /\ \/ NoFault /\ online' = TRUE /\ Goto("guest")
       \/ Fault /\ online' \in BOOLEAN
          /\ pc' = "disconnect" /\ loc' = [loc EXCEPT !.bad = TRUE]
       \/ Fault /\ UNCHANGED online      \* the inspection before it
          /\ pc' = "settle" /\ loc' = [loc EXCEPT !.bad = TRUE]
    /\ UNCHANGED <<profile, st, daemon, snapshot, evidence, alive, crashes, asked>>

Guest ==
    /\ pc = "guest"
    /\ LET next == IF Identified THEN "disconnect" ELSE "settle" IN
       \/ NoFault /\ Goto(next)
       \/ Fault /\ pc' = next /\ loc' = [loc EXCEPT !.bad = TRUE]
    /\ UNCHANGED <<profile, st, world, alive, crashes, asked>>

Disconnect ==
    /\ pc = "disconnect" /\ pc' = "settle"
    /\ \/ NoFault /\ online' = FALSE /\ UNCHANGED loc
       \/ Fault /\ online' \in {FALSE, online} /\ loc' = [loc EXCEPT !.bad = TRUE]
    /\ UNCHANGED <<profile, st, daemon, snapshot, evidence, alive, crashes, asked>>

(* Mutant of Settle: a failed disconnect does not fail the installation. *)
SettleAnyway ==
    /\ pc = "settle"
    /\ Finish("install", "succeeded", "INSTALLED")
    /\ UNCHANGED <<profile, world, alive, bounds, history>>

Settle ==
    /\ pc = "settle"
    /\ IF loc.bad THEN Fail("install") ELSE Finish("install", "succeeded", "INSTALLED")
    /\ UNCHANGED <<profile, world, alive, bounds, history>>

BeginTest == Continues /\ st.phase = "INSTALLED" /\ Begin("TEST_PENDING", "test")
BeginEvidence == Continues /\ st.phase = "TESTED" /\ Begin("EVIDENCE_PENDING", "evidence")

Test ==
    /\ pc = "test"
    /\ \/ NoFault /\ Finish("test", "succeeded", "TESTED")
       \/ Fault /\ Fail("test")
    /\ UNCHANGED <<profile, world, alive, crashes, asked>>

CaptureEvidence ==
    /\ pc = "evidence"
    /\ \/ /\ NoFault /\ Leave
          /\ st' = [Observed(Moved(st, "EVIDENCE_CAPTURED"), "evidence", "succeeded")
                        EXCEPT !.draft = TRUE]
       \/ Fault /\ Fail("evidence")
    /\ UNCHANGED <<profile, world, alive, crashes, asked>>

-----------------------------------------------------------------------------
(* logout *)

(* _persist_mutation_hold, the first save of each cleanup method. *)
PersistHold ==
    /\ pc = "idle" /\ st.phase = "RECOVERY_REQUIRED" /\ NeedsHold(st)
    /\ st' = [st EXCEPT !.tainted = TRUE]
    /\ UNCHANGED <<profile, world, proc, bounds, history>>

BeginLogout ==
    /\ st.phase \in {"EVIDENCE_CAPTURED", "RECOVERY_REQUIRED"}
    /\ DrivesLogout(st) /\ ~NeedsHold(st)
    /\ Begin("LOGOUT_PENDING", "logout")

(* A provider lab runs no vendor command; elsewhere a container that is    *)
(* gone is skipped.                                                        *)
Logout ==
    /\ pc = "logout"
    /\ \/ /\ NoFault
          /\ Finish("logout",
                    IF Identified \/ daemon["container"] = "present"
                    THEN "succeeded" ELSE "skipped", "LOGOUT_DONE")
       \/ ~Identified /\ Fault /\ Finish("logout", "failed", "LOGOUT_FAILED")
    /\ UNCHANGED <<profile, world, alive, crashes, asked>>

-----------------------------------------------------------------------------
(* destroy *)

BeginDestroy ==
    /\ st.phase \in {"LOGOUT_DONE", "LOGOUT_FAILED", "RECOVERY_REQUIRED", "DIRTY"}
    /\ DrivesDestroy(st) /\ ~NeedsHold(st)
    /\ pc = "idle" /\ st' = Moved(st, "DESTROY_PENDING")
    /\ pc' = "role" /\ loc' = [Fresh EXCEPT !.resumed = st.base = "removing"]
    /\ UNCHANGED <<profile, world, alive, bounds, history>>

Role == CleanupOrder[loc.at]
AfterRole(failed) ==
    /\ loc' = [loc EXCEPT !.at = @ + 1, !.bad = @ \/ failed]
    /\ pc' = IF loc.at < Len(CleanupOrder) THEN "role"
             ELSE IF UsesIds /\ ~loc'.bad THEN "snapshot" ELSE "destroyed"

(* Absence reconciles only a role the ledger knows was created. *)
RoleAbsent ==
    /\ pc = "role" /\ daemon[Role] # "present"
    /\ IF UsesIds /\ Role \in st.created \ st.ids
       THEN UNCHANGED st /\ AfterRole(TRUE)
       ELSE /\ st' = [st EXCEPT !.removed = @ \cup ({Role} \cap st.created)]
            /\ AfterRole(FALSE)
    /\ UNCHANGED <<profile, world, alive, bounds, history>>

RoleUnknown ==
    /\ pc = "role" /\ Fault /\ AfterRole(TRUE)
    /\ UNCHANGED <<profile, st, world, alive, crashes, asked>>

(* A present role is claimed before it is removed: its id, then the role.  *)
ClaimId ==
    /\ pc = "role" /\ daemon[Role] = "present"
    /\ st' = IF UsesIds THEN [st EXCEPT !.ids = @ \cup {Role}] ELSE st
    /\ Goto("claim")
    /\ UNCHANGED <<profile, world, alive, bounds, history>>

ClaimRole ==
    /\ pc = "claim" /\ st' = [st EXCEPT !.created = @ \cup {Role}] /\ Goto("remove")
    /\ UNCHANGED <<profile, world, alive, bounds, history>>

(* Mutant of Remove: a removal that fails is recorded like one that worked. *)
RemoveUnchecked ==
    /\ pc = "remove" /\ Goto("ledger")
    /\ \/ NoFault /\ daemon' = [daemon EXCEPT ![Role] = "absent"]
       \/ Fault /\ daemon' \in {daemon, [daemon EXCEPT ![Role] = "absent"]}
    /\ UNCHANGED <<profile, st, online, snapshot, evidence, alive, crashes, asked>>

Remove ==
    /\ pc = "remove"
    /\ \/ NoFault /\ daemon' = [daemon EXCEPT ![Role] = "absent"] /\ Goto("ledger")
       \/ /\ Fault /\ daemon' \in {daemon, [daemon EXCEPT ![Role] = "absent"]}
          /\ AfterRole(TRUE)
       \/ /\ Fault /\ Role = "container"      \* only the stop before it failed
          /\ daemon' = [daemon EXCEPT ![Role] = "absent"]
          /\ pc' = "ledger" /\ loc' = [loc EXCEPT !.bad = TRUE]
    /\ UNCHANGED <<profile, st, online, snapshot, evidence, alive, crashes, asked>>

RecordRemoved ==
    /\ pc = "ledger" /\ st' = [st EXCEPT !.removed = @ \cup {Role}] /\ AfterRole(FALSE)
    /\ UNCHANGED <<profile, world, alive, bounds, history>>

(* The derived snapshot goes after the container: the removal is announced *)
(* in the state, the directory is emptied and removed, the removal is      *)
(* recorded, and only then the marker that survived it.                    *)
RefuseSnapshot ==
    /\ st' = [st EXCEPT !.tainted = TRUE]
    /\ pc' = "destroyed" /\ loc' = [loc EXCEPT !.bad = TRUE]

Snapshot ==
    /\ pc = "snapshot" /\ UNCHANGED snapshot
    /\ CASE st.base = "unbound" ->
              IF Present THEN RefuseSnapshot ELSE Goto("destroyed") /\ UNCHANGED st
         [] st.base = "removed" ->
              IF Present THEN RefuseSnapshot
              ELSE /\ UNCHANGED st
                   /\ Goto(IF Identified /\ snapshot # "absent"
                           THEN "finalize" ELSE "destroyed")
         [] OTHER -> st' = [st EXCEPT !.base = "removing"] /\ Goto("unlink")
    /\ UNCHANGED <<profile, daemon, online, evidence, alive, bounds, history>>

(* remove_for_cleanup: a provider's directory must carry the marker pair,  *)
(* and an absent one needs the announcement of an earlier attempt.         *)
MayUnlink ==
    IF Present THEN Identified => snapshot = "marked"
               ELSE loc.resumed /\ (Identified => snapshot = "tomb")

Unlink ==
    /\ pc = "unlink"
    /\ \/ /\ ~MayUnlink /\ RefuseSnapshot /\ NoFault /\ UNCHANGED snapshot
       \/ /\ MayUnlink /\ ~Present /\ Goto("record") /\ NoFault
          /\ UNCHANGED <<st, snapshot>>
       \/ /\ MayUnlink /\ Present /\ Goto("rmdir") /\ NoFault /\ UNCHANGED st
          /\ snapshot' = IF Identified THEN "opened" ELSE snapshot
       \/ /\ MayUnlink /\ Fault /\ RefuseSnapshot
          /\ snapshot' \in {snapshot} \cup
                 (IF Identified /\ Present THEN {"opened"} ELSE {})
    /\ UNCHANGED <<profile, daemon, online, evidence, alive, crashes, asked>>

RemoveDirectory ==
    /\ pc = "rmdir"
    /\ LET gone == IF Identified THEN "tomb" ELSE "absent" IN
       \/ snapshot' = gone /\ Goto("record") /\ NoFault /\ UNCHANGED st
       \/ snapshot' \in {snapshot, gone} /\ Fault /\ RefuseSnapshot
    /\ UNCHANGED <<profile, daemon, online, evidence, alive, crashes, asked>>

RecordSnapshotRemoved ==
    /\ pc = "record" /\ st' = [st EXCEPT !.base = "removed"]
    /\ Goto(IF Identified THEN "finalize" ELSE "destroyed")
    /\ UNCHANGED <<profile, world, alive, bounds, history>>

Finalize ==
    /\ pc = "finalize"
    /\ \/ snapshot = "tomb" /\ snapshot' = "absent" /\ Goto("destroyed") /\ NoFault
          /\ UNCHANGED st
       \/ snapshot' \in {snapshot, "absent"} /\ Fault /\ RefuseSnapshot
    /\ UNCHANGED <<profile, daemon, online, evidence, alive, crashes, asked>>

Destroyed ==
    /\ pc = "destroyed"
    /\ IF loc.bad THEN Finish("destroy", "failed", "DESTROY_FAILED")
                  ELSE Finish("destroy", "succeeded", "DESTROY_DONE")
    /\ UNCHANGED <<profile, world, alive, bounds, history>>

-----------------------------------------------------------------------------
(* verify_clean and seal *)

BeginVerify ==
    /\ st.phase \in {"DESTROY_DONE", "DESTROY_FAILED", "RECOVERY_REQUIRED", "DIRTY"}
    /\ DrivesVerify(st) /\ ~NeedsHold(st)
    /\ Begin("VERIFY_CLEAN_PENDING", "verify")

SnapshotRemains ==
    /\ UsesIds
    /\ \/ Present
       \/ st.base \in {"bound", "removing"}
       \/ Identified /\ st.base = "removed" /\ snapshot # "absent"

Remaining ==
    \/ \E i \in DOMAIN CleanupOrder : daemon[CleanupOrder[i]] = "present"
    \/ SnapshotRemains
    \/ st.created # st.removed
    \/ UsesIds /\ st.tainted

Verify ==
    /\ pc = "verify"
    /\ \/ NoFault /\ ~Remaining /\ Finish("verify_clean", "succeeded", "CLEAN_VERIFIED")
       \/ NoFault /\ Remaining /\ Finish("verify_clean", "failed", "DIRTY")
       \/ Fault /\ Finish("verify_clean", "failed", "DIRTY")
    /\ UNCHANGED <<profile, world, alive, crashes, asked>>

(* The draft of a failed run is captured here, and the intent is saved     *)
(* with the result before anything is published.                           *)
BeginSeal ==
    /\ st.phase = "CLEAN_VERIFIED" /\ ~st.tainted
    /\ st.draft \/ AnyFailed(st)
    /\ CleanupObserved(st)
    /\ pc = "idle" /\ Enter("publish")
    /\ st' = [Moved(st, "SEAL_PENDING") EXCEPT !.draft = TRUE, !.intent = Result(st)]
    /\ UNCHANGED <<profile, world, alive, bounds, history>>

ResumeSeal ==
    /\ pc = "idle" /\ st.phase = "SEAL_PENDING" /\ ~st.tainted
    /\ Result(st) = st.intent
    /\ Enter("publish")
    /\ UNCHANGED <<profile, st, world, alive, bounds, history>>

(* An absent output is published, an identical one accepted. *)
Publish ==
    /\ pc = "publish"
    /\ \/ /\ evidence \in {"none", Result(st)}
          /\ evidence' = Result(st) /\ UNCHANGED faults /\ Goto("commit")
       \/ /\ faults < MaxFaults /\ faults' = faults + 1
          /\ evidence' \in {evidence, Result(st)} /\ Leave
    /\ UNCHANGED <<profile, st, daemon, online, snapshot, alive, crashes, history>>

CommitSeal ==
    /\ pc = "commit"
    /\ Finish("seal", "succeeded", IF Result(st) = "passed" THEN "PASSED" ELSE "FAILED_CLEAN")
    /\ UNCHANGED <<profile, world, alive, bounds, history>>

-----------------------------------------------------------------------------
(* Interruption, recovery and the world outside. *)

(* Mutant of Reload: an interrupted creation is begun again. *)
ReloadForward ==
    /\ pc = "idle" /\ Interrupted(st)
    /\ IF st.step = "create"
       THEN Enter("command") /\ UNCHANGED st
       ELSE st' = Recovering(st, st.step) /\ UNCHANGED <<pc, loc>>
    /\ UNCHANGED <<profile, world, alive, bounds, history>>

(* load: a pending phase whose process died. *)
Reload ==
    /\ pc = "idle" /\ Interrupted(st)
    /\ st' = Recovering(st, st.step)
    /\ UNCHANGED <<profile, world, proc, bounds, history>>

(* A run's handler after an interruption, or a recovery command, between   *)
(* two operations.                                                         *)
InterruptStable ==
    /\ pc = "idle" /\ st.phase \in DOMAIN StableForwardStep
    /\ st' = Recovering(st, StableForwardStep[st.phase])
    /\ alive' = FALSE /\ spoiled' = TRUE
    /\ UNCHANGED <<profile, world, pc, loc, bounds, asked>>

MarkShellTainted ==
    /\ pc = "idle"
    /\ st.phase \notin DOMAIN PendingStep \cup Terminal \cup {"NEW"}
    /\ ~st.tainted /\ st' = [st EXCEPT !.tainted = TRUE]
    /\ UNCHANGED <<profile, world, proc, bounds, history>>

(* The process dies; a removal it had asked for may still be done. *)
Crash ==
    /\ crashes < MaxCrashes /\ crashes' = crashes + 1
    /\ alive \/ pc # "idle"
    /\ Leave /\ alive' = FALSE
    /\ daemon' \in IF pc = "remove" THEN {daemon, [daemon EXCEPT ![Role] = "absent"]}
                                    ELSE {daemon}
    /\ spoiled' = (spoiled \/ Interrupted(st))
    /\ UNCHANGED <<profile, st, online, snapshot, evidence, faults, asked>>

(* The daemon carries out, or drops, a creation it had only accepted. *)
DaemonPublishes ==
    /\ \E r \in Roles : /\ daemon[r] = "coming"
                        /\ daemon' \in {[daemon EXCEPT ![r] = "present"],
                                        [daemon EXCEPT ![r] = "absent"]}
    /\ UNCHANGED <<profile, st, online, snapshot, evidence, proc, bounds, history>>

Forward ==
    \/ CaptureSnapshot \/ BindSnapshot \/ BeginCreate \/ Command \/ CheckFails
    \/ Inspect \/ RecordOwned \/ Start \/ CreateFails \/ BeginInstall \/ Connect
    \/ Guest \/ Disconnect \/ Settle \/ BeginTest \/ Test \/ BeginEvidence
    \/ CaptureEvidence
Cleanup ==
    \/ PersistHold \/ BeginLogout \/ Logout \/ BeginDestroy \/ RoleAbsent
    \/ RoleUnknown \/ ClaimId \/ ClaimRole \/ Remove \/ RecordRemoved \/ Snapshot
    \/ Unlink \/ RemoveDirectory \/ RecordSnapshotRemoved \/ Finalize \/ Destroyed
    \/ BeginVerify \/ Verify
Sealing == BeginSeal \/ ResumeSeal \/ Publish \/ CommitSeal

Next ==
    \/ Forward \/ Cleanup \/ Sealing \/ Reload \/ InterruptStable
    \/ CreateInterrupted \/ MarkShellTainted \/ Crash \/ DaemonPublishes

Spec == Init /\ [][Next]_vars

(* A process that holds the lock goes on, and the recovery command is run  *)
(* again until the lab is settled.                                         *)
FairSpec ==
    Spec /\ WF_vars(Forward \/ Cleanup \/ Sealing \/ Reload \/ InterruptStable)
-----------------------------------------------------------------------------
(* What the lifecycle is for. *)

(* Clean means clean: once verification has passed, the daemon has nothing *)
(* of the lab and never will - no creation it had accepted is still to be  *)
(* carried out - and the derived snapshot and its marker are gone.         *)
CleanMeansGone ==
    st.phase \in {"CLEAN_VERIFIED", "SEAL_PENDING"} \cup Terminal =>
        (\A r \in Roles : daemon[r] = "absent") /\ snapshot = "absent"

(* A role the ledger calls removed is gone from the daemon, however the    *)
(* process died between the removal and the ledger.                        *)
RemovedAreGone == \A r \in st.removed : daemon[r] = "absent"

(* What is published is what was decided, for a lab that has sealed or is  *)
(* sealing, and "passed" is published for no lab in which an operation     *)
(* failed or was cut short.                                                *)
EvidenceHonest ==
    evidence # "none" =>
        /\ evidence = st.intent
        /\ evidence = "passed" => ~spoiled /\ st.phase # "FAILED_CLEAN"

(* All of this is one promise: what is asked for, what exists, what went   *)
(* wrong, what is called clean, what is decided, published and closed      *)
(* change together as CleanRun has it, through every crash and recovery -- *)
(* a clean lab stays clean, and a closed one has published its verdict.    *)
CleanPhases == {"CLEAN_VERIFIED", "SEAL_PENDING"} \cup Terminal

Existing ==
    {r \in Roles : daemon[r] # "absent"}
      \cup (IF snapshot # "absent" THEN {"snapshot"} ELSE {})

Abstract == INSTANCE CleanRun WITH
    Things <- Roles, Derived <- "snapshot",
    asked <- {r \in Roles : asked[r] # 0}, existing <- Existing, failed <- spoiled,
    clean <- st.phase \in CleanPhases, verdict <- st.intent, published <- evidence,
    closed <- st.phase \in Terminal

ImplementsCleanRun == Abstract!Spec

(* No crash, retry or recovery asks the daemon twice for a role.           *)
CreatedOnce == \A r \in Roles : asked[r] <= 1

(* A provider's probe runs only with the install network detached.         *)
ProbesOffline == pc = "test" => ~online

(* A fixture or conformance lab is settled in the end: sealed, or held by  *)
(* a taint for a person to look at.                                        *)
Settles ==
    profile # "provider" => <>[](st.phase \in Terminal \/ st.tainted)

(* docs/development/unified-ext-lab.md:123-126: a kill before or after     *)
(* artifact binding leaves a snapshot conformance-recover can remove.      *)
RecoveryRemovesSnapshot ==
    (profile = "real" /\ faults = 0 /\ st.phase \in {"DESTROY_DONE", "DESTROY_FAILED"})
        => ~Present
=============================================================================
