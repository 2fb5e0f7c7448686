------------------------- MODULE LabLifecycleProofs -------------------------
(***************************************************************************)
(* Theorems about LabLifecycle: what holds however often commands fail and *)
(* processes die.                                                          *)
(***************************************************************************)
EXTENDS LabLifecycle, TLAPS

States == [phase : Phases, step : Steps \cup {"none"}, tainted : BOOLEAN,
           ids : SUBSET Roles, created : SUBSET Roles, removed : SUBSET Roles,
           ops : SUBSET (Steps \X {"succeeded", "failed", "skipped"}),
           draft : BOOLEAN, intent : {"none", "passed", "failed_clean"},
           base : {"none", "unbound", "bound", "removing", "removed"}]

LocalStates == [at : 1..4, bad : BOOLEAN, open : BOOLEAN, resumed : BOOLEAN]

(* What two contents of the state file have in common. *)
SameRoles(t, s) ==
    t.ids = s.ids /\ t.created = s.created /\ t.removed = s.removed /\ t.base = s.base
SameSeal(t, s) == t.draft = s.draft /\ t.intent = s.intent

(* The roles that the profile manages. *)
Managed == IF profile = "fixture" THEN Roles ELSE {"container"}

Creating == {"command", "inspect", "own", "start", "failing"}
Installing == {"connect", "guest", "disconnect", "settle"}
Cleaning == {"role", "claim", "remove", "ledger"}
Deriving == {"snapshot", "unlink", "rmdir", "record", "finalize"}
Destroying == Cleaning \cup Deriving \cup {"destroyed"}
Publishing == {"publish", "commit"}
SealPhases == {"SEAL_PENDING"} \cup Terminal

(* The process is where the state file says, and has failed nothing it     *)
(* goes on to report as done.                                              *)
Located ==
    /\ pc \in Creating => st.phase = "CREATE_PENDING"
    /\ pc \in Installing => st.phase = "INSTALL_PENDING"
    /\ pc = "test" => st.phase = "TEST_PENDING"
    /\ pc = "evidence" => st.phase = "EVIDENCE_PENDING"
    /\ pc = "logout" => st.phase = "LOGOUT_PENDING"
    /\ pc \in Destroying => st.phase = "DESTROY_PENDING"
    /\ pc = "verify" => st.phase = "VERIFY_CLEAN_PENDING"
    /\ pc \in Publishing => st.phase = "SEAL_PENDING"
    /\ pc \in Creating \ {"failing"} => loc.at <= Len(CreateOrder)
    /\ pc \in Cleaning => loc.at <= Len(CleanupOrder)
    /\ loc.bad => pc \in {"disconnect", "settle"} \cup Destroying

(* A role that was never asked for is nowhere, and the roles still to be   *)
(* asked for have not been.                                                *)
Asked ==
    /\ CreatedOnce
    /\ \A r \in Roles : asked[r] = 0 => daemon[r] = "absent" /\ r \notin st.ids \cup st.created
    /\ \A r \in Roles \ Managed : asked[r] = 0
    /\ st.phase = "NEW" => \A r \in Roles : asked[r] = 0
    /\ pc \in {"command", "inspect", "own"} =>
         \A i \in 1 .. Len(CreateOrder) :
            i > loc.at \/ (i = loc.at /\ pc = "command") => asked[CreateOrder[i]] = 0

(* What the ledger and the ids say of a role is true of the daemon. *)
Ledger ==
    /\ RemovedAreGone
    /\ \A r \in st.ids \cup st.created : daemon[r] # "coming"
    /\ pc \in {"inspect", "own"} => daemon[CreateOrder[loc.at]] = "present"
    /\ pc \in {"claim", "remove"} => daemon[CleanupOrder[loc.at]] = "present"
    /\ pc \in {"remove", "ledger"} => CleanupOrder[loc.at] \in st.created
    /\ pc = "ledger" => daemon[CleanupOrder[loc.at]] = "absent"

(* A creation that may still be carried out puts a hold on the lab before  *)
(* the lab is cleaned up.                                                  *)
Held ==
    \A r \in Roles : daemon[r] = "coming" =>
        /\ UsesIds
        /\ \/ st.tainted
           \/ pc = "failing" /\ loc.open
           \/ pc = "idle" /\ st.phase = "CREATE_PENDING"
           \/ st.phase = "RECOVERY_REQUIRED" /\ st.step = "create"

(* The derived snapshot, its tomb and what the state says of it. *)
Derived ==
    /\ st.base = "none" <=> ~UsesIds
    /\ snapshot # "absent" => UsesIds
    /\ snapshot = "tomb" => Identified /\ st.base \in {"removing", "removed"}
    /\ pc \in Deriving => UsesIds
    /\ pc \in {"unlink", "rmdir", "record"} => st.base = "removing"

(* The install network is left before the lab counts as installed. *)
Window ==
    /\ online \/ pc = "connect" => Identified
    /\ pc = "settle" /\ ~loc.bad => ~online
    /\ st.phase \in {"INSTALLED", "TEST_PENDING"} => ~online

(* What went wrong is in the observations, or will be before the operation *)
(* it went wrong in is over.                                               *)
Reported ==
    spoiled =>
      \/ AnyFailed(st)
      \/ Interrupted(st) /\ (pc \in {"idle", "failing"} \/ loc.bad)
      \/ st.phase = "NEW" /\ ~alive

Sealed ==
    /\ CleanMeansGone
    /\ st.phase \in SealPhases => st.intent = Result(st)
    /\ evidence # "none" => st.phase \in SealPhases /\ evidence = st.intent
    /\ st.phase = "FAILED_CLEAN" => st.intent = "failed_clean"

(* The inductive invariant. *)
IInv == TypeOK /\ Located /\ Asked /\ Ledger /\ Held /\ Derived /\ Window /\ Reported /\ Sealed

-----------------------------------------------------------------------------
(* Shapes. *)

(* The phases and the steps by name. *)
LEMMA Names ==
    /\ DOMAIN PendingStep =
         {"CREATE_PENDING", "INSTALL_PENDING", "TEST_PENDING", "EVIDENCE_PENDING",
          "LOGOUT_PENDING", "DESTROY_PENDING", "VERIFY_CLEAN_PENDING", "SEAL_PENDING"}
    /\ Steps = {"create", "install", "test", "evidence", "logout", "destroy", "verify_clean",
                "seal"}
    /\ Phases = {"NEW", "CREATED", "INSTALLED", "TESTED", "EVIDENCE_CAPTURED", "LOGOUT_DONE",
                 "LOGOUT_FAILED", "DESTROY_DONE", "DESTROY_FAILED", "CLEAN_VERIFIED", "DIRTY",
                 "PASSED", "FAILED_CLEAN", "RECOVERY_REQUIRED"} \cup DOMAIN PendingStep
<1>1. DOMAIN PendingStep =
         {"CREATE_PENDING", "INSTALL_PENDING", "TEST_PENDING", "EVIDENCE_PENDING",
          "LOGOUT_PENDING", "DESTROY_PENDING", "VERIFY_CLEAN_PENDING", "SEAL_PENDING"}
  BY DEF PendingStep
<1>2. Steps = {"create", "install", "test", "evidence", "logout", "destroy", "verify_clean", "seal"}
  BY <1>1 DEF Steps, PendingStep
<1>3. Phases = {"NEW", "CREATED", "INSTALLED", "TESTED", "EVIDENCE_CAPTURED", "LOGOUT_DONE",
                 "LOGOUT_FAILED", "DESTROY_DONE", "DESTROY_FAILED", "CLEAN_VERIFIED", "DIRTY",
                 "PASSED", "FAILED_CLEAN", "RECOVERY_REQUIRED"} \cup DOMAIN PendingStep
  BY <1>1 DEF Phases, Transitions
<1> QED
  BY <1>1, <1>2, <1>3

(* The step of a phase is one of the steps, and only sealing is not observed. *)
LEMMA StepOfShape ==
    ASSUME NEW phase \in Phases
    PROVE  /\ StepOf(phase) \in Steps \cup {"none"}
           /\ phase \in DOMAIN PendingStep => StepOf(phase) = PendingStep[phase]
           /\ phase \in DOMAIN PendingStep => PendingStep[phase] \in Steps
           /\ phase \in DOMAIN PendingStep \ {"SEAL_PENDING"} => PendingStep[phase] \in Steps \ {"seal"}
           /\ phase = "CREATE_PENDING" => StepOf(phase) = "create"
BY Names DEF StepOf, Steps, PendingStep

(* A transition changes the phase and its step only. *)
LEMMA MovedShape ==
    ASSUME NEW s \in States, NEW target \in Phases
    PROVE  LET t == Moved(s, target)
           IN  /\ t \in States /\ t.phase = target /\ t.step = StepOf(target)
               /\ SameRoles(t, s) /\ SameSeal(t, s) /\ t.tainted = s.tainted /\ t.ops = s.ops
<1>1. StepOf(target) \in Steps \cup {"none"}
  BY StepOfShape
<1> QED
  BY <1>1 DEF Moved, States, SameRoles, SameSeal

(* An observation changes neither the phase nor what is known of the roles. *)
LEMMA ObservedShape ==
    ASSUME NEW s \in States, NEW step \in Steps, NEW outcome \in {"succeeded", "failed", "skipped"}
    PROVE  LET t == Observed(s, step, outcome)
           IN  /\ t \in States /\ t.phase = s.phase /\ t.step = s.step
               /\ SameRoles(t, s) /\ SameSeal(t, s) /\ t.tainted = s.tainted
               /\ t.ops = s.ops \cup {<<step, outcome>>}
BY DEF Observed, States, SameRoles, SameSeal

(* What the process saves when an operation is over. *)
LEMMA FinishShape ==
    ASSUME TypeOK, NEW step \in Steps, NEW outcome \in {"succeeded", "failed", "skipped"},
           NEW phase \in Phases
    PROVE  LET t == Observed(Moved(st, phase), step, outcome)
           IN  /\ t \in States /\ t.phase = phase /\ t.step = StepOf(phase)
               /\ SameRoles(t, st) /\ SameSeal(t, st) /\ t.tainted = st.tainted
               /\ t.ops = st.ops \cup {<<step, outcome>>}
               /\ (\E o \in st.ops : o[2] = "failed") \/ outcome = "failed" <=>
                    \E o \in t.ops : o[2] = "failed"
<1> DEFINE m == Moved(st, phase)
           t == Observed(m, step, outcome)
<1>1. st \in States
  BY DEF TypeOK, States
<1>2. /\ m \in States /\ m.phase = phase /\ m.step = StepOf(phase)
      /\ SameRoles(m, st) /\ SameSeal(m, st) /\ m.tainted = st.tainted /\ m.ops = st.ops
  BY <1>1, MovedShape
<1> HIDE DEF m
<1>3. /\ t \in States /\ t.phase = m.phase /\ t.step = m.step
      /\ SameRoles(t, m) /\ SameSeal(t, m) /\ t.tainted = m.tainted
      /\ t.ops = m.ops \cup {<<step, outcome>>}
  BY <1>2, ObservedShape
<1> HIDE DEF t
<1>4. <<step, outcome>>[2] = outcome
  OBVIOUS
<1>5. (\E o \in st.ops : o[2] = "failed") \/ outcome = "failed" <=> \E o \in t.ops : o[2] = "failed"
  BY <1>2, <1>3, <1>4
<1>6. /\ t \in States /\ t.phase = phase /\ t.step = StepOf(phase)
      /\ SameRoles(t, st) /\ SameSeal(t, st) /\ t.tainted = st.tainted
      /\ t.ops = st.ops \cup {<<step, outcome>>}
  BY <1>2, <1>3 DEF SameRoles, SameSeal
<1> QED
  BY <1>5, <1>6 DEF m, t

(* A failure is always observed. *)
LEMMA RecoveringShape ==
    ASSUME TypeOK, NEW step \in Steps
    PROVE  LET t == Recovering(st, step)
           IN  /\ t \in States /\ t.phase = "RECOVERY_REQUIRED" /\ t.step = step
               /\ SameRoles(t, st) /\ SameSeal(t, st) /\ t.tainted = st.tainted
               /\ \E o \in t.ops : o[2] = "failed"
<1> DEFINE s == [st EXCEPT !.phase = "RECOVERY_REQUIRED", !.step = step]
<1>1. st \in States
  BY DEF TypeOK, States
<1>2. /\ s \in States /\ s.phase = "RECOVERY_REQUIRED" /\ s.step = step
      /\ SameRoles(s, st) /\ SameSeal(s, st) /\ s.tainted = st.tainted
  BY <1>1, Names DEF States, SameRoles, SameSeal
<1>3. Recovering(st, step) = Observed(s, step, "failed")
  BY DEF Recovering
<1> HIDE DEF s
<1>4. LET t == Observed(s, step, "failed")
      IN  /\ t \in States /\ t.phase = "RECOVERY_REQUIRED" /\ t.step = step
          /\ SameRoles(t, st) /\ SameSeal(t, st) /\ t.tainted = st.tainted
          /\ t.ops = s.ops \cup {<<step, "failed">>}
  BY <1>2, ObservedShape DEF SameRoles, SameSeal
<1>5. <<step, "failed">>[2] = "failed"
  OBVIOUS
<1> QED
  BY <1>3, <1>4, <1>5

(* A process that begins an operation has failed nothing yet. *)
LEMMA FreshShape ==
    Fresh \in LocalStates /\ Fresh.at = 1 /\ ~Fresh.bad /\ ~Fresh.open
BY DEF Fresh, LocalStates

(* The orders in which the roles are created and removed. *)
LEMMA Orders ==
    /\ Len(CreateOrder) \in 1 .. 3 /\ Len(CleanupOrder) \in 1 .. 3
    /\ UsesIds => Len(CreateOrder) = 1
    /\ DOMAIN CleanupOrder = 1 .. Len(CleanupOrder)
    /\ \A i \in 1 .. Len(CreateOrder) : CreateOrder[i] \in Managed
    /\ \A i, j \in 1 .. Len(CreateOrder) : i # j => CreateOrder[i] # CreateOrder[j]
    /\ \A i \in 1 .. Len(CleanupOrder) : CleanupOrder[i] \in Managed
    /\ \A r \in Managed : \E i \in 1 .. Len(CleanupOrder) : CleanupOrder[i] = r
    /\ Managed \subseteq Roles
    /\ Identified => UsesIds
<1>1. CASE profile = "fixture"
  <2>1. /\ CreateOrder = <<"image", "volume", "container">>
        /\ CleanupOrder = <<"container", "volume", "image">>
        /\ Managed = {"container", "volume", "image"} /\ Roles = Managed /\ ~UsesIds /\ ~Identified
    BY <1>1 DEF CreateOrder, CleanupOrder, Managed, Roles, UsesIds, Identified
  <2> QED
    BY <2>1
<1>2. CASE profile # "fixture"
  <2>1. /\ CreateOrder = <<"container">> /\ CleanupOrder = <<"container">>
        /\ Managed = {"container"} /\ Managed \subseteq Roles /\ UsesIds
    BY <1>2 DEF CreateOrder, CleanupOrder, Managed, Roles, UsesIds
  <2> QED
    BY <2>1
<1> QED
  BY <1>1, <1>2

(* The profile is that of the lab's creation. *)
LEMMA Steady ==
    ASSUME profile' = profile
    PROVE  /\ CreateOrder' = CreateOrder /\ CleanupOrder' = CleanupOrder /\ Managed' = Managed
           /\ (UsesIds' <=> UsesIds) /\ (Identified' <=> Identified)
BY DEF CreateOrder, CleanupOrder, Managed, UsesIds, Identified

(* Faults are counted. *)
LEMMA FaultShape ==
    ASSUME TypeOK, Fault \/ UNCHANGED faults
    PROVE  faults' \in 0 .. MaxFaults
<1>1. faults \in 0 .. MaxFaults /\ MaxFaults \in Nat
  BY LabAssumption DEF TypeOK
<1>2. faults' = faults \/ (faults < MaxFaults /\ faults' = faults + 1)
  BY DEF Fault
<1> QED
  BY <1>1, <1>2

LEMMA CrashShape ==
    ASSUME TypeOK, (crashes < MaxCrashes /\ crashes' = crashes + 1) \/ UNCHANGED crashes
    PROVE  crashes' \in 0 .. MaxCrashes
BY LabAssumption DEF TypeOK

(* The next place in an order is still one of its places, or just past it. *)
LEMMA Within ==
    ASSUME NEW a \in 1 .. 4, NEW n \in 1 .. 3
    PROVE  /\ a <= n => a \in 1 .. 3 /\ a + 1 \in 1 .. 4
           /\ a < n => a + 1 <= n /\ a + 1 \in 1 .. 4
OBVIOUS

(* After a role the next one, the snapshot or the end of the destroy.      *)
LEMMA AfterRoleShape ==
    ASSUME TypeOK, loc.at <= Len(CleanupOrder), NEW failed \in BOOLEAN, AfterRole(failed)
    PROVE  /\ loc' \in LocalStates /\ loc'.at = loc.at + 1
           /\ (loc'.bad <=> loc.bad \/ failed)
           /\ \/ pc' = "role" /\ loc.at + 1 <= Len(CleanupOrder)
              \/ pc' = "snapshot" /\ UsesIds
              \/ pc' = "destroyed"
<1> DEFINE b == loc.bad \/ failed
<1>1. loc \in LocalStates /\ Len(CleanupOrder) \in 1 .. 3
  BY Orders DEF TypeOK, LocalStates
<1>0. loc.at \in 1 .. 4
  BY <1>1 DEF LocalStates
<1>2. loc.at \in 1 .. 3 /\ loc.at + 1 \in 1 .. 4
  BY <1>0, <1>1, Within
<1>3. b \in BOOLEAN
  BY <1>1 DEF LocalStates
<1>4. loc' = [loc EXCEPT !.at = loc.at + 1, !.bad = b]
  BY DEF AfterRole
<1> HIDE DEF b
<1>5. loc' \in LocalStates /\ loc'.at = loc.at + 1
  BY <1>1, <1>2, <1>3, <1>4 DEF LocalStates
<1>8. loc'.bad = b
  BY <1>1, <1>4 DEF LocalStates
<1>9. loc'.bad <=> loc.bad \/ failed
  BY <1>8 DEF b
<1>10. loc.at < Len(CleanupOrder) => loc.at + 1 <= Len(CleanupOrder)
  BY <1>0, <1>1, Within
<1>6. pc' = IF loc.at < Len(CleanupOrder) THEN "role"
            ELSE IF UsesIds /\ ~loc'.bad THEN "snapshot" ELSE "destroyed"
  BY DEF AfterRole
<1>7. \/ pc' = "role" /\ loc.at + 1 <= Len(CleanupOrder)
      \/ pc' = "snapshot" /\ UsesIds
      \/ pc' = "destroyed"
  BY <1>6, <1>10
<1> QED
  BY <1>5, <1>7, <1>9

-----------------------------------------------------------------------------
(* The steps. *)

(* The saves that begin an operation change the phase, and nothing outside. *)
LEMMA BeginsIInv ==
    ASSUME IInv, BeginCreate \/ BeginInstall \/ BeginTest \/ BeginEvidence \/ BeginLogout \/ BeginDestroy
           \/ BeginVerify
    PROVE  IInv'
<1> USE DEF IInv
<1>1. /\ pc = "idle" /\ loc' \in LocalStates /\ loc'.at = 1 /\ ~loc'.bad /\ ~loc'.open
      /\ \/ st.phase = "NEW" /\ st'.phase = "CREATE_PENDING" /\ pc' = "command" /\ alive
         \/ /\ st.phase = "CREATED" /\ st'.phase = "INSTALL_PENDING"
            /\ pc' \in {"connect", "guest"} /\ (pc' = "connect" => Identified)
         \/ st.phase = "INSTALLED" /\ st'.phase = "TEST_PENDING" /\ pc' = "test"
         \/ st.phase = "TESTED" /\ st'.phase = "EVIDENCE_PENDING" /\ pc' = "evidence"
         \/ /\ st.phase \in {"EVIDENCE_CAPTURED", "RECOVERY_REQUIRED"}
            /\ st'.phase = "LOGOUT_PENDING" /\ pc' = "logout"
         \/ /\ st.phase \in {"LOGOUT_DONE", "LOGOUT_FAILED", "RECOVERY_REQUIRED", "DIRTY"}
            /\ st'.phase = "DESTROY_PENDING" /\ pc' = "role"
         \/ /\ st.phase \in {"DESTROY_DONE", "DESTROY_FAILED", "RECOVERY_REQUIRED", "DIRTY"}
            /\ st'.phase = "VERIFY_CLEAN_PENDING" /\ pc' = "verify"
      /\ st.phase = "RECOVERY_REQUIRED" => ~NeedsHold(st)
      /\ st' \in States /\ st'.step = StepOf(st'.phase) /\ SameRoles(st', st) /\ SameSeal(st', st)
      /\ st'.tainted = st.tainted /\ st'.ops = st.ops
      /\ UNCHANGED <<profile, daemon, online, snapshot, evidence, alive, faults, crashes, asked, spoiled>>
  <2>1. \E phase \in DOMAIN PendingStep : st' = Moved(st, phase)
    BY Names DEF BeginCreate, BeginInstall, BeginTest, BeginEvidence, BeginLogout, BeginDestroy,
       BeginVerify, Begin
  <2>2. /\ st' \in States /\ st'.step = StepOf(st'.phase) /\ SameRoles(st', st) /\ SameSeal(st', st)
        /\ st'.tainted = st.tainted /\ st'.ops = st.ops
        /\ \A phase \in Phases : st' = Moved(st, phase) => st'.phase = phase
    BY <2>1, MovedShape, Names DEF TypeOK, States
  <2>3. pc = "idle" /\ loc' \in LocalStates /\ loc'.at = 1 /\ ~loc'.bad /\ ~loc'.open
    BY FreshShape DEF BeginCreate, BeginInstall, BeginTest, BeginEvidence, BeginLogout,
       BeginDestroy, BeginVerify, Begin, Enter, Fresh, LocalStates
  <2>4. CASE BeginCreate \/ BeginInstall \/ BeginTest \/ BeginEvidence
    BY <2>2, <2>3, <2>4, Names DEF BeginCreate, BeginInstall, BeginTest, BeginEvidence, Begin,
       Enter, world, bounds, history
  <2>5. CASE BeginLogout \/ BeginDestroy \/ BeginVerify
    BY <2>2, <2>3, <2>5, Names DEF BeginLogout, BeginDestroy, BeginVerify, Begin, Enter, world,
       bounds, history
  <2> QED
    BY <2>4, <2>5
<1>2. /\ TypeOK /\ st \in States /\ CreateOrder' = CreateOrder /\ CleanupOrder' = CleanupOrder
      /\ Managed' = Managed /\ (UsesIds' <=> UsesIds) /\ (Identified' <=> Identified)
  BY <1>1, Steady DEF TypeOK, States
<1>3. \A r \in Roles : daemon[r] = "coming" => st.tainted
  BY <1>1, Orders DEF NeedsHold, Unresolved, Held, Ledger, Asked
<1>4. st'.phase \in Phases /\ StepOf(st'.phase) \in Steps /\ StepOf(st'.phase) = PendingStep[st'.phase]
  BY <1>1, StepOfShape, Names
<1>5. TypeOK'
  BY <1>1, <1>2, <1>3, <1>4, Names DEF TypeOK, States, LocalStates, PCs, Terminal, SameRoles,
     SameSeal
<1>6. Located'
  <2>1. /\ 1 <= Len(CreateOrder') /\ 1 <= Len(CleanupOrder')
    BY <1>2, Orders
  <2>2. /\ pc' \in Creating => st'.phase = "CREATE_PENDING"
        /\ pc' \in Installing => st'.phase = "INSTALL_PENDING"
        /\ pc' \in Destroying => st'.phase = "DESTROY_PENDING"
        /\ pc' \notin Publishing
        /\ pc' = "test" => st'.phase = "TEST_PENDING"
        /\ pc' = "evidence" => st'.phase = "EVIDENCE_PENDING"
        /\ pc' = "logout" => st'.phase = "LOGOUT_PENDING"
        /\ pc' = "verify" => st'.phase = "VERIFY_CLEAN_PENDING"
    BY <1>1 DEF Creating, Installing, Cleaning, Deriving, Destroying, Publishing
  <2> QED
    BY <1>1, <2>1, <2>2 DEF Located, Creating, Cleaning
<1>7. Asked' /\ Ledger'
  BY <1>1, <1>2, <1>3, <1>4, Orders DEF Asked, CreatedOnce, Ledger, RemovedAreGone, SameRoles
<1>8. Held'
  BY <1>1, <1>2, <1>3, <1>4 DEF Held, SameRoles
<1>9. Derived' /\ Window'
  BY <1>1, <1>2, <1>3, <1>4 DEF Derived, Deriving, Window, SameRoles
<1>10. Reported'
  BY <1>1, <1>2, <1>3, <1>4, Names DEF Reported, AnyFailed, Interrupted
<1>11. Sealed'
  BY <1>1, <1>2, <1>3, <1>4 DEF Sealed, CleanMeansGone, Result, SealPhases, Terminal, SameSeal
<1> QED
  BY <1>5, <1>6, <1>7, <1>8, <1>9, <1>10, <1>11

(* Capturing the snapshot and binding it to the lab come before any role. *)
LEMMA SnapshotsIInv ==
    ASSUME IInv, CaptureSnapshot \/ BindSnapshot
    PROVE  IInv'
<1> USE DEF IInv
<1>1. /\ pc = "idle" /\ alive /\ st.phase = "NEW" /\ st.base = "unbound"
      /\ snapshot' \in {snapshot, "unmarked", "marked"}
      /\ st' = st \/ st' = [st EXCEPT !.base = "bound"]
      /\ faults' \in 0 .. MaxFaults /\ alive' \in BOOLEAN /\ spoiled' \in BOOLEAN
      /\ spoiled' => spoiled \/ ~alive'
      /\ UNCHANGED <<profile, daemon, online, evidence, pc, loc, crashes, asked>>
  <2>1. CASE CaptureSnapshot
    <3>1. faults' \in 0 .. MaxFaults
      BY <2>1, FaultShape DEF CaptureSnapshot
    <3>2. /\ pc = "idle" /\ alive /\ st.phase = "NEW" /\ st.base = "unbound"
          /\ snapshot' \in {snapshot, "unmarked", "marked"}
          /\ UNCHANGED <<profile, st, daemon, online, evidence, pc, loc, crashes, asked>>
      BY <2>1 DEF CaptureSnapshot
    <3>3. UNCHANGED <<alive, spoiled>> \/ (alive' = FALSE /\ spoiled' = TRUE)
      BY <2>1 DEF CaptureSnapshot, Fault
    <3>4. alive \in BOOLEAN /\ spoiled \in BOOLEAN
      BY DEF TypeOK
    <3>5. alive' \in BOOLEAN /\ spoiled' \in BOOLEAN
      BY <3>3, <3>4
    <3>6. spoiled' => spoiled \/ ~alive'
      BY <3>3
    <3> QED
      BY <3>1, <3>2, <3>5, <3>6
  <2>2. CASE BindSnapshot
    BY <2>2 DEF BindSnapshot, world, proc, bounds, history, TypeOK
  <2> QED
    BY <2>1, <2>2
<1>2. /\ TypeOK /\ st \in States /\ CreateOrder' = CreateOrder /\ CleanupOrder' = CleanupOrder
      /\ Managed' = Managed /\ (UsesIds' <=> UsesIds) /\ (Identified' <=> Identified)
  BY <1>1, Steady DEF TypeOK, States
<1>3. /\ st' \in States /\ st'.phase = st.phase /\ st'.step = st.step /\ SameSeal(st', st)
      /\ st'.ids = st.ids /\ st'.created = st.created /\ st'.removed = st.removed
      /\ st'.tainted = st.tainted /\ st'.ops = st.ops /\ st'.base \in {"unbound", "bound"}
  BY <1>1, <1>2 DEF States, SameSeal
<1>4. TypeOK'
  BY <1>1, <1>2, <1>3 DEF TypeOK, States, LocalStates, PCs, Terminal, SameSeal
<1>5. Located'
  BY <1>1, <1>2, <1>3 DEF Located, Creating, Installing, Cleaning, Deriving, Destroying,
     Publishing
<1>6. Asked' /\ Ledger'
  BY <1>1, <1>2, <1>3 DEF Asked, CreatedOnce, Ledger, RemovedAreGone, SameRoles
<1>7. Held'
  BY <1>1, <1>2, <1>3 DEF Held, SameRoles
<1>8. Derived' /\ Window'
  BY <1>1, <1>2, <1>3 DEF Derived, Deriving, Window, SameRoles
<1>9. Reported'
  BY <1>1, <1>2, <1>3, Names DEF Reported, AnyFailed, Interrupted
<1>10. Sealed'
  BY <1>1, <1>2, <1>3 DEF Sealed, CleanMeansGone, Result, SealPhases, Terminal, SameSeal
<1> QED
  BY <1>4, <1>5, <1>6, <1>7, <1>8, <1>9, <1>10

(* A submission asks for a role that is nowhere, with one outcome of three. *)
LEMMA SubmitsIInv ==
    ASSUME IInv, NEW r, NEW o \in {"absent", "coming", "present"},
           pc = "command", Command \/ CreateInterrupted,
           r = CreateOrder[loc.at], asked' = [asked EXCEPT ![r] = asked[r] + 1],
           daemon' = [daemon EXCEPT ![r] = o], (o = "coming" => UsesIds),
           (pc' = "inspect" => o = "present")
    PROVE  IInv'
<1> USE DEF IInv
<1>1. /\ pc = "command" /\ loc.at \in 1 .. Len(CreateOrder)
      /\ st' \in States /\ st'.phase = st.phase /\ st'.step = st.step /\ st'.ops = st.ops
      /\ SameRoles(st', st) /\ SameSeal(st', st) /\ (st.tainted => st'.tainted)
      /\ \/ pc' = "inspect" /\ loc'.at = loc.at
         \/ pc' = "failing" /\ (UsesIds => loc'.open)
         \/ pc' = "idle"
      /\ loc' \in LocalStates /\ ~loc'.bad /\ ~loc.bad
      /\ faults' \in 0 .. MaxFaults /\ crashes' \in 0 .. MaxCrashes
      /\ alive' \in BOOLEAN /\ spoiled' \in BOOLEAN
      /\ pc' = "inspect" => spoiled' = spoiled
      /\ UNCHANGED <<profile, online, snapshot, evidence>>
  <2>1. /\ loc \in LocalStates /\ st \in States /\ ~loc.bad /\ loc.at \in 1 .. 4
        /\ loc.at <= Len(CreateOrder) /\ Len(CreateOrder) \in 1 .. 3
    BY Orders DEF TypeOK, LocalStates, States, Located, Creating, Destroying, Cleaning, Deriving
  <2>2. /\ faults' \in 0 .. MaxFaults /\ crashes' \in 0 .. MaxCrashes
    <3>1. Fault \/ UNCHANGED faults
      BY DEF Command, CreateInterrupted, NoFault
    <3>2. (crashes < MaxCrashes /\ crashes' = crashes + 1) \/ UNCHANGED crashes
      BY DEF Command, CreateInterrupted
    <3> QED
      BY <3>1, <3>2, FaultShape, CrashShape
  <2>3. UsesIds \in BOOLEAN /\ alive \in BOOLEAN /\ spoiled \in BOOLEAN
    BY DEF UsesIds, TypeOK
  <2>4. /\ st' = st \/ st' = [st EXCEPT !.tainted = TRUE]
        /\ alive' \in BOOLEAN /\ spoiled' \in BOOLEAN
        /\ pc' = "inspect" => spoiled' = spoiled
    BY <2>3, Zenon DEF Command, CreateInterrupted, Fault, NoFault, Leave
  <2>5. /\ st' \in States /\ st'.phase = st.phase /\ st'.step = st.step /\ st'.ops = st.ops
        /\ SameRoles(st', st) /\ SameSeal(st', st) /\ (st.tainted => st'.tainted)
    BY <2>1, <2>4 DEF States, SameRoles, SameSeal
  <2>6. \/ pc' \in {"inspect", "failing"} /\ loc' = [loc EXCEPT !.open = UsesIds]
        \/ pc' = "idle" /\ loc' = Fresh
    BY DEF Command, CreateInterrupted, Leave
  <2>7. /\ loc' \in LocalStates /\ ~loc'.bad
        /\ pc' # "idle" => loc'.at = loc.at /\ loc'.open = UsesIds
    BY <2>1, <2>3, <2>6, FreshShape DEF LocalStates
  <2>8. UNCHANGED <<profile, online, snapshot, evidence>>
    BY DEF Command, CreateInterrupted
  <2>9. loc.at \in 1 .. Len(CreateOrder)
    BY <2>1
  <2> QED
    BY <2>1, <2>2, <2>4, <2>5, <2>6, <2>7, <2>8, <2>9
<1>2. /\ TypeOK /\ st \in States /\ CreateOrder' = CreateOrder /\ CleanupOrder' = CleanupOrder
      /\ Managed' = Managed /\ (UsesIds' <=> UsesIds) /\ (Identified' <=> Identified)
  BY <1>1, Steady DEF TypeOK, States
<1>3. /\ r \in Managed /\ r \in Roles /\ asked[r] = 0 /\ daemon[r] = "absent"
      /\ r \notin st.ids \cup st.created
  BY <1>1, Orders DEF Asked
<1>4. /\ asked \in [Roles -> Nat] /\ daemon \in [Roles -> {"absent", "coming", "present"}]
      /\ asked' \in [Roles -> Nat] /\ daemon' \in [Roles -> {"absent", "coming", "present"}]
      /\ asked'[r] = 1 /\ daemon'[r] = o
      /\ \A q \in Roles : q # r => asked'[q] = asked[q] /\ daemon'[q] = daemon[q]
  BY <1>3 DEF TypeOK
<1>5. st.phase = "CREATE_PENDING"
  BY <1>1 DEF Located, Creating
<1>6. UsesIds => \A q \in Roles : q # r => asked[q] = 0
  BY <1>1, <1>3 DEF Asked, Managed, UsesIds
<1>7. TypeOK'
  <2>1. /\ st' \in States /\ st'.removed \subseteq st'.created
        /\ st'.phase \in DOMAIN PendingStep => st'.step = PendingStep[st'.phase]
        /\ st'.phase = "RECOVERY_REQUIRED" => st'.step \in Steps \ {"seal"}
        /\ (st'.intent # "none") <=> st'.phase \in {"SEAL_PENDING"} \cup Terminal
        /\ st'.intent # "none" => st'.draft
    BY <1>1, <1>2, <1>3, <1>4, <1>5, <1>6, Names DEF TypeOK, SameRoles, SameSeal, States, Terminal
  <2>2. alive' \in BOOLEAN /\ spoiled' \in BOOLEAN /\ online' \in BOOLEAN
    BY <1>1, <1>2, <1>3, <1>4, <1>5, <1>6 DEF TypeOK
  <2>3. /\ daemon' \in [Roles -> {"absent", "coming", "present"}] /\ asked' \in [Roles -> Nat]
        /\ faults' \in 0 .. MaxFaults /\ crashes' \in 0 .. MaxCrashes /\ profile' \in Profiles
        /\ snapshot' \in {"absent", "unmarked", "marked", "opened", "tomb"}
        /\ evidence' \in {"none", "passed", "failed_clean"}
    BY <1>1, <1>2, <1>3, <1>4, <1>5, <1>6 DEF TypeOK
  <2>4. pc' \in PCs /\ loc' \in LocalStates
    BY <1>1, <1>2, <1>3, <1>4, <1>5, <1>6 DEF TypeOK, PCs, LocalStates, Creating, Cleaning,
       Deriving
  <2> QED
    BY <2>1, <2>2, <2>3, <2>4 DEF TypeOK, States, LocalStates
<1>8. Located'
  BY <1>1, <1>2, <1>3, <1>4, <1>5, <1>6 DEF Located, Creating, Installing, Cleaning, Deriving,
     Destroying, Publishing
<1>9. Asked' /\ Ledger'
  <2>1. \A i \in 1 .. Len(CreateOrder) : i > loc.at => CreateOrder[i] # r /\ CreateOrder[i] \in Roles
    BY <1>1, Orders
  <2>2. Asked'
    BY <1>1, <1>2, <1>3, <1>4, <1>5, <1>6, <2>1 DEF Asked, CreatedOnce, SameRoles
  <2>3. r \notin st.removed
    BY <1>3 DEF TypeOK
  <2>4. RemovedAreGone'
    BY <1>1, <1>2, <1>3, <1>4, <1>5, <1>6, <2>3 DEF Ledger, RemovedAreGone, SameRoles, TypeOK
  <2>5. Ledger'
    BY <1>1, <1>2, <1>3, <1>4, <1>5, <1>6, <2>4 DEF Ledger, SameRoles
  <2> QED
    BY <2>2, <2>5
<1>10. Held'
  BY <1>1, <1>2, <1>3, <1>4, <1>5, <1>6 DEF Held, Asked
<1>11. Derived' /\ Window'
  BY <1>1, <1>2, <1>3, <1>4, <1>5, <1>6 DEF Derived, Deriving, Window, SameRoles
<1>12. Reported'
  <2>1. Interrupted(st) /\ Interrupted(st')
    BY <1>1, <1>2, <1>3, <1>4, <1>5, <1>6, Names DEF Interrupted
  <2>2. AnyFailed(st)' <=> AnyFailed(st)
    BY <1>1 DEF AnyFailed
  <2>3. spoiled' => spoiled \/ pc' \in {"idle", "failing"}
    BY <1>1
  <2>4. spoiled => AnyFailed(st)
    BY <1>1, <1>5 DEF Reported, Interrupted
  <2> QED
    BY <2>1, <2>2, <2>3, <2>4 DEF Reported
<1>13. Sealed'
  BY <1>1, <1>2, <1>3, <1>4, <1>5, <1>6 DEF Sealed, CleanMeansGone, Result, SealPhases,
     Terminal, SameSeal
<1> QED
  BY <1>7, <1>8, <1>9, <1>10, <1>11, <1>12, <1>13

(* The steps of create that only move the process on. *)
LEMMA CreateRestsIInv ==
    ASSUME IInv, 
           \/ CheckFails
           \/ (Inspect \/ Start) /\ Fault /\ pc' = "failing" /\ UNCHANGED st
           \/ CreateFails /\ loc.open
           \/ CreateInterrupted /\ pc # "command"
    PROVE  IInv'
<1> USE DEF IInv
<1>1. /\ pc \in Creating /\ pc' \in {"failing", "idle"}
      /\ st' \in States /\ st'.phase = st.phase /\ st'.step = st.step /\ st'.ops = st.ops
      /\ SameRoles(st', st) /\ SameSeal(st', st) /\ (st.tainted => st'.tainted)
      /\ pc = "failing" => st'.tainted
      /\ loc' \in LocalStates /\ ~loc'.bad
      /\ faults' \in 0 .. MaxFaults /\ crashes' \in 0 .. MaxCrashes /\ spoiled' \in BOOLEAN
      /\ UNCHANGED <<profile, daemon, online, snapshot, evidence, alive, asked>>
  <2>1. /\ pc \in Creating /\ loc \in LocalStates /\ st \in States /\ ~loc.bad
    BY DEF CheckFails, Inspect, Start, CreateFails, CreateInterrupted, TypeOK, LocalStates,
       States, Located, Creating, Destroying, Cleaning, Deriving
  <2>2. /\ faults' \in 0 .. MaxFaults /\ crashes' \in 0 .. MaxCrashes
    <3>1. Fault \/ UNCHANGED faults
      BY DEF CheckFails, CreateInterrupted, CreateFails, bounds
    <3>2. (crashes < MaxCrashes /\ crashes' = crashes + 1) \/ UNCHANGED crashes
      BY DEF CheckFails, Inspect, Start, CreateFails, CreateInterrupted, bounds
    <3> QED
      BY <3>1, <3>2, FaultShape, CrashShape
  <2>3. spoiled' \in BOOLEAN
    <3>1. spoiled \in BOOLEAN /\ (spoiled' = TRUE \/ spoiled' = spoiled)
      BY DEF TypeOK, CheckFails, CreateFails, CreateInterrupted, Fault, history
    <3> QED
      BY <3>1
  <2>4. /\ st' = st \/ st' = [st EXCEPT !.tainted = TRUE]
        /\ pc = "failing" => st' = [st EXCEPT !.tainted = TRUE]
    BY DEF CheckFails, Inspect, Start, CreateFails, CreateInterrupted
  <2>5. /\ st' \in States /\ st'.phase = st.phase /\ st'.step = st.step /\ st'.ops = st.ops
        /\ SameRoles(st', st) /\ SameSeal(st', st) /\ (st.tainted => st'.tainted)
        /\ pc = "failing" => st'.tainted
    BY <2>1, <2>4 DEF States, SameRoles, SameSeal
  <2>6. /\ pc' \in {"failing", "idle"}
        /\ loc' = loc \/ loc' = [loc EXCEPT !.open = FALSE] \/ loc' = Fresh
    BY DEF CheckFails, Inspect, Start, CreateFails, CreateInterrupted, Goto, NoFault, Fault,
       Leave, Finish
  <2>7. loc' \in LocalStates /\ ~loc'.bad
    BY <2>1, <2>6, FreshShape DEF LocalStates
  <2>8. UNCHANGED <<profile, daemon, online, snapshot, evidence, alive, asked>>
    BY DEF CheckFails, Inspect, Start, CreateFails, CreateInterrupted, world, history
  <2> QED
    BY <2>1, <2>2, <2>3, <2>5, <2>6, <2>7, <2>8
<1>2. /\ TypeOK /\ st \in States /\ CreateOrder' = CreateOrder /\ CleanupOrder' = CleanupOrder
      /\ Managed' = Managed /\ (UsesIds' <=> UsesIds) /\ (Identified' <=> Identified)
  BY <1>1, Steady DEF TypeOK, States
<1>3. st.phase = "CREATE_PENDING"
  BY <1>1 DEF Located
<1>4. TypeOK'
  <2>1. /\ st' \in States /\ st'.removed \subseteq st'.created
        /\ st'.phase \in DOMAIN PendingStep => st'.step = PendingStep[st'.phase]
        /\ st'.phase = "RECOVERY_REQUIRED" => st'.step \in Steps \ {"seal"}
        /\ (st'.intent # "none") <=> st'.phase \in {"SEAL_PENDING"} \cup Terminal
        /\ st'.intent # "none" => st'.draft
    BY <1>1, <1>2, <1>3, Names DEF TypeOK, SameRoles, SameSeal, States, Terminal
  <2>2. alive' \in BOOLEAN /\ spoiled' \in BOOLEAN /\ online' \in BOOLEAN
    BY <1>1, <1>2, <1>3 DEF TypeOK
  <2>3. /\ daemon' \in [Roles -> {"absent", "coming", "present"}] /\ asked' \in [Roles -> Nat]
        /\ faults' \in 0 .. MaxFaults /\ crashes' \in 0 .. MaxCrashes /\ profile' \in Profiles
        /\ snapshot' \in {"absent", "unmarked", "marked", "opened", "tomb"}
        /\ evidence' \in {"none", "passed", "failed_clean"}
    BY <1>1, <1>2, <1>3 DEF TypeOK
  <2>4. pc' \in PCs /\ loc' \in LocalStates
    BY <1>1, <1>2, <1>3 DEF TypeOK, PCs, LocalStates, Creating, Cleaning, Deriving
  <2> QED
    BY <2>1, <2>2, <2>3, <2>4 DEF TypeOK, States, LocalStates
<1>5. Located'
  BY <1>1, <1>2, <1>3 DEF Located, Creating, Installing, Cleaning, Deriving, Destroying,
     Publishing
<1>6. Asked' /\ Ledger'
  BY <1>1, <1>2, <1>3 DEF Asked, CreatedOnce, Ledger, RemovedAreGone, SameRoles
<1>7. Held'
  BY <1>1, <1>2, <1>3 DEF Held, Creating
<1>8. Derived' /\ Window'
  BY <1>1, <1>2, <1>3 DEF Derived, Deriving, Window, SameRoles
<1>9. Reported'
  BY <1>1, <1>2, <1>3, Names DEF Reported, AnyFailed, Interrupted
<1>10. Sealed'
  BY <1>1, <1>2, <1>3 DEF Sealed, CleanMeansGone, Result, SealPhases, Terminal, SameSeal
<1> QED
  BY <1>4, <1>5, <1>6, <1>7, <1>8, <1>9, <1>10

(* An inspection that finds the role leaves it present. *)
LEMMA InspectsIInv ==
    ASSUME IInv, Inspect, pc' = "own"
    PROVE  IInv'
<1> USE DEF IInv
<1>1. /\ pc = "inspect" /\ loc.at \in 1 .. Len(CreateOrder)
      /\ st' = st \/ (UsesIds /\ st' = [st EXCEPT !.ids = st.ids \cup {CreateOrder[loc.at]}])
      /\ UNCHANGED <<profile, daemon, online, snapshot, evidence, loc, alive, faults, crashes, asked, spoiled>>
  <2>1. loc.at \in 1 .. 4 /\ loc.at <= Len(CreateOrder) /\ Len(CreateOrder) \in 1 .. 3
    BY Orders DEF Inspect, TypeOK, Located, Creating
  <2> QED
    BY <2>1 DEF Inspect, Goto, NoFault, world
<1>2. /\ TypeOK /\ st \in States /\ CreateOrder' = CreateOrder /\ CleanupOrder' = CleanupOrder
      /\ Managed' = Managed /\ (UsesIds' <=> UsesIds) /\ (Identified' <=> Identified)
  BY <1>1, Steady DEF TypeOK, States
<1>3. CreateOrder[loc.at] \in Roles /\ CreateOrder[loc.at] \in Managed
  BY <1>1, Orders
<1>4. /\ daemon[CreateOrder[loc.at]] = "present" /\ asked[CreateOrder[loc.at]] # 0
  BY <1>1, <1>3 DEF Ledger, Asked
<1>5. /\ st' \in States /\ st'.phase = st.phase /\ st'.step = st.step /\ SameSeal(st', st)
      /\ st'.ids \subseteq st.ids \cup {CreateOrder[loc.at]} /\ st'.created = st.created
      /\ st'.removed = st.removed /\ st'.base = st.base
      /\ st'.tainted = st.tainted /\ st'.ops = st.ops
  BY <1>1, <1>2, <1>3 DEF States, SameSeal
<1>6. st.phase = "CREATE_PENDING"
  BY <1>1 DEF Located, Creating
<1>7. TypeOK'
  <2>1. /\ st' \in States /\ st'.removed \subseteq st'.created
        /\ st'.phase \in DOMAIN PendingStep => st'.step = PendingStep[st'.phase]
        /\ st'.phase = "RECOVERY_REQUIRED" => st'.step \in Steps \ {"seal"}
        /\ (st'.intent # "none") <=> st'.phase \in {"SEAL_PENDING"} \cup Terminal
        /\ st'.intent # "none" => st'.draft
    BY <1>1, <1>2, <1>3, <1>4, <1>5, <1>6, Names DEF TypeOK, SameRoles, SameSeal, States, Terminal
  <2>2. alive' \in BOOLEAN /\ spoiled' \in BOOLEAN /\ online' \in BOOLEAN
    BY <1>1, <1>2, <1>3, <1>4, <1>5, <1>6 DEF TypeOK
  <2>3. /\ daemon' \in [Roles -> {"absent", "coming", "present"}] /\ asked' \in [Roles -> Nat]
        /\ faults' \in 0 .. MaxFaults /\ crashes' \in 0 .. MaxCrashes /\ profile' \in Profiles
        /\ snapshot' \in {"absent", "unmarked", "marked", "opened", "tomb"}
        /\ evidence' \in {"none", "passed", "failed_clean"}
    BY <1>1, <1>2, <1>3, <1>4, <1>5, <1>6 DEF TypeOK
  <2>4. pc' \in PCs /\ loc' \in LocalStates
    BY <1>1, <1>2, <1>3, <1>4, <1>5, <1>6 DEF TypeOK, PCs, LocalStates, Creating, Cleaning,
       Deriving
  <2> QED
    BY <2>1, <2>2, <2>3, <2>4 DEF TypeOK, States, LocalStates
<1>8. Located'
  BY <1>1, <1>2, <1>3, <1>4, <1>5, <1>6 DEF Located, Creating, Installing, Cleaning, Deriving,
     Destroying, Publishing
<1>9. Asked' /\ Ledger'
  BY <1>1, <1>2, <1>3, <1>4, <1>5, <1>6 DEF Asked, CreatedOnce, Ledger, RemovedAreGone, SameRoles
<1>10. Held'
  BY <1>1, <1>2, <1>3, <1>4, <1>5, <1>6 DEF Held, SameRoles
<1>11. Derived' /\ Window'
  BY <1>1, <1>2, <1>3, <1>4, <1>5, <1>6 DEF Derived, Deriving, Window, SameRoles
<1>12. Reported'
  BY <1>1, <1>2, <1>3, <1>4, <1>5, <1>6, Names DEF Reported, AnyFailed, Interrupted
<1>13. Sealed'
  BY <1>1, <1>2, <1>3, <1>4, <1>5, <1>6 DEF Sealed, CleanMeansGone, Result, SealPhases,
     Terminal, SameSeal
<1> QED
  BY <1>7, <1>8, <1>9, <1>10, <1>11, <1>12, <1>13

(* A role goes into the ledger only when it is present. *)
LEMMA OwnsIInv ==
    ASSUME IInv, RecordOwned
    PROVE  IInv'
<1> USE DEF IInv
<1>1. /\ pc = "own" /\ loc.at \in 1 .. Len(CreateOrder)
      /\ st' = [st EXCEPT !.created = st.created \cup {CreateOrder[loc.at]}]
      /\ \/ pc' = "command" /\ loc'.at = loc.at + 1 /\ loc.at + 1 <= Len(CreateOrder)
         \/ pc' = "start" /\ loc'.at = loc.at
      /\ loc' \in LocalStates /\ loc'.bad = loc.bad
      /\ UNCHANGED <<profile, daemon, online, snapshot, evidence, alive, faults, crashes, asked, spoiled>>
  <2>1. loc.at \in 1 .. 4 /\ loc.at <= Len(CreateOrder) /\ Len(CreateOrder) \in 1 .. 3
    BY Orders DEF RecordOwned, TypeOK, Located, Creating
  <2>2. loc \in LocalStates
    BY DEF TypeOK, LocalStates
  <2>3. \/ /\ pc' = "command" /\ loc.at < Len(CreateOrder)
           /\ loc' = [loc EXCEPT !.at = loc.at + 1, !.open = FALSE]
        \/ pc' = "start" /\ loc' = [loc EXCEPT !.open = FALSE]
    BY DEF RecordOwned
  <2>4. /\ \/ pc' = "command" /\ loc'.at = loc.at + 1 /\ loc.at + 1 <= Len(CreateOrder)
           \/ pc' = "start" /\ loc'.at = loc.at
        /\ loc' \in LocalStates
    <3>1. loc.at < Len(CreateOrder) => loc.at + 1 \in 1 .. 4 /\ loc.at + 1 <= Len(CreateOrder)
      BY <2>1, Within
    <3> QED
      BY <2>2, <2>3, <3>1 DEF LocalStates
  <2>5. loc'.bad = loc.bad
    BY <2>2, <2>3, Zenon DEF LocalStates
  <2> QED
    BY <2>1, <2>4, <2>5 DEF RecordOwned, world, bounds, history
<1>2. /\ TypeOK /\ st \in States /\ CreateOrder' = CreateOrder /\ CleanupOrder' = CleanupOrder
      /\ Managed' = Managed /\ (UsesIds' <=> UsesIds) /\ (Identified' <=> Identified)
  BY <1>1, Steady DEF TypeOK, States
<1>3. CreateOrder[loc.at] \in Roles /\ CreateOrder[loc.at] \in Managed
  BY <1>1, Orders
<1>4. /\ daemon[CreateOrder[loc.at]] = "present" /\ asked[CreateOrder[loc.at]] # 0
  BY <1>1, <1>3 DEF Ledger, Asked
<1>5. /\ st' \in States /\ st'.phase = st.phase /\ st'.step = st.step /\ SameSeal(st', st)
      /\ st'.created = st.created \cup {CreateOrder[loc.at]} /\ st'.ids = st.ids
      /\ st'.removed = st.removed /\ st'.base = st.base
      /\ st'.tainted = st.tainted /\ st'.ops = st.ops
  BY <1>1, <1>2, <1>3 DEF States, SameSeal
<1>6. /\ st.phase = "CREATE_PENDING"
      /\ loc'.at <= Len(CreateOrder) /\ ~loc'.bad
  BY <1>1 DEF Located, Creating, Destroying, Cleaning, Deriving
<1>7. Len(CreateOrder) \in Nat /\ loc.at \in Nat
  BY <1>1, Orders
<1>8. TypeOK'
  <2>1. /\ st' \in States /\ st'.removed \subseteq st'.created
        /\ st'.phase \in DOMAIN PendingStep => st'.step = PendingStep[st'.phase]
        /\ st'.phase = "RECOVERY_REQUIRED" => st'.step \in Steps \ {"seal"}
        /\ (st'.intent # "none") <=> st'.phase \in {"SEAL_PENDING"} \cup Terminal
        /\ st'.intent # "none" => st'.draft
    BY <1>1, <1>2, <1>3, <1>4, <1>5, <1>6, <1>7, Names DEF TypeOK, SameRoles, SameSeal, States,
       Terminal
  <2>2. alive' \in BOOLEAN /\ spoiled' \in BOOLEAN /\ online' \in BOOLEAN
    BY <1>1, <1>2, <1>3, <1>4, <1>5, <1>6, <1>7 DEF TypeOK
  <2>3. /\ daemon' \in [Roles -> {"absent", "coming", "present"}] /\ asked' \in [Roles -> Nat]
        /\ faults' \in 0 .. MaxFaults /\ crashes' \in 0 .. MaxCrashes /\ profile' \in Profiles
        /\ snapshot' \in {"absent", "unmarked", "marked", "opened", "tomb"}
        /\ evidence' \in {"none", "passed", "failed_clean"}
    BY <1>1, <1>2, <1>3, <1>4, <1>5, <1>6, <1>7 DEF TypeOK
  <2>4. pc' \in PCs /\ loc' \in LocalStates
    BY <1>1, <1>2, <1>3, <1>4, <1>5, <1>6, <1>7 DEF TypeOK, PCs, LocalStates, Creating,
       Cleaning, Deriving
  <2> QED
    BY <2>1, <2>2, <2>3, <2>4 DEF TypeOK, States, LocalStates
<1>9. Located'
  BY <1>1, <1>2, <1>3, <1>4, <1>5, <1>6, <1>7 DEF Located, Creating, Installing, Cleaning,
     Deriving, Destroying, Publishing
<1>10. Asked' /\ Ledger'
  BY <1>1, <1>2, <1>3, <1>4, <1>5, <1>6, <1>7 DEF Asked, CreatedOnce, Ledger, RemovedAreGone,
     SameRoles
<1>11. Held'
  BY <1>1, <1>2, <1>3, <1>4, <1>5, <1>6, <1>7 DEF Held, SameRoles
<1>12. Derived' /\ Window'
  BY <1>1, <1>2, <1>3, <1>4, <1>5, <1>6, <1>7 DEF Derived, Deriving, Window, SameRoles
<1>13. Reported'
  BY <1>1, <1>2, <1>3, <1>4, <1>5, <1>6, <1>7, Names DEF Reported, AnyFailed, Interrupted
<1>14. Sealed'
  BY <1>1, <1>2, <1>3, <1>4, <1>5, <1>6, <1>7 DEF Sealed, CleanMeansGone, Result, SealPhases,
     Terminal, SameSeal
<1> QED
  BY <1>8, <1>9, <1>10, <1>11, <1>12, <1>13, <1>14

(* A failed operation asks for recovery, and its failure is observed. *)
LEMMA FailsIInv ==
    ASSUME IInv, 
           \/ CreateFails /\ ~loc.open
           \/ Settle /\ loc.bad
           \/ (Test \/ CaptureEvidence) /\ Fault /\ st'.phase = "RECOVERY_REQUIRED"
    PROVE  IInv'
<1> USE DEF IInv
<1>1. /\ pc \in {"failing", "settle", "test", "evidence"} /\ (pc = "failing" => ~loc.open)
      /\ st.phase \in {"CREATE_PENDING", "INSTALL_PENDING", "TEST_PENDING", "EVIDENCE_PENDING"}
      /\ st' \in States /\ st'.phase = "RECOVERY_REQUIRED" /\ st'.step \in Steps \ {"seal"}
      /\ SameRoles(st', st) /\ SameSeal(st', st) /\ st'.tainted = st.tainted
      /\ AnyFailed(st')
      /\ pc' = "idle" /\ loc' \in LocalStates /\ ~loc'.bad
      /\ faults' \in 0 .. MaxFaults /\ spoiled' \in BOOLEAN
      /\ UNCHANGED <<profile, daemon, online, snapshot, evidence, alive, crashes, asked>>
  <2>1. \E step \in Steps \ {"seal"} : Fail(step) /\ st' = Recovering(st, step)
    <3>1. CASE (CreateFails /\ ~loc.open) \/ (Settle /\ loc.bad)
      <4>1. Fail("create") \/ Fail("install")
        BY <3>1 DEF CreateFails, Settle
      <4> QED
        BY <4>1, Names DEF Fail
    <3>2. CASE Test /\ st'.phase = "RECOVERY_REQUIRED"
      <4>1. Finish("test", "succeeded", "TESTED") => st'.phase = "TESTED"
        <5>1. "test" \in Steps /\ "TESTED" \in Phases
          BY Names
        <5>2. Observed(Moved(st, "TESTED"), "test", "succeeded").phase = "TESTED"
          BY <5>1, FinishShape
        <5> QED
          BY <5>2 DEF Finish
      <4> QED
        BY <3>2, <4>1, Names DEF Test, Fail
    <3>3. CASE CaptureEvidence /\ st'.phase = "RECOVERY_REQUIRED"
      <4> DEFINE s == Observed(Moved(st, "EVIDENCE_CAPTURED"), "evidence", "succeeded")
      <4>1. s \in States /\ s.phase = "EVIDENCE_CAPTURED"
        <5>1. "evidence" \in Steps /\ "EVIDENCE_CAPTURED" \in Phases
          BY Names
        <5> QED
          BY <5>1, FinishShape
      <4> HIDE DEF s
      <4>2. [s EXCEPT !.draft = TRUE].phase = "EVIDENCE_CAPTURED"
        BY <4>1 DEF States
      <4>3. CaptureEvidence => st' = [s EXCEPT !.draft = TRUE] \/ Fail("evidence")
        BY DEF CaptureEvidence, s
      <4> QED
        BY <3>3, <4>2, <4>3, Names DEF Fail
    <3> QED
      BY <3>1, <3>2, <3>3
  <2>2. PICK step \in Steps \ {"seal"} : Fail(step) /\ st' = Recovering(st, step)
    BY <2>1
  <2>3. /\ st' \in States /\ st'.phase = "RECOVERY_REQUIRED" /\ st'.step = step
        /\ SameRoles(st', st) /\ SameSeal(st', st) /\ st'.tainted = st.tainted
        /\ \E o \in st'.ops : o[2] = "failed"
    BY <2>2, RecoveringShape
  <2>4. AnyFailed(st')
    BY <2>3 DEF AnyFailed
  <2>5. pc' = "idle" /\ loc' \in LocalStates /\ ~loc'.bad
    BY <2>2, FreshShape DEF Fail, Leave
  <2>6. faults' \in 0 .. MaxFaults
    BY FaultShape DEF CreateFails, Settle, bounds
  <2>7. spoiled' \in BOOLEAN
    <3>1. spoiled \in BOOLEAN /\ (spoiled' = TRUE \/ spoiled' = spoiled)
      BY DEF TypeOK, CreateFails, Settle, Fault, history
    <3> QED
      BY <3>1
  <2>8. pc \in {"failing", "settle", "test", "evidence"} /\ (pc = "failing" => ~loc.open)
    BY DEF CreateFails, Settle, Test, CaptureEvidence
  <2>9. st.phase \in {"CREATE_PENDING", "INSTALL_PENDING", "TEST_PENDING", "EVIDENCE_PENDING"}
    BY <2>8 DEF Located, Creating, Installing
  <2>10. UNCHANGED <<profile, daemon, online, snapshot, evidence, alive, crashes, asked>>
    BY DEF CreateFails, Settle, Test, CaptureEvidence, world, bounds, history
  <2> QED
    BY <2>2, <2>3, <2>4, <2>5, <2>6, <2>7, <2>8, <2>9, <2>10
<1>2. /\ TypeOK /\ st \in States /\ CreateOrder' = CreateOrder /\ CleanupOrder' = CleanupOrder
      /\ Managed' = Managed /\ (UsesIds' <=> UsesIds) /\ (Identified' <=> Identified)
  BY <1>1, Steady DEF TypeOK, States
<1>3. TypeOK'
  <2>1. /\ st' \in States /\ st'.removed \subseteq st'.created
        /\ st'.phase \in DOMAIN PendingStep => st'.step = PendingStep[st'.phase]
        /\ st'.phase = "RECOVERY_REQUIRED" => st'.step \in Steps \ {"seal"}
        /\ (st'.intent # "none") <=> st'.phase \in {"SEAL_PENDING"} \cup Terminal
        /\ st'.intent # "none" => st'.draft
    BY <1>1, <1>2, Names DEF TypeOK, SameRoles, SameSeal, States, Terminal
  <2>2. alive' \in BOOLEAN /\ spoiled' \in BOOLEAN /\ online' \in BOOLEAN
    BY <1>1, <1>2 DEF TypeOK
  <2>3. /\ daemon' \in [Roles -> {"absent", "coming", "present"}] /\ asked' \in [Roles -> Nat]
        /\ faults' \in 0 .. MaxFaults /\ crashes' \in 0 .. MaxCrashes /\ profile' \in Profiles
        /\ snapshot' \in {"absent", "unmarked", "marked", "opened", "tomb"}
        /\ evidence' \in {"none", "passed", "failed_clean"}
    BY <1>1, <1>2 DEF TypeOK
  <2>4. pc' \in PCs /\ loc' \in LocalStates
    BY <1>1, <1>2 DEF TypeOK, PCs, LocalStates, Creating, Cleaning, Deriving
  <2> QED
    BY <2>1, <2>2, <2>3, <2>4 DEF TypeOK, States, LocalStates
<1>4. Located'
  BY <1>1, <1>2 DEF Located, Creating, Installing, Cleaning, Deriving, Destroying, Publishing
<1>5. Asked' /\ Ledger'
  BY <1>1, <1>2 DEF Asked, CreatedOnce, Ledger, RemovedAreGone, SameRoles
<1>6. Held'
  BY <1>1, <1>2 DEF Held, SameRoles
<1>7. Derived' /\ Window'
  BY <1>1, <1>2 DEF Derived, Deriving, Window, SameRoles
<1>8. Reported'
  BY <1>1, <1>2 DEF Reported, AnyFailed
<1>9. Sealed'
  BY <1>1, <1>2 DEF Sealed, CleanMeansGone, Result, SealPhases, Terminal, SameSeal
<1> QED
  BY <1>3, <1>4, <1>5, <1>6, <1>7, <1>8, <1>9

(* An operation that is over is observed and leaves its pending phase. *)
LEMMA FinishesIInv ==
    ASSUME IInv, 
           \/ Start /\ NoFault
           \/ Settle /\ ~loc.bad
           \/ Test /\ NoFault
           \/ Logout
           \/ Destroyed
    PROVE  IInv'
<1> USE DEF IInv
<1>1. /\ \/ pc = "start" /\ st'.phase = "CREATED"
         \/ pc = "settle" /\ ~loc.bad /\ st'.phase = "INSTALLED"
         \/ pc = "test" /\ st'.phase = "TESTED"
         \/ pc = "logout" /\ st'.phase \in {"LOGOUT_DONE", "LOGOUT_FAILED"}
         \/ pc = "destroyed" /\ st'.phase \in {"DESTROY_DONE", "DESTROY_FAILED"}
      /\ loc.bad => AnyFailed(st')
      /\ SameSeal(st', st)
      /\ st' \in States /\ st'.step = StepOf(st'.phase) /\ SameRoles(st', st)
      /\ st'.tainted = st.tainted /\ (AnyFailed(st) => AnyFailed(st'))
      /\ pc' = "idle" /\ loc' \in LocalStates /\ ~loc'.bad
      /\ faults' \in 0 .. MaxFaults /\ spoiled' \in BOOLEAN /\ (spoiled' => spoiled \/ AnyFailed(st'))
      /\ UNCHANGED <<profile, daemon, online, snapshot, evidence, alive, crashes, asked>>
  <2>1. \E step \in Steps, outcome \in {"succeeded", "failed", "skipped"}, phase \in Phases :
          /\ Finish(step, outcome, phase)
          /\ \/ pc = "start" /\ phase = "CREATED"
             \/ pc = "settle" /\ ~loc.bad /\ phase = "INSTALLED"
             \/ pc = "test" /\ phase = "TESTED"
             \/ pc = "logout" /\ phase \in {"LOGOUT_DONE", "LOGOUT_FAILED"}
             \/ pc = "destroyed" /\ phase \in {"DESTROY_DONE", "DESTROY_FAILED"}
          /\ pc = "destroyed" /\ loc.bad => outcome = "failed"
          /\ (UNCHANGED <<faults, spoiled>>) \/ (Fault /\ outcome = "failed")
    <3>1. CASE Start /\ NoFault
      <4>1. Finish("create", "succeeded", "CREATED")
        <5>1. spoiled \in BOOLEAN /\ faults \in 0 .. MaxFaults
          BY DEF TypeOK
        <5>2. ~Fault
          BY <3>1, <5>1, LabAssumption DEF NoFault, Fault
        <5> QED
          BY <3>1, <5>2 DEF Start
      <4> QED
        BY <3>1, <4>1, Names DEF Start, NoFault
    <3>2. CASE Settle /\ ~loc.bad
      BY <3>2, Names DEF Settle, bounds, history
    <3>3. CASE Test /\ NoFault
      <4>1. Finish("test", "succeeded", "TESTED")
        <5>1. spoiled \in BOOLEAN /\ faults \in 0 .. MaxFaults
          BY DEF TypeOK
        <5>2. ~Fault
          BY <3>3, <5>1, LabAssumption DEF NoFault, Fault
        <5> QED
          BY <3>3, <5>2 DEF Test
      <4> QED
        BY <3>3, <4>1, Names DEF Test, NoFault
    <3>4. CASE Logout
      <4> DEFINE reached == IF Identified \/ daemon["container"] = "present"
                            THEN "succeeded" ELSE "skipped"
      <4>1. reached \in {"succeeded", "failed", "skipped"}
        OBVIOUS
      <4>2. \/ Finish("logout", reached, "LOGOUT_DONE") /\ NoFault
            \/ Finish("logout", "failed", "LOGOUT_FAILED") /\ Fault
        BY <3>4 DEF Logout
      <4> HIDE DEF reached
      <4> QED
        BY <3>4, <4>1, <4>2, Names DEF Logout, NoFault
    <3>5. CASE Destroyed
      BY <3>5, Names DEF Destroyed, bounds, history
    <3> QED
      BY <3>1, <3>2, <3>3, <3>4, <3>5
  <2>2. PICK step \in Steps, outcome \in {"succeeded", "failed", "skipped"}, phase \in Phases :
          /\ Finish(step, outcome, phase)
          /\ \/ pc = "start" /\ phase = "CREATED"
             \/ pc = "settle" /\ ~loc.bad /\ phase = "INSTALLED"
             \/ pc = "test" /\ phase = "TESTED"
             \/ pc = "logout" /\ phase \in {"LOGOUT_DONE", "LOGOUT_FAILED"}
             \/ pc = "destroyed" /\ phase \in {"DESTROY_DONE", "DESTROY_FAILED"}
          /\ pc = "destroyed" /\ loc.bad => outcome = "failed"
          /\ (UNCHANGED <<faults, spoiled>>) \/ (Fault /\ outcome = "failed")
    BY <2>1
  <2>3. /\ st' \in States /\ st'.phase = phase /\ st'.step = StepOf(phase)
        /\ SameRoles(st', st) /\ SameSeal(st', st) /\ st'.tainted = st.tainted
        /\ (\E o \in st.ops : o[2] = "failed") \/ outcome = "failed" <=>
             \E o \in st'.ops : o[2] = "failed"
    BY <2>2, FinishShape DEF Finish
  <2>4. (AnyFailed(st) => AnyFailed(st')) /\ (outcome = "failed" => AnyFailed(st'))
    BY <2>3 DEF AnyFailed
  <2>5. pc' = "idle" /\ loc' \in LocalStates /\ ~loc'.bad
    BY <2>2, FreshShape DEF Finish, Leave
  <2>6. faults' \in 0 .. MaxFaults
    BY <2>2, FaultShape
  <2>7. spoiled' \in BOOLEAN /\ (spoiled' => spoiled \/ AnyFailed(st'))
    <3>1. spoiled \in BOOLEAN /\ ((spoiled' = TRUE /\ outcome = "failed") \/ spoiled' = spoiled)
      BY <2>2 DEF TypeOK, Fault
    <3>2. CASE spoiled' = TRUE /\ outcome = "failed"
      BY <2>4, <3>2
    <3>3. CASE spoiled' = spoiled
      BY <3>1, <3>3
    <3> QED
      BY <3>1, <3>2, <3>3
  <2>8. loc.bad => AnyFailed(st')
    BY <2>2, <2>4 DEF Located, Destroying, Cleaning, Deriving
  <2>9. UNCHANGED <<profile, daemon, online, snapshot, evidence, alive, crashes, asked>>
    BY DEF Start, Settle, Test, Logout, Destroyed, world, bounds, history
  <2> QED
    BY <2>2, <2>3, <2>4, <2>5, <2>6, <2>7, <2>8, <2>9
<1>2. /\ TypeOK /\ st \in States /\ CreateOrder' = CreateOrder /\ CleanupOrder' = CleanupOrder
      /\ Managed' = Managed /\ (UsesIds' <=> UsesIds) /\ (Identified' <=> Identified)
  BY <1>1, Steady DEF TypeOK, States
<1>3. /\ pc = "start" => st.phase = "CREATE_PENDING"
      /\ pc = "settle" => st.phase = "INSTALL_PENDING"
      /\ pc = "test" => st.phase = "TEST_PENDING"
      /\ pc = "logout" => st.phase = "LOGOUT_PENDING"
      /\ pc = "destroyed" => st.phase = "DESTROY_PENDING"
  BY DEF Located, Creating, Installing, Destroying
<1>4. StepOf(st'.phase) \in Steps \cup {"none"} /\ st'.phase \notin DOMAIN PendingStep
  BY <1>1, StepOfShape, Names DEF States
<1>5. TypeOK'
  <2>1. /\ st' \in States /\ st'.removed \subseteq st'.created
        /\ st'.phase \in DOMAIN PendingStep => st'.step = PendingStep[st'.phase]
        /\ st'.phase = "RECOVERY_REQUIRED" => st'.step \in Steps \ {"seal"}
        /\ (st'.intent # "none") <=> st'.phase \in {"SEAL_PENDING"} \cup Terminal
        /\ st'.intent # "none" => st'.draft
    BY <1>1, <1>2, <1>3, <1>4, Names DEF TypeOK, SameRoles, SameSeal, States, Terminal
  <2>2. alive' \in BOOLEAN /\ spoiled' \in BOOLEAN /\ online' \in BOOLEAN
    BY <1>1, <1>2, <1>3, <1>4 DEF TypeOK
  <2>3. /\ daemon' \in [Roles -> {"absent", "coming", "present"}] /\ asked' \in [Roles -> Nat]
        /\ faults' \in 0 .. MaxFaults /\ crashes' \in 0 .. MaxCrashes /\ profile' \in Profiles
        /\ snapshot' \in {"absent", "unmarked", "marked", "opened", "tomb"}
        /\ evidence' \in {"none", "passed", "failed_clean"}
    BY <1>1, <1>2, <1>3, <1>4 DEF TypeOK
  <2>4. pc' \in PCs /\ loc' \in LocalStates
    BY <1>1, <1>2, <1>3, <1>4 DEF TypeOK, PCs, LocalStates, Creating, Cleaning, Deriving
  <2> QED
    BY <2>1, <2>2, <2>3, <2>4 DEF TypeOK, States, LocalStates
<1>6. Located'
  BY <1>1, <1>2, <1>3, <1>4 DEF Located, Creating, Installing, Cleaning, Deriving, Destroying,
     Publishing
<1>7. Asked' /\ Ledger'
  BY <1>1, <1>2, <1>3, <1>4 DEF Asked, CreatedOnce, Ledger, RemovedAreGone, SameRoles
<1>8. Held'
  BY <1>1, <1>2, <1>3, <1>4 DEF Held, SameRoles
<1>9. Derived' /\ Window'
  BY <1>1, <1>2, <1>3, <1>4 DEF Derived, Deriving, Window, SameRoles
<1>10. Reported'
  BY <1>1, <1>2, <1>3, <1>4, Names DEF Reported, Interrupted
<1>11. Sealed'
  BY <1>1, <1>2, <1>3, <1>4 DEF Sealed, CleanMeansGone, Result, SealPhases, Terminal, SameSeal
<1> QED
  BY <1>5, <1>6, <1>7, <1>8, <1>9, <1>10, <1>11

(* Captured evidence leaves a draft and the roles as they were. *)
LEMMA CapturesIInv ==
    ASSUME IInv, CaptureEvidence, st'.phase # "RECOVERY_REQUIRED"
    PROVE  IInv'
<1> USE DEF IInv
<1>1. /\ pc = "evidence" /\ st.phase = "EVIDENCE_PENDING" /\ st'.phase = "EVIDENCE_CAPTURED"
      /\ st' \in States /\ st'.step = "none" /\ SameRoles(st', st) /\ st'.intent = st.intent /\ st'.draft
      /\ st'.tainted = st.tainted /\ (AnyFailed(st) => AnyFailed(st'))
      /\ pc' = "idle" /\ loc' \in LocalStates /\ ~loc'.bad /\ ~loc.bad
      /\ UNCHANGED <<profile, daemon, online, snapshot, evidence, alive, faults, crashes, asked, spoiled>>
  <2> DEFINE s == Observed(Moved(st, "EVIDENCE_CAPTURED"), "evidence", "succeeded")
  <2>1. "evidence" \in Steps /\ "EVIDENCE_CAPTURED" \in Phases
    BY Names
  <2>2. /\ s \in States /\ s.phase = "EVIDENCE_CAPTURED" /\ s.step = StepOf("EVIDENCE_CAPTURED")
        /\ SameRoles(s, st) /\ SameSeal(s, st) /\ s.tainted = st.tainted
        /\ (\E o \in st.ops : o[2] = "failed") => \E o \in s.ops : o[2] = "failed"
    BY <2>1, FinishShape
  <2>3. CaptureEvidence => \/ NoFault /\ Leave /\ st' = [s EXCEPT !.draft = TRUE]
                           \/ Fail("evidence")
    BY DEF CaptureEvidence
  <2>4. Fail("evidence") => st'.phase = "RECOVERY_REQUIRED"
    <3>1. "evidence" \in Steps
      BY <2>1
    <3>2. Recovering(st, "evidence").phase = "RECOVERY_REQUIRED"
      BY <3>1, RecoveringShape
    <3> QED
      BY <3>2 DEF Fail
  <2> HIDE DEF s
  <2>5. NoFault /\ Leave /\ st' = [s EXCEPT !.draft = TRUE]
    BY <2>3, <2>4
  <2>6. /\ st' \in States /\ st'.phase = "EVIDENCE_CAPTURED" /\ st'.step = s.step
        /\ SameRoles(st', st) /\ st'.intent = st.intent /\ st'.draft /\ st'.tainted = st.tainted
        /\ st'.ops = s.ops
    BY <2>2, <2>5 DEF States, SameRoles, SameSeal
  <2>7. AnyFailed(st) => AnyFailed(st')
    BY <2>2, <2>6 DEF AnyFailed
  <2>8. StepOf("EVIDENCE_CAPTURED") = "none"
    BY Names DEF StepOf
  <2>9. pc = "evidence" /\ st.phase = "EVIDENCE_PENDING" /\ ~loc.bad
    BY DEF CaptureEvidence, Located, Destroying, Cleaning, Deriving
  <2>10. pc' = "idle" /\ loc' \in LocalStates /\ ~loc'.bad
    BY <2>5, FreshShape DEF Leave
  <2> QED
    BY <2>2, <2>5, <2>6, <2>7, <2>8, <2>9, <2>10 DEF CaptureEvidence, NoFault, world
<1>2. /\ TypeOK /\ st \in States /\ CreateOrder' = CreateOrder /\ CleanupOrder' = CleanupOrder
      /\ Managed' = Managed /\ (UsesIds' <=> UsesIds) /\ (Identified' <=> Identified)
  BY <1>1, Steady DEF TypeOK, States
<1>3. TypeOK'
  <2>1. /\ st' \in States /\ st'.removed \subseteq st'.created
        /\ st'.phase \in DOMAIN PendingStep => st'.step = PendingStep[st'.phase]
        /\ st'.phase = "RECOVERY_REQUIRED" => st'.step \in Steps \ {"seal"}
        /\ (st'.intent # "none") <=> st'.phase \in {"SEAL_PENDING"} \cup Terminal
        /\ st'.intent # "none" => st'.draft
    BY <1>1, <1>2, Names DEF TypeOK, SameRoles, SameSeal, States, Terminal
  <2>2. alive' \in BOOLEAN /\ spoiled' \in BOOLEAN /\ online' \in BOOLEAN
    BY <1>1, <1>2 DEF TypeOK
  <2>3. /\ daemon' \in [Roles -> {"absent", "coming", "present"}] /\ asked' \in [Roles -> Nat]
        /\ faults' \in 0 .. MaxFaults /\ crashes' \in 0 .. MaxCrashes /\ profile' \in Profiles
        /\ snapshot' \in {"absent", "unmarked", "marked", "opened", "tomb"}
        /\ evidence' \in {"none", "passed", "failed_clean"}
    BY <1>1, <1>2 DEF TypeOK
  <2>4. pc' \in PCs /\ loc' \in LocalStates
    BY <1>1, <1>2 DEF TypeOK, PCs, LocalStates, Creating, Cleaning, Deriving
  <2> QED
    BY <2>1, <2>2, <2>3, <2>4 DEF TypeOK, States, LocalStates
<1>4. Located'
  BY <1>1, <1>2 DEF Located, Creating, Installing, Cleaning, Deriving, Destroying, Publishing
<1>5. Asked' /\ Ledger'
  BY <1>1, <1>2 DEF Asked, CreatedOnce, Ledger, RemovedAreGone, SameRoles
<1>6. Held'
  BY <1>1, <1>2 DEF Held, SameRoles
<1>7. Derived' /\ Window'
  BY <1>1, <1>2 DEF Derived, Deriving, Window, SameRoles
<1>8. Reported'
  BY <1>1, <1>2, Names DEF Reported, Interrupted
<1>9. Sealed'
  BY <1>1, <1>2 DEF Sealed, CleanMeansGone, Result, SealPhases, Terminal, SameSeal
<1> QED
  BY <1>3, <1>4, <1>5, <1>6, <1>7, <1>8, <1>9

(* A lab verified clean has every role gone, the late ones included. *)
LEMMA VerifiesIInv ==
    ASSUME IInv, Verify
    PROVE  IInv'
<1> USE DEF IInv
<1>1. /\ pc = "verify" /\ st.phase = "VERIFY_CLEAN_PENDING" /\ ~loc.bad
      /\ \/ st'.phase = "CLEAN_VERIFIED" /\ ~Remaining /\ spoiled' = spoiled
         \/ st'.phase = "DIRTY" /\ AnyFailed(st')
      /\ SameSeal(st', st)
      /\ st' \in States /\ st'.step = StepOf(st'.phase) /\ SameRoles(st', st)
      /\ st'.tainted = st.tainted /\ (AnyFailed(st) => AnyFailed(st'))
      /\ pc' = "idle" /\ loc' \in LocalStates /\ ~loc'.bad
      /\ faults' \in 0 .. MaxFaults /\ spoiled' \in BOOLEAN
      /\ UNCHANGED <<profile, daemon, online, snapshot, evidence, alive, crashes, asked>>
  <2>1. \/ Finish("verify_clean", "succeeded", "CLEAN_VERIFIED") /\ ~Remaining /\ NoFault
        \/ Finish("verify_clean", "failed", "DIRTY") /\ (NoFault \/ Fault)
    BY DEF Verify
  <2>2. PICK outcome \in {"succeeded", "failed"}, phase \in {"CLEAN_VERIFIED", "DIRTY"} :
          /\ Finish("verify_clean", outcome, phase)
          /\ \/ outcome = "succeeded" /\ phase = "CLEAN_VERIFIED" /\ ~Remaining /\ NoFault
             \/ outcome = "failed" /\ phase = "DIRTY" /\ (NoFault \/ Fault)
    BY <2>1
  <2>3. phase \in Phases /\ "verify_clean" \in Steps /\ outcome \in {"succeeded", "failed", "skipped"}
    BY Names
  <2>4. /\ st' \in States /\ st'.phase = phase /\ st'.step = StepOf(phase)
        /\ SameRoles(st', st) /\ SameSeal(st', st) /\ st'.tainted = st.tainted
        /\ (\E o \in st.ops : o[2] = "failed") \/ outcome = "failed" <=>
             \E o \in st'.ops : o[2] = "failed"
    BY <2>2, <2>3, FinishShape DEF Finish
  <2>5. (AnyFailed(st) => AnyFailed(st')) /\ (outcome = "failed" => AnyFailed(st'))
    BY <2>4 DEF AnyFailed
  <2>6. pc' = "idle" /\ loc' \in LocalStates /\ ~loc'.bad
    BY <2>2, FreshShape DEF Finish, Leave
  <2>7. faults' \in 0 .. MaxFaults
    BY <2>2, FaultShape DEF NoFault
  <2>8. spoiled' \in BOOLEAN
    <3>1. spoiled \in BOOLEAN /\ (spoiled' = TRUE \/ spoiled' = spoiled)
      BY <2>2 DEF TypeOK, Fault, NoFault
    <3> QED
      BY <3>1
  <2>9. \/ st'.phase = "CLEAN_VERIFIED" /\ ~Remaining /\ spoiled' = spoiled
        \/ st'.phase = "DIRTY" /\ AnyFailed(st')
    BY <2>2, <2>4, <2>5, Zenon DEF NoFault
  <2>10. pc = "verify" /\ st.phase = "VERIFY_CLEAN_PENDING" /\ ~loc.bad
    BY DEF Verify, Located, Destroying, Cleaning, Deriving
  <2>11. UNCHANGED <<profile, daemon, online, snapshot, evidence, alive, crashes, asked>>
    BY DEF Verify, world
  <2> QED
    BY <2>4, <2>5, <2>6, <2>7, <2>8, <2>9, <2>10, <2>11
<1>2. /\ TypeOK /\ st \in States /\ CreateOrder' = CreateOrder /\ CleanupOrder' = CleanupOrder
      /\ Managed' = Managed /\ (UsesIds' <=> UsesIds) /\ (Identified' <=> Identified)
  BY <1>1, Steady DEF TypeOK, States
<1>3. StepOf(st'.phase) \in Steps \cup {"none"} /\ st'.phase \notin DOMAIN PendingStep
  BY <1>1, StepOfShape, Names DEF States
<1>4. ~Remaining => CleanMeansGone'
  <2> SUFFICES ASSUME ~Remaining PROVE (\A r \in Roles : daemon[r] = "absent") /\ snapshot = "absent"
    BY <1>1 DEF CleanMeansGone
  <2>1. \A r \in Managed : daemon[r] # "present"
    BY Orders DEF Remaining
  <2>2. \A r \in Roles : daemon[r] # "coming"
    BY <1>1 DEF Held, Remaining
  <2>3. \A r \in Roles : daemon[r] = "absent"
    BY <2>1, <2>2 DEF TypeOK, Asked
  <2>4. snapshot \notin {"unmarked", "marked", "opened"}
    BY DEF Remaining, SnapshotRemains, Present, Derived
  <2>5. snapshot # "tomb"
    BY Orders DEF Remaining, SnapshotRemains, Derived
  <2> QED
    BY <2>3, <2>4, <2>5 DEF TypeOK
<1>5. TypeOK'
  <2>1. /\ st' \in States /\ st'.removed \subseteq st'.created
        /\ st'.phase \in DOMAIN PendingStep => st'.step = PendingStep[st'.phase]
        /\ st'.phase = "RECOVERY_REQUIRED" => st'.step \in Steps \ {"seal"}
        /\ (st'.intent # "none") <=> st'.phase \in {"SEAL_PENDING"} \cup Terminal
        /\ st'.intent # "none" => st'.draft
    BY <1>1, <1>2, <1>3, <1>4, Names DEF TypeOK, SameRoles, SameSeal, States, Terminal
  <2>2. alive' \in BOOLEAN /\ spoiled' \in BOOLEAN /\ online' \in BOOLEAN
    BY <1>1, <1>2, <1>3, <1>4 DEF TypeOK
  <2>3. /\ daemon' \in [Roles -> {"absent", "coming", "present"}] /\ asked' \in [Roles -> Nat]
        /\ faults' \in 0 .. MaxFaults /\ crashes' \in 0 .. MaxCrashes /\ profile' \in Profiles
        /\ snapshot' \in {"absent", "unmarked", "marked", "opened", "tomb"}
        /\ evidence' \in {"none", "passed", "failed_clean"}
    BY <1>1, <1>2, <1>3, <1>4 DEF TypeOK
  <2>4. pc' \in PCs /\ loc' \in LocalStates
    BY <1>1, <1>2, <1>3, <1>4 DEF TypeOK, PCs, LocalStates, Creating, Cleaning, Deriving
  <2> QED
    BY <2>1, <2>2, <2>3, <2>4 DEF TypeOK, States, LocalStates
<1>6. Located'
  BY <1>1, <1>2, <1>3, <1>4 DEF Located, Creating, Installing, Cleaning, Deriving, Destroying,
     Publishing
<1>7. Asked' /\ Ledger'
  BY <1>1, <1>2, <1>3, <1>4 DEF Asked, CreatedOnce, Ledger, RemovedAreGone, SameRoles
<1>8. Held'
  BY <1>1, <1>2, <1>3, <1>4 DEF Held, SameRoles
<1>9. Derived' /\ Window'
  BY <1>1, <1>2, <1>3, <1>4 DEF Derived, Deriving, Window, SameRoles
<1>10. Reported'
  BY <1>1, <1>2, <1>3, <1>4, Names DEF Reported, Interrupted
<1>11. Sealed'
  BY <1>1, <1>2, <1>3, <1>4 DEF Sealed, SealPhases, Terminal, SameSeal, CleanMeansGone
<1> QED
  BY <1>5, <1>6, <1>7, <1>8, <1>9, <1>10, <1>11

(* The install network is joined and left inside one operation. *)
LEMMA WindowsIInv ==
    ASSUME IInv, Connect \/ Guest \/ Disconnect
    PROVE  IInv'
<1> USE DEF IInv
<1>1. /\ pc \in {"connect", "guest", "disconnect"} /\ pc' \in {"guest", "disconnect", "settle"}
      /\ loc' \in LocalStates /\ (loc.bad => loc'.bad) /\ (loc'.bad => pc' \in {"disconnect", "settle"})
      /\ online' \in BOOLEAN /\ (online' => Identified) /\ (pc' = "settle" /\ ~loc'.bad => ~online')
      /\ faults' \in 0 .. MaxFaults /\ spoiled' \in BOOLEAN /\ (spoiled' => spoiled \/ loc'.bad)
      /\ UNCHANGED <<profile, st, daemon, snapshot, evidence, alive, crashes, asked>>
  <2>1. /\ loc \in LocalStates /\ online \in BOOLEAN /\ spoiled \in BOOLEAN
        /\ loc.bad => pc \in {"disconnect", "settle"} \cup Destroying
    BY DEF TypeOK, LocalStates, Located
  <2>2. /\ [loc EXCEPT !.bad = TRUE] \in LocalStates /\ [loc EXCEPT !.bad = TRUE].bad
    BY <2>1 DEF LocalStates
  <2>3. \/ NoFault /\ UNCHANGED loc
        \/ Fault /\ loc' = [loc EXCEPT !.bad = TRUE]
    BY DEF Connect, Guest, Disconnect, Goto
  <2>4. pc \in {"connect", "guest", "disconnect"} /\ pc' \in {"guest", "disconnect", "settle"}
    BY DEF Connect, Guest, Disconnect, Goto
  <2>5. pc' = "guest" => UNCHANGED loc /\ pc = "connect"
    BY DEF Connect, Guest, Disconnect, Goto
  <2>6. loc' \in LocalStates /\ (loc.bad => loc'.bad)
    BY <2>1, <2>2, <2>3
  <2>7. loc'.bad => pc' \in {"disconnect", "settle"}
    BY <2>1, <2>4, <2>5 DEF Destroying, Cleaning, Deriving
  <2>8. faults' \in 0 .. MaxFaults
    BY <2>3, FaultShape DEF NoFault
  <2>9. spoiled' \in BOOLEAN /\ (spoiled' => spoiled \/ loc'.bad)
    <3>1. CASE NoFault
      BY <2>1, <3>1 DEF NoFault
    <3>2. CASE Fault /\ loc' = [loc EXCEPT !.bad = TRUE]
      <4>1. loc'.bad
        BY <2>2, <3>2
      <4>2. spoiled' = TRUE
        BY <3>2 DEF Fault
      <4> QED
        BY <4>1, <4>2
    <3> QED
      BY <2>3, <3>1, <3>2
  <2>10. online' \in BOOLEAN /\ (online' => Identified)
    <3>1. pc = "connect" => Identified /\ online' \in BOOLEAN
      BY <2>1 DEF Derived, Window, Connect, Guest, Disconnect
    <3>2. pc # "connect" => online' = online \/ online' = FALSE
      BY <2>1 DEF Connect, Guest, Disconnect, world
    <3>3. online => Identified
      BY DEF Window
    <3>4. CASE pc = "connect"
      BY <3>1, <3>4
    <3>5. CASE pc # "connect"
      <4>1. CASE online' = online
        BY <2>1, <3>3, <4>1
      <4>2. CASE online' = FALSE
        BY <4>2
      <4> QED
        BY <3>2, <3>5, <4>1, <4>2
    <3> QED
      BY <3>4, <3>5
  <2>11. pc' = "settle" /\ ~loc'.bad => ~online'
    <3> SUFFICES ASSUME pc' = "settle", ~loc'.bad PROVE ~online'
      OBVIOUS
    <3>1. NoFault
      BY <2>2, <2>3
    <3>2. loc' # [loc EXCEPT !.bad = TRUE]
      BY <2>2
    <3>3. CASE pc = "connect"
      <4>1. Connect
        BY <3>3 DEF Guest, Disconnect
      <4> QED
        BY <3>2, <4>1 DEF Connect, Goto
    <3>4. CASE pc = "guest"
      <4>1. Guest
        BY <3>4 DEF Connect, Disconnect
      <4>2. ~Identified /\ online' = online
        BY <3>2, <4>1 DEF Guest, Goto, world
      <4>3. online => Identified
        BY DEF Window
      <4> QED
        BY <2>1, <4>2, <4>3
    <3>5. CASE pc = "disconnect"
      <4>1. Disconnect
        BY <3>5 DEF Connect, Guest
      <4>2. online' = FALSE
        BY <3>2, <4>1 DEF Disconnect
      <4> QED
        BY <4>2
    <3> QED
      BY <2>4, <3>3, <3>4, <3>5
  <2>12. UNCHANGED <<profile, st, daemon, snapshot, evidence, alive, crashes, asked>>
    BY DEF Connect, Guest, Disconnect, world
  <2> QED
    BY <2>4, <2>6, <2>7, <2>8, <2>9, <2>10, <2>11, <2>12
<1>2. /\ TypeOK /\ st \in States /\ CreateOrder' = CreateOrder /\ CleanupOrder' = CleanupOrder
      /\ Managed' = Managed /\ (UsesIds' <=> UsesIds) /\ (Identified' <=> Identified)
  BY <1>1, Steady DEF TypeOK, States
<1>3. st.phase = "INSTALL_PENDING"
  BY <1>1 DEF Located, Installing
<1>4. TypeOK'
  <2>1. /\ st' \in States /\ st'.removed \subseteq st'.created
        /\ st'.phase \in DOMAIN PendingStep => st'.step = PendingStep[st'.phase]
        /\ st'.phase = "RECOVERY_REQUIRED" => st'.step \in Steps \ {"seal"}
        /\ (st'.intent # "none") <=> st'.phase \in {"SEAL_PENDING"} \cup Terminal
        /\ st'.intent # "none" => st'.draft
    BY <1>1, <1>2, <1>3, Names DEF TypeOK, SameRoles, SameSeal, States, Terminal
  <2>2. alive' \in BOOLEAN /\ spoiled' \in BOOLEAN /\ online' \in BOOLEAN
    BY <1>1, <1>2, <1>3 DEF TypeOK
  <2>3. /\ daemon' \in [Roles -> {"absent", "coming", "present"}] /\ asked' \in [Roles -> Nat]
        /\ faults' \in 0 .. MaxFaults /\ crashes' \in 0 .. MaxCrashes /\ profile' \in Profiles
        /\ snapshot' \in {"absent", "unmarked", "marked", "opened", "tomb"}
        /\ evidence' \in {"none", "passed", "failed_clean"}
    BY <1>1, <1>2, <1>3 DEF TypeOK
  <2>4. pc' \in PCs /\ loc' \in LocalStates
    BY <1>1, <1>2, <1>3 DEF TypeOK, PCs, LocalStates, Creating, Cleaning, Deriving
  <2> QED
    BY <2>1, <2>2, <2>3, <2>4 DEF TypeOK, States, LocalStates
<1>5. Located'
  BY <1>1, <1>2, <1>3 DEF Located, Creating, Installing, Cleaning, Deriving, Destroying,
     Publishing
<1>6. Asked' /\ Ledger'
  BY <1>1, <1>2, <1>3 DEF Asked, CreatedOnce, Ledger, RemovedAreGone, SameRoles
<1>7. Held'
  BY <1>1, <1>2, <1>3 DEF Held, SameRoles
<1>8. Derived' /\ Window'
  BY <1>1, <1>2, <1>3 DEF Derived, Deriving, Window, SameRoles
<1>9. Reported'
  <2>1. AnyFailed(st)' <=> AnyFailed(st)
    BY <1>1 DEF AnyFailed
  <2>2. Interrupted(st) /\ Interrupted(st)'
    BY <1>1, <1>3, Names DEF Interrupted
  <2>3. spoiled => AnyFailed(st) \/ loc.bad
    BY <1>1, <1>3 DEF Reported
  <2>4. spoiled' => AnyFailed(st)' \/ loc'.bad
    BY <1>1, <2>1, <2>3
  <2> QED
    BY <2>2, <2>4 DEF Reported
<1>10. Sealed'
  BY <1>1, <1>2, <1>3 DEF Sealed, CleanMeansGone, Result, SealPhases, Terminal, SameSeal
<1> QED
  BY <1>4, <1>5, <1>6, <1>7, <1>8, <1>9, <1>10

(* A hold only adds to what is known. *)
LEMMA TaintsIInv ==
    ASSUME IInv, PersistHold \/ MarkShellTainted
    PROVE  IInv'
<1> USE DEF IInv
<1>1. /\ pc = "idle" /\ st.phase \notin DOMAIN PendingStep \cup Terminal \cup {"NEW"}
      /\ st' \in States /\ st'.phase = st.phase /\ st'.step = st.step /\ st'.ops = st.ops
      /\ SameRoles(st', st) /\ SameSeal(st', st) /\ st'.tainted
      /\ UNCHANGED <<profile, daemon, online, snapshot, evidence, pc, loc, alive, faults, crashes, asked, spoiled>>
  <2>1. st \in States /\ st' = [st EXCEPT !.tainted = TRUE]
    BY DEF PersistHold, MarkShellTainted, TypeOK, States
  <2>2. pc = "idle" /\ st.phase \notin DOMAIN PendingStep \cup Terminal \cup {"NEW"}
    BY Names DEF PersistHold, MarkShellTainted, Terminal
  <2> QED
    BY <2>1, <2>2 DEF PersistHold, MarkShellTainted, world, proc, bounds, history, States,
       SameRoles, SameSeal
<1>2. /\ TypeOK /\ st \in States /\ CreateOrder' = CreateOrder /\ CleanupOrder' = CleanupOrder
      /\ Managed' = Managed /\ (UsesIds' <=> UsesIds) /\ (Identified' <=> Identified)
  BY <1>1, Steady DEF TypeOK, States
<1>3. TypeOK'
  <2>1. /\ st' \in States /\ st'.removed \subseteq st'.created
        /\ st'.phase \in DOMAIN PendingStep => st'.step = PendingStep[st'.phase]
        /\ st'.phase = "RECOVERY_REQUIRED" => st'.step \in Steps \ {"seal"}
        /\ (st'.intent # "none") <=> st'.phase \in {"SEAL_PENDING"} \cup Terminal
        /\ st'.intent # "none" => st'.draft
    BY <1>1, <1>2, Names DEF TypeOK, SameRoles, SameSeal, States, Terminal
  <2>2. alive' \in BOOLEAN /\ spoiled' \in BOOLEAN /\ online' \in BOOLEAN
    BY <1>1, <1>2 DEF TypeOK
  <2>3. /\ daemon' \in [Roles -> {"absent", "coming", "present"}] /\ asked' \in [Roles -> Nat]
        /\ faults' \in 0 .. MaxFaults /\ crashes' \in 0 .. MaxCrashes /\ profile' \in Profiles
        /\ snapshot' \in {"absent", "unmarked", "marked", "opened", "tomb"}
        /\ evidence' \in {"none", "passed", "failed_clean"}
    BY <1>1, <1>2 DEF TypeOK
  <2>4. pc' \in PCs /\ loc' \in LocalStates
    BY <1>1, <1>2 DEF TypeOK, PCs, LocalStates, Creating, Cleaning, Deriving
  <2> QED
    BY <2>1, <2>2, <2>3, <2>4 DEF TypeOK, States, LocalStates
<1>4. Located'
  BY <1>1, <1>2 DEF Located, Creating, Installing, Cleaning, Deriving, Destroying, Publishing
<1>5. Asked' /\ Ledger'
  BY <1>1, <1>2 DEF Asked, CreatedOnce, Ledger, RemovedAreGone, SameRoles
<1>6. Held'
  BY <1>1, <1>2 DEF Held, SameRoles
<1>7. Derived' /\ Window'
  BY <1>1, <1>2 DEF Derived, Deriving, Window, SameRoles
<1>8. Reported'
  <2>1. AnyFailed(st) => AnyFailed(st)'
    BY <1>1, <1>2 DEF AnyFailed
  <2>2. Interrupted(st) => Interrupted(st)'
    BY <1>1, <1>2, Names DEF Interrupted
  <2> QED
    BY <1>1, <1>2, <2>1, <2>2 DEF Reported
<1>9. Sealed'
  BY <1>1, <1>2 DEF Sealed, CleanMeansGone, Result, SealPhases, Terminal, SameSeal
<1> QED
  BY <1>3, <1>4, <1>5, <1>6, <1>7, <1>8, <1>9

(* A role that is gone, or unknown, is passed over. *)
LEMMA PassesIInv ==
    ASSUME IInv, RoleAbsent \/ RoleUnknown \/ RecordRemoved
    PROVE  IInv'
<1> USE DEF IInv
<1>1. /\ pc \in {"role", "ledger"} /\ loc.at \in 1 .. Len(CleanupOrder)
      /\ pc' \in {"role", "snapshot", "destroyed"} /\ (pc' = "role" => loc'.at <= Len(CleanupOrder))
      /\ pc' = "snapshot" => UsesIds
      /\ loc' \in LocalStates /\ (loc.bad => loc'.bad)
      /\ \/ st' = st
         \/ /\ st' = [st EXCEPT !.removed = st.removed \cup ({CleanupOrder[loc.at]} \cap st.created)]
            /\ CleanupOrder[loc.at] \in st.created => daemon[CleanupOrder[loc.at]] = "absent"
      /\ faults' \in 0 .. MaxFaults /\ spoiled' \in BOOLEAN /\ (spoiled' => spoiled \/ loc'.bad)
      /\ UNCHANGED <<profile, daemon, online, snapshot, evidence, alive, crashes, asked>>
  <2>1. /\ pc \in {"role", "ledger"} /\ loc.at <= Len(CleanupOrder) /\ loc.at \in 1 .. 4
        /\ Len(CleanupOrder) \in 1 .. 3
    BY Orders DEF RoleAbsent, RoleUnknown, RecordRemoved, TypeOK, Located, Cleaning
  <2>2. loc.at \in 1 .. Len(CleanupOrder)
    BY <2>1
  <2>3. Role \in Roles /\ Role = CleanupOrder[loc.at] /\ spoiled \in BOOLEAN
    BY <2>2, Orders DEF Role, TypeOK
  <2>4. \/ AfterRole(TRUE) /\ UNCHANGED st /\ (Fault \/ (UNCHANGED bounds /\ UNCHANGED spoiled))
        \/ /\ AfterRole(FALSE) /\ UNCHANGED bounds /\ UNCHANGED spoiled
           /\ st' = [st EXCEPT !.removed = st.removed \cup ({Role} \cap st.created)]
           /\ Role \in st.created => daemon[Role] = "absent"
    <3>1. CASE RoleAbsent
      <4>1. Role \in st.created => daemon[Role] = "absent"
        BY <2>3, <3>1 DEF RoleAbsent, Ledger, TypeOK
      <4> QED
        BY <3>1, <4>1 DEF RoleAbsent, history
    <3>2. CASE RoleUnknown
      BY <3>2 DEF RoleUnknown
    <3>3. CASE RecordRemoved
      <4>1. Role \in st.created /\ daemon[Role] = "absent"
        BY <3>3 DEF RecordRemoved, Ledger, Role
      <4>2. {Role} \cap st.created = {Role}
        BY <4>1
      <4> QED
        BY <3>3, <4>1, <4>2 DEF RecordRemoved, history
    <3> QED
      BY <3>1, <3>2, <3>3
  <2>5. PICK failed \in BOOLEAN : AfterRole(failed) /\ (failed \/ UNCHANGED <<faults, spoiled>>)
                                  /\ (Fault \/ UNCHANGED <<faults, spoiled>>)
    BY <2>4 DEF bounds
  <2>6. /\ loc' \in LocalStates /\ (loc'.bad <=> loc.bad \/ failed)
        /\ pc' \in {"role", "snapshot", "destroyed"} /\ (pc' = "role" => loc'.at <= Len(CleanupOrder))
        /\ pc' = "snapshot" => UsesIds
    BY <2>1, <2>5, AfterRoleShape
  <2>7. faults' \in 0 .. MaxFaults
    BY <2>5, FaultShape
  <2>8. spoiled' \in BOOLEAN /\ (spoiled' => spoiled \/ loc'.bad)
    <3>1. CASE failed /\ Fault
      BY <2>6, <3>1 DEF Fault
    <3>2. CASE spoiled' = spoiled
      BY <2>3, <3>2
    <3> QED
      BY <2>5, <3>1, <3>2
  <2>9. UNCHANGED <<profile, daemon, online, snapshot, evidence, alive, crashes, asked>>
    BY DEF RoleAbsent, RoleUnknown, RecordRemoved, world, bounds, history
  <2>10. loc.bad => loc'.bad
    BY <2>6
  <2> QED
    BY <2>1, <2>2, <2>3, <2>4, <2>6, <2>7, <2>8, <2>9, <2>10
<1>2. /\ TypeOK /\ st \in States /\ CreateOrder' = CreateOrder /\ CleanupOrder' = CleanupOrder
      /\ Managed' = Managed /\ (UsesIds' <=> UsesIds) /\ (Identified' <=> Identified)
  BY <1>1, Steady DEF TypeOK, States
<1>3. /\ st.phase = "DESTROY_PENDING" /\ CleanupOrder[loc.at] \in Roles
  BY <1>1, Orders DEF Located, Destroying, Cleaning
<1>4. /\ st' \in States /\ st'.phase = st.phase /\ st'.step = st.step /\ SameSeal(st', st)
      /\ st'.ids = st.ids /\ st'.created = st.created /\ st'.base = st.base
      /\ st'.tainted = st.tainted /\ st'.ops = st.ops
      /\ st'.removed \subseteq st.created
      /\ \A r \in st'.removed : daemon[r] = "absent"
  BY <1>1, <1>2, <1>3 DEF States, SameSeal, Ledger, RemovedAreGone, TypeOK
<1>5. TypeOK'
  <2>1. /\ st' \in States /\ st'.removed \subseteq st'.created
        /\ st'.phase \in DOMAIN PendingStep => st'.step = PendingStep[st'.phase]
        /\ st'.phase = "RECOVERY_REQUIRED" => st'.step \in Steps \ {"seal"}
        /\ (st'.intent # "none") <=> st'.phase \in {"SEAL_PENDING"} \cup Terminal
        /\ st'.intent # "none" => st'.draft
    BY <1>1, <1>2, <1>3, <1>4, Names DEF TypeOK, SameRoles, SameSeal, States, Terminal
  <2>2. alive' \in BOOLEAN /\ spoiled' \in BOOLEAN /\ online' \in BOOLEAN
    BY <1>1, <1>2, <1>3, <1>4 DEF TypeOK
  <2>3. /\ daemon' \in [Roles -> {"absent", "coming", "present"}] /\ asked' \in [Roles -> Nat]
        /\ faults' \in 0 .. MaxFaults /\ crashes' \in 0 .. MaxCrashes /\ profile' \in Profiles
        /\ snapshot' \in {"absent", "unmarked", "marked", "opened", "tomb"}
        /\ evidence' \in {"none", "passed", "failed_clean"}
    BY <1>1, <1>2, <1>3, <1>4 DEF TypeOK
  <2>4. pc' \in PCs /\ loc' \in LocalStates
    BY <1>1, <1>2, <1>3, <1>4 DEF TypeOK, PCs, LocalStates, Creating, Cleaning, Deriving
  <2> QED
    BY <2>1, <2>2, <2>3, <2>4 DEF TypeOK, States, LocalStates
<1>6. Located'
  BY <1>1, <1>2, <1>3, <1>4 DEF Located, Creating, Installing, Cleaning, Deriving, Destroying,
     Publishing
<1>7. Asked' /\ Ledger'
  BY <1>1, <1>2, <1>3, <1>4 DEF Asked, CreatedOnce, Ledger, RemovedAreGone, SameRoles
<1>8. Held'
  BY <1>1, <1>2, <1>3, <1>4 DEF Held, SameRoles
<1>9. Derived' /\ Window'
  BY <1>1, <1>2, <1>3, <1>4 DEF Derived, Deriving, Window, SameRoles
<1>10. Reported'
  <2>1. AnyFailed(st)' <=> AnyFailed(st)
    BY <1>4 DEF AnyFailed
  <2>2. Interrupted(st) /\ Interrupted(st)'
    BY <1>4, <1>3, Names DEF Interrupted
  <2>3. spoiled => AnyFailed(st) \/ loc.bad
    BY <1>1, <1>3 DEF Reported
  <2>4. spoiled' => AnyFailed(st)' \/ loc'.bad
    BY <1>1, <2>1, <2>3
  <2> QED
    BY <2>2, <2>4 DEF Reported
<1>11. Sealed'
  BY <1>1, <1>2, <1>3, <1>4 DEF Sealed, CleanMeansGone, Result, SealPhases, Terminal, SameSeal
<1> QED
  BY <1>5, <1>6, <1>7, <1>8, <1>9, <1>10, <1>11

(* A role is claimed for removal only when it is present. *)
LEMMA ClaimsIInv ==
    ASSUME IInv, ClaimId \/ ClaimRole
    PROVE  IInv'
<1> USE DEF IInv
<1>1. /\ loc.at \in 1 .. Len(CleanupOrder)
      /\ \/ /\ pc = "role" /\ pc' = "claim"
            /\ st' \in {st, [st EXCEPT !.ids = st.ids \cup {CleanupOrder[loc.at]}]}
         \/ /\ pc = "claim" /\ pc' = "remove"
            /\ st' = [st EXCEPT !.created = st.created \cup {CleanupOrder[loc.at]}]
      /\ daemon[CleanupOrder[loc.at]] = "present"
      /\ UNCHANGED <<profile, daemon, online, snapshot, evidence, loc, alive, faults, crashes, asked, spoiled>>
  <2>1. /\ pc \in {"role", "claim"} /\ loc.at <= Len(CleanupOrder) /\ loc.at \in 1 .. 4
        /\ Len(CleanupOrder) \in 1 .. 3
    BY Orders DEF ClaimId, ClaimRole, TypeOK, Located, Cleaning
  <2>2. loc.at \in 1 .. Len(CleanupOrder)
    BY <2>1
  <2>3. daemon[CleanupOrder[loc.at]] = "present"
    BY DEF ClaimId, ClaimRole, Ledger, Role
  <2> QED
    BY <2>2, <2>3 DEF ClaimId, ClaimRole, Role, Goto, world, bounds, history
<1>2. /\ TypeOK /\ st \in States /\ CreateOrder' = CreateOrder /\ CleanupOrder' = CleanupOrder
      /\ Managed' = Managed /\ (UsesIds' <=> UsesIds) /\ (Identified' <=> Identified)
  BY <1>1, Steady DEF TypeOK, States
<1>3. /\ st.phase = "DESTROY_PENDING" /\ CleanupOrder[loc.at] \in Roles
  BY <1>1, Orders DEF Located, Destroying, Cleaning
<1>4. asked[CleanupOrder[loc.at]] # 0
  BY <1>1, <1>3 DEF Asked
<1>5. /\ st' \in States /\ st'.phase = st.phase /\ st'.step = st.step /\ SameSeal(st', st)
      /\ st'.ids \cup st'.created \subseteq st.ids \cup st.created \cup {CleanupOrder[loc.at]}
      /\ st.created \subseteq st'.created /\ st'.removed = st.removed /\ st'.base = st.base
      /\ st'.tainted = st.tainted /\ st'.ops = st.ops
      /\ pc' = "remove" => CleanupOrder[loc.at] \in st'.created
  BY <1>1, <1>2, <1>3 DEF States, SameSeal
<1>6. TypeOK'
  <2>1. /\ st' \in States /\ st'.removed \subseteq st'.created
        /\ st'.phase \in DOMAIN PendingStep => st'.step = PendingStep[st'.phase]
        /\ st'.phase = "RECOVERY_REQUIRED" => st'.step \in Steps \ {"seal"}
        /\ (st'.intent # "none") <=> st'.phase \in {"SEAL_PENDING"} \cup Terminal
        /\ st'.intent # "none" => st'.draft
    BY <1>1, <1>2, <1>3, <1>4, <1>5, Names DEF TypeOK, SameRoles, SameSeal, States, Terminal
  <2>2. alive' \in BOOLEAN /\ spoiled' \in BOOLEAN /\ online' \in BOOLEAN
    BY <1>1, <1>2, <1>3, <1>4, <1>5 DEF TypeOK
  <2>3. /\ daemon' \in [Roles -> {"absent", "coming", "present"}] /\ asked' \in [Roles -> Nat]
        /\ faults' \in 0 .. MaxFaults /\ crashes' \in 0 .. MaxCrashes /\ profile' \in Profiles
        /\ snapshot' \in {"absent", "unmarked", "marked", "opened", "tomb"}
        /\ evidence' \in {"none", "passed", "failed_clean"}
    BY <1>1, <1>2, <1>3, <1>4, <1>5 DEF TypeOK
  <2>4. pc' \in PCs /\ loc' \in LocalStates
    BY <1>1, <1>2, <1>3, <1>4, <1>5 DEF TypeOK, PCs, LocalStates, Creating, Cleaning, Deriving
  <2> QED
    BY <2>1, <2>2, <2>3, <2>4 DEF TypeOK, States, LocalStates
<1>7. Located'
  BY <1>1, <1>2, <1>3, <1>4, <1>5 DEF Located, Creating, Installing, Cleaning, Deriving,
     Destroying, Publishing
<1>8. Asked' /\ Ledger'
  BY <1>1, <1>2, <1>3, <1>4, <1>5 DEF Asked, CreatedOnce, Ledger, RemovedAreGone, SameRoles
<1>9. Held'
  BY <1>1, <1>2, <1>3, <1>4, <1>5 DEF Held, SameRoles
<1>10. Derived' /\ Window'
  BY <1>1, <1>2, <1>3, <1>4, <1>5 DEF Derived, Deriving, Window, SameRoles
<1>11. Reported'
  <2>1. AnyFailed(st) => AnyFailed(st)'
    BY <1>1, <1>2, <1>3, <1>4, <1>5 DEF AnyFailed
  <2>2. Interrupted(st) => Interrupted(st)'
    BY <1>1, <1>2, <1>3, <1>4, <1>5, Names DEF Interrupted
  <2> QED
    BY <1>1, <1>2, <1>3, <1>4, <1>5, <2>1, <2>2 DEF Reported
<1>12. Sealed'
  BY <1>1, <1>2, <1>3, <1>4, <1>5 DEF Sealed, CleanMeansGone, Result, SealPhases, Terminal,
     SameSeal
<1> QED
  BY <1>6, <1>7, <1>8, <1>9, <1>10, <1>11, <1>12

(* A removal that succeeds leaves the role gone; one that fails leaves it as it was. *)
LEMMA RemovesIInv ==
    ASSUME IInv, Remove
    PROVE  IInv'
<1> USE DEF IInv
<1>1. /\ pc = "remove" /\ loc.at \in 1 .. Len(CleanupOrder)
      /\ daemon' = daemon \/ daemon' = [daemon EXCEPT ![CleanupOrder[loc.at]] = "absent"]
      /\ \/ /\ pc' = "ledger" /\ loc'.at = loc.at
            /\ daemon' = [daemon EXCEPT ![CleanupOrder[loc.at]] = "absent"]
         \/ pc' \in {"role", "snapshot", "destroyed"} /\ (pc' = "role" => loc'.at <= Len(CleanupOrder))
      /\ pc' = "snapshot" => UsesIds
      /\ loc' \in LocalStates /\ (loc.bad => loc'.bad)
      /\ faults' \in 0 .. MaxFaults /\ spoiled' \in BOOLEAN /\ (spoiled' => spoiled \/ loc'.bad)
      /\ UNCHANGED <<profile, st, online, snapshot, evidence, alive, crashes, asked>>
  <2>1. /\ pc = "remove" /\ loc.at <= Len(CleanupOrder) /\ loc.at \in 1 .. 4
        /\ Len(CleanupOrder) \in 1 .. 3 /\ loc \in LocalStates /\ spoiled \in BOOLEAN
    BY Orders DEF Remove, TypeOK, Located, Cleaning, LocalStates
  <2>2. loc.at \in 1 .. Len(CleanupOrder)
    BY <2>1
  <2>3. daemon' = daemon \/ daemon' = [daemon EXCEPT ![CleanupOrder[loc.at]] = "absent"]
    BY DEF Remove, Role
  <2>4. /\ [loc EXCEPT !.bad = TRUE] \in LocalStates /\ [loc EXCEPT !.bad = TRUE].bad
        /\ [loc EXCEPT !.bad = TRUE].at = loc.at
    BY <2>1 DEF LocalStates
  <2>5. \/ /\ NoFault /\ pc' = "ledger" /\ UNCHANGED loc
           /\ daemon' = [daemon EXCEPT ![CleanupOrder[loc.at]] = "absent"]
        \/ Fault /\ AfterRole(TRUE)
        \/ /\ Fault /\ pc' = "ledger" /\ loc' = [loc EXCEPT !.bad = TRUE]
           /\ daemon' = [daemon EXCEPT ![CleanupOrder[loc.at]] = "absent"]
    BY DEF Remove, Role, Goto
  <2>6. AfterRole(TRUE) =>
          /\ loc' \in LocalStates /\ loc'.bad
          /\ pc' \in {"role", "snapshot", "destroyed"} /\ (pc' = "role" => loc'.at <= Len(CleanupOrder))
          /\ pc' = "snapshot" => UsesIds
    BY <2>1, AfterRoleShape
  <2>7. loc' \in LocalStates /\ (loc.bad => loc'.bad)
    BY <2>1, <2>4, <2>5, <2>6
  <2>8. /\ \/ /\ pc' = "ledger" /\ loc'.at = loc.at
              /\ daemon' = [daemon EXCEPT ![CleanupOrder[loc.at]] = "absent"]
           \/ /\ pc' \in {"role", "snapshot", "destroyed"}
              /\ pc' = "role" => loc'.at <= Len(CleanupOrder)
        /\ pc' = "snapshot" => UsesIds
    BY <2>4, <2>5, <2>6
  <2>9. faults' \in 0 .. MaxFaults
    BY <2>5, FaultShape DEF NoFault
  <2>10. spoiled' \in BOOLEAN /\ (spoiled' => spoiled \/ loc'.bad)
    <3>1. CASE NoFault
      BY <2>1, <3>1 DEF NoFault
    <3>2. CASE Fault /\ (AfterRole(TRUE) \/ loc' = [loc EXCEPT !.bad = TRUE])
      <4>1. loc'.bad
        BY <2>4, <2>6, <3>2
      <4>2. spoiled' = TRUE
        BY <3>2 DEF Fault
      <4> QED
        BY <4>1, <4>2
    <3> QED
      BY <2>5, <3>1, <3>2
  <2>11. UNCHANGED <<profile, st, online, snapshot, evidence, alive, crashes, asked>>
    BY DEF Remove
  <2> QED
    BY <2>1, <2>2, <2>3, <2>7, <2>8, <2>9, <2>10, <2>11
<1>2. /\ TypeOK /\ st \in States /\ CreateOrder' = CreateOrder /\ CleanupOrder' = CleanupOrder
      /\ Managed' = Managed /\ (UsesIds' <=> UsesIds) /\ (Identified' <=> Identified)
  BY <1>1, Steady DEF TypeOK, States
<1>3. /\ st.phase = "DESTROY_PENDING" /\ CleanupOrder[loc.at] \in Roles
  BY <1>1, Orders DEF Located, Destroying, Cleaning
<1>4. /\ daemon' \in [Roles -> {"absent", "coming", "present"}] /\ asked[CleanupOrder[loc.at]] # 0
      /\ \A r \in Roles : daemon'[r] \in {daemon[r], "absent"}
      /\ pc' = "ledger" => daemon'[CleanupOrder[loc.at]] = "absent"
  BY <1>1, <1>3 DEF TypeOK, Ledger, Asked
<1>5. TypeOK'
  <2>1. /\ st' \in States /\ st'.removed \subseteq st'.created
        /\ st'.phase \in DOMAIN PendingStep => st'.step = PendingStep[st'.phase]
        /\ st'.phase = "RECOVERY_REQUIRED" => st'.step \in Steps \ {"seal"}
        /\ (st'.intent # "none") <=> st'.phase \in {"SEAL_PENDING"} \cup Terminal
        /\ st'.intent # "none" => st'.draft
    BY <1>1, <1>2, <1>3, <1>4, Names DEF TypeOK, SameRoles, SameSeal, States, Terminal
  <2>2. alive' \in BOOLEAN /\ spoiled' \in BOOLEAN /\ online' \in BOOLEAN
    BY <1>1, <1>2, <1>3, <1>4 DEF TypeOK
  <2>3. /\ daemon' \in [Roles -> {"absent", "coming", "present"}] /\ asked' \in [Roles -> Nat]
        /\ faults' \in 0 .. MaxFaults /\ crashes' \in 0 .. MaxCrashes /\ profile' \in Profiles
        /\ snapshot' \in {"absent", "unmarked", "marked", "opened", "tomb"}
        /\ evidence' \in {"none", "passed", "failed_clean"}
    BY <1>1, <1>2, <1>3, <1>4 DEF TypeOK
  <2>4. pc' \in PCs /\ loc' \in LocalStates
    BY <1>1, <1>2, <1>3, <1>4 DEF TypeOK, PCs, LocalStates, Creating, Cleaning, Deriving
  <2> QED
    BY <2>1, <2>2, <2>3, <2>4 DEF TypeOK, States, LocalStates
<1>6. Located'
  BY <1>1, <1>2, <1>3, <1>4 DEF Located, Creating, Installing, Cleaning, Deriving, Destroying,
     Publishing
<1>7. Asked' /\ Ledger'
  <2>1. Asked'
    BY <1>1, <1>2, <1>3, <1>4 DEF Asked, CreatedOnce
  <2>2. RemovedAreGone'
    <3>1. \A r \in st.removed : daemon[r] = "absent" /\ r \in Roles
      BY DEF Ledger, RemovedAreGone, TypeOK
    <3> QED
      BY <1>1, <1>4, <3>1 DEF RemovedAreGone
  <2>3. \A r \in st.ids \cup st.created : daemon'[r] # "coming"
    <3>1. \A r \in st.ids \cup st.created : daemon[r] # "coming" /\ r \in Roles
      BY DEF Ledger, TypeOK
    <3> QED
      BY <1>4, <3>1
  <2>4. pc' = "ledger" => CleanupOrder[loc.at] \in st.created /\ loc'.at = loc.at
    BY <1>1 DEF Ledger
  <2> QED
    BY <1>1, <1>2, <1>3, <1>4, <2>1, <2>2, <2>3, <2>4 DEF Ledger
<1>8. Held'
  BY <1>1, <1>2, <1>3, <1>4 DEF Held, SameRoles
<1>9. Derived' /\ Window'
  BY <1>1, <1>2, <1>3, <1>4 DEF Derived, Deriving, Window, SameRoles
<1>10. Reported'
  <2>1. AnyFailed(st)' <=> AnyFailed(st)
    BY <1>1 DEF AnyFailed
  <2>2. Interrupted(st) /\ Interrupted(st)'
    BY <1>1, <1>3, Names DEF Interrupted
  <2>3. spoiled => AnyFailed(st) \/ loc.bad
    BY <1>1, <1>3 DEF Reported
  <2>4. spoiled' => AnyFailed(st)' \/ loc'.bad
    BY <1>1, <2>1, <2>3
  <2> QED
    BY <2>2, <2>4 DEF Reported
<1>11. Sealed'
  BY <1>1, <1>2, <1>3, <1>4 DEF Sealed, CleanMeansGone, Result, SealPhases, Terminal, SameSeal
<1> QED
  BY <1>5, <1>6, <1>7, <1>8, <1>9, <1>10, <1>11

(* The derived snapshot is removed after the roles, by way of its tomb. *)
LEMMA DerivesIInv ==
    ASSUME IInv, 
           Snapshot \/ Unlink \/ RemoveDirectory \/ RecordSnapshotRemoved \/ Finalize
    PROVE  IInv'
<1> USE DEF IInv
<1>1. /\ pc \in Deriving /\ pc' \in {"unlink", "rmdir", "record", "finalize", "destroyed"}
      /\ st' \in States /\ st'.phase = st.phase /\ st'.step = st.step /\ st'.ops = st.ops
      /\ st'.ids = st.ids /\ st'.created = st.created /\ st'.removed = st.removed
      /\ SameSeal(st', st) /\ (st.tainted => st'.tainted)
      /\ st'.base # "none" /\ (st'.base = st.base \/ st'.base \in {"removing", "removed"})
      /\ pc' \in {"unlink", "rmdir", "record"} => st'.base = "removing"
      /\ snapshot' \in {"absent", "unmarked", "marked", "opened", "tomb"}
      /\ snapshot' = "tomb" => Identified /\ st'.base \in {"removing", "removed"}
      /\ loc' \in LocalStates /\ (loc.bad => loc'.bad)
      /\ faults' \in 0 .. MaxFaults /\ spoiled' \in BOOLEAN /\ (spoiled' => spoiled \/ loc'.bad)
      /\ UNCHANGED <<profile, daemon, online, evidence, alive, crashes, asked>>
  <2>1. /\ pc \in Deriving /\ loc \in LocalStates /\ st \in States /\ spoiled \in BOOLEAN /\ UsesIds
        /\ st.base \in {"none", "unbound", "bound", "removing", "removed"} /\ st.base # "none"
        /\ snapshot \in {"absent", "unmarked", "marked", "opened", "tomb"}
        /\ snapshot = "tomb" => Identified /\ st.base \in {"removing", "removed"}
        /\ pc \in {"unlink", "rmdir", "record"} => st.base = "removing"
    BY DEF Snapshot, Unlink, RemoveDirectory, RecordSnapshotRemoved, Finalize, TypeOK, Located,
       Deriving, Derived, LocalStates, States
  <2>2. /\ [loc EXCEPT !.bad = TRUE] \in LocalStates /\ [loc EXCEPT !.bad = TRUE].bad
    BY <2>1 DEF LocalStates
  <2>3. \/ st' = st
        \/ st' = [st EXCEPT !.tainted = TRUE]
        \/ pc = "snapshot" /\ st' = [st EXCEPT !.base = "removing"]
        \/ pc = "record" /\ st' = [st EXCEPT !.base = "removed"]
    BY DEF Snapshot, Unlink, RemoveDirectory, RecordSnapshotRemoved, Finalize, RefuseSnapshot
  <2>4. \/ UNCHANGED loc
        \/ loc' = [loc EXCEPT !.bad = TRUE] /\ pc' = "destroyed"
    BY DEF Snapshot, Unlink, RemoveDirectory, RecordSnapshotRemoved, Finalize, RefuseSnapshot,
       Goto
  <2>5. /\ pc' \in {"unlink", "rmdir", "record", "finalize", "destroyed"}
        /\ pc' = "unlink" => st' = [st EXCEPT !.base = "removing"]
        /\ pc' = "rmdir" => pc = "unlink" /\ st' = st
        /\ pc' = "record" => pc \in {"unlink", "rmdir"} /\ st' = st
    BY DEF Snapshot, Unlink, RemoveDirectory, RecordSnapshotRemoved, Finalize, RefuseSnapshot,
       Goto
  <2>6. /\ st' \in States /\ st'.phase = st.phase /\ st'.step = st.step /\ st'.ops = st.ops
        /\ st'.ids = st.ids /\ st'.created = st.created /\ st'.removed = st.removed
        /\ SameSeal(st', st) /\ (st.tainted => st'.tainted)
        /\ st'.base # "none" /\ (st'.base = st.base \/ st'.base \in {"removing", "removed"})
        /\ st.base = "removing" => st'.base \in {"removing", "removed"}
        /\ st.base = "removed" => st'.base \in {"removing", "removed"}
    BY <2>1, <2>3 DEF States, SameSeal
  <2>7. pc' \in {"unlink", "rmdir", "record"} => st'.base = "removing"
    BY <2>1, <2>5 DEF States
  <2>8. /\ snapshot' \in {snapshot, "opened", "absent"} \/ (pc = "rmdir" /\ snapshot' = "tomb" /\ Identified)
    BY DEF Snapshot, Unlink, RemoveDirectory, RecordSnapshotRemoved, Finalize, world
  <2>9. /\ snapshot' \in {"absent", "unmarked", "marked", "opened", "tomb"}
        /\ snapshot' = "tomb" => Identified /\ st'.base \in {"removing", "removed"}
    BY <2>1, <2>6, <2>8
  <2>10. loc' \in LocalStates /\ (loc.bad => loc'.bad)
    BY <2>1, <2>2, <2>4
  <2>11. \/ UNCHANGED <<faults, spoiled>>
         \/ Fault /\ loc' = [loc EXCEPT !.bad = TRUE]
    BY DEF Snapshot, Unlink, RemoveDirectory, RecordSnapshotRemoved, Finalize, RefuseSnapshot,
       NoFault, bounds, history
  <2>12. faults' \in 0 .. MaxFaults
    BY <2>11, FaultShape
  <2>13. spoiled' \in BOOLEAN /\ (spoiled' => spoiled \/ loc'.bad)
    <3>1. CASE spoiled' = spoiled
      BY <2>1, <3>1
    <3>2. CASE Fault /\ loc' = [loc EXCEPT !.bad = TRUE]
      <4>1. loc'.bad
        BY <2>2, <3>2
      <4>2. spoiled' = TRUE
        BY <3>2 DEF Fault
      <4> QED
        BY <4>1, <4>2
    <3> QED
      BY <2>11, <3>1, <3>2
  <2>14. UNCHANGED <<profile, daemon, online, evidence, alive, crashes, asked>>
    BY DEF Snapshot, Unlink, RemoveDirectory, RecordSnapshotRemoved, Finalize, world, bounds,
       history
  <2> QED
    BY <2>1, <2>5, <2>6, <2>7, <2>9, <2>10, <2>12, <2>13, <2>14
<1>2. /\ TypeOK /\ st \in States /\ CreateOrder' = CreateOrder /\ CleanupOrder' = CleanupOrder
      /\ Managed' = Managed /\ (UsesIds' <=> UsesIds) /\ (Identified' <=> Identified)
  BY <1>1, Steady DEF TypeOK, States
<1>3. st.phase = "DESTROY_PENDING"
  BY <1>1 DEF Located, Destroying
<1>4. UsesIds /\ st.base # "none" /\ pc \notin {"idle", "failing"}
  BY <1>1 DEF Derived, Deriving
<1>5. TypeOK'
  <2>1. /\ st' \in States /\ st'.removed \subseteq st'.created
        /\ st'.phase \in DOMAIN PendingStep => st'.step = PendingStep[st'.phase]
        /\ st'.phase = "RECOVERY_REQUIRED" => st'.step \in Steps \ {"seal"}
        /\ (st'.intent # "none") <=> st'.phase \in {"SEAL_PENDING"} \cup Terminal
        /\ st'.intent # "none" => st'.draft
    BY <1>1, <1>2, <1>3, <1>4, Names DEF TypeOK, SameRoles, SameSeal, States, Terminal
  <2>2. alive' \in BOOLEAN /\ spoiled' \in BOOLEAN /\ online' \in BOOLEAN
    BY <1>1, <1>2, <1>3, <1>4 DEF TypeOK
  <2>3. /\ daemon' \in [Roles -> {"absent", "coming", "present"}] /\ asked' \in [Roles -> Nat]
        /\ faults' \in 0 .. MaxFaults /\ crashes' \in 0 .. MaxCrashes /\ profile' \in Profiles
        /\ snapshot' \in {"absent", "unmarked", "marked", "opened", "tomb"}
        /\ evidence' \in {"none", "passed", "failed_clean"}
    BY <1>1, <1>2, <1>3, <1>4 DEF TypeOK
  <2>4. pc' \in PCs /\ loc' \in LocalStates
    BY <1>1, <1>2, <1>3, <1>4 DEF TypeOK, PCs, LocalStates, Creating, Cleaning, Deriving
  <2> QED
    BY <2>1, <2>2, <2>3, <2>4 DEF TypeOK, States, LocalStates
<1>6. Located'
  BY <1>1, <1>2, <1>3, <1>4 DEF Located, Creating, Installing, Cleaning, Deriving, Destroying,
     Publishing
<1>7. Asked' /\ Ledger'
  BY <1>1, <1>2, <1>3, <1>4 DEF Asked, CreatedOnce, Ledger, RemovedAreGone, SameRoles
<1>8. Held'
  BY <1>1, <1>2, <1>3, <1>4 DEF Held, SameRoles
<1>9. Derived' /\ Window'
  BY <1>1, <1>2, <1>3, <1>4 DEF Derived, Deriving, Window, SameRoles
<1>10. Reported'
  <2>1. AnyFailed(st)' <=> AnyFailed(st)
    BY <1>1 DEF AnyFailed
  <2>2. Interrupted(st) /\ Interrupted(st)'
    BY <1>1, <1>3, Names DEF Interrupted
  <2>3. spoiled => AnyFailed(st) \/ loc.bad
    BY <1>1, <1>3, <1>4 DEF Reported
  <2>4. spoiled' => AnyFailed(st)' \/ loc'.bad
    BY <1>1, <2>1, <2>3
  <2> QED
    BY <2>2, <2>4 DEF Reported
<1>11. Sealed'
  BY <1>1, <1>2, <1>3, <1>4 DEF Sealed, CleanMeansGone, Result, SealPhases, Terminal, SameSeal
<1> QED
  BY <1>5, <1>6, <1>7, <1>8, <1>9, <1>10, <1>11

(* The result is decided before anything is published. *)
LEMMA SealsIInv ==
    ASSUME IInv, BeginSeal \/ ResumeSeal
    PROVE  IInv'
<1> USE DEF IInv
<1>1. /\ pc = "idle" /\ pc' = "publish" /\ loc' \in LocalStates /\ ~loc'.bad /\ ~st.tainted
      /\ st.phase \in {"CLEAN_VERIFIED", "SEAL_PENDING"}
      /\ /\ st' \in States /\ st'.phase = "SEAL_PENDING" /\ st'.step = "seal" /\ st'.draft
      /\ st'.intent = Result(st) /\ SameRoles(st', st) /\ st'.tainted = st.tainted /\ st'.ops = st.ops
      /\ UNCHANGED <<profile, daemon, online, snapshot, evidence, alive, faults, crashes, asked, spoiled>>
  <2>1. st \in States /\ Result(st) \in {"passed", "failed_clean"} /\ "SEAL_PENDING" \in Phases
    BY Names DEF TypeOK, States, Result
  <2>2. /\ pc = "idle" /\ pc' = "publish" /\ loc' \in LocalStates /\ ~loc'.bad /\ ~st.tainted
        /\ st.phase \in {"CLEAN_VERIFIED", "SEAL_PENDING"}
    BY FreshShape DEF BeginSeal, ResumeSeal, Enter
  <2>3. CASE BeginSeal
    <3> DEFINE s == Moved(st, "SEAL_PENDING")
    <3>1. /\ s \in States /\ s.phase = "SEAL_PENDING" /\ s.step = StepOf("SEAL_PENDING")
          /\ SameRoles(s, st) /\ s.tainted = st.tainted /\ s.ops = st.ops
      BY <2>1, MovedShape
    <3>2. st' = [s EXCEPT !.draft = TRUE, !.intent = Result(st)]
      BY <2>3 DEF BeginSeal
    <3>3. StepOf("SEAL_PENDING") = "seal"
      BY Names DEF StepOf, PendingStep
    <3> HIDE DEF s
    <3>4. /\ st' \in States /\ st'.phase = "SEAL_PENDING" /\ st'.step = "seal" /\ st'.draft
          /\ st'.intent = Result(st) /\ SameRoles(st', st) /\ st'.tainted = st.tainted
          /\ st'.ops = st.ops
      BY <2>1, <3>1, <3>2, <3>3 DEF States, SameRoles
    <3> QED
      BY <2>2, <2>3, <3>4 DEF BeginSeal, world, bounds, history
  <2>4. CASE ResumeSeal
    <3>1. st.step = "seal" /\ st.draft /\ st.intent = Result(st)
      BY <2>4, Names DEF ResumeSeal, TypeOK, PendingStep
    <3> QED
      BY <2>1, <2>2, <2>4, <3>1 DEF ResumeSeal, world, bounds, history, SameRoles
  <2> QED
    BY <2>3, <2>4
<1>2. /\ TypeOK /\ st \in States /\ CreateOrder' = CreateOrder /\ CleanupOrder' = CleanupOrder
      /\ Managed' = Managed /\ (UsesIds' <=> UsesIds) /\ (Identified' <=> Identified)
  BY <1>1, Steady DEF TypeOK, States
<1>3. Result(st) \in {"passed", "failed_clean"} /\ Result(st') = Result(st)
  BY <1>1 DEF Result
<1>4. PendingStep["SEAL_PENDING"] = "seal"
  BY DEF PendingStep
<1>5. TypeOK'
  <2>1. /\ st' \in States /\ st'.removed \subseteq st'.created
        /\ st'.phase \in DOMAIN PendingStep => st'.step = PendingStep[st'.phase]
        /\ st'.phase = "RECOVERY_REQUIRED" => st'.step \in Steps \ {"seal"}
        /\ (st'.intent # "none") <=> st'.phase \in {"SEAL_PENDING"} \cup Terminal
        /\ st'.intent # "none" => st'.draft
    BY <1>1, <1>2, <1>3, <1>4, Names DEF TypeOK, SameRoles, SameSeal, States, Terminal
  <2>2. alive' \in BOOLEAN /\ spoiled' \in BOOLEAN /\ online' \in BOOLEAN
    BY <1>1, <1>2, <1>3, <1>4 DEF TypeOK
  <2>3. /\ daemon' \in [Roles -> {"absent", "coming", "present"}] /\ asked' \in [Roles -> Nat]
        /\ faults' \in 0 .. MaxFaults /\ crashes' \in 0 .. MaxCrashes /\ profile' \in Profiles
        /\ snapshot' \in {"absent", "unmarked", "marked", "opened", "tomb"}
        /\ evidence' \in {"none", "passed", "failed_clean"}
    BY <1>1, <1>2, <1>3, <1>4 DEF TypeOK
  <2>4. pc' \in PCs /\ loc' \in LocalStates
    BY <1>1, <1>2, <1>3, <1>4 DEF TypeOK, PCs, LocalStates, Creating, Cleaning, Deriving
  <2> QED
    BY <2>1, <2>2, <2>3, <2>4 DEF TypeOK, States, LocalStates
<1>6. Located'
  BY <1>1, <1>2, <1>3, <1>4 DEF Located, Creating, Installing, Cleaning, Deriving, Destroying,
     Publishing
<1>7. Asked' /\ Ledger'
  BY <1>1, <1>2, <1>3, <1>4 DEF Asked, CreatedOnce, Ledger, RemovedAreGone, SameRoles
<1>8. Held'
  BY <1>1, <1>2, <1>3, <1>4 DEF Held, SameRoles
<1>9. Derived' /\ Window'
  BY <1>1, <1>2, <1>3, <1>4 DEF Derived, Deriving, Window, SameRoles
<1>10. Reported'
  <2>1. AnyFailed(st)' <=> AnyFailed(st)
    BY <1>1 DEF AnyFailed
  <2>2. ~Interrupted(st) /\ st.phase # "NEW"
    BY <1>1, Names DEF Interrupted
  <2> QED
    BY <1>1, <2>1, <2>2 DEF Reported
<1>11. Sealed'
  BY <1>1, <1>2, <1>3, <1>4 DEF Sealed, CleanMeansGone, Result, SealPhases, Terminal, SameSeal
<1> QED
  BY <1>5, <1>6, <1>7, <1>8, <1>9, <1>10, <1>11

(* What is published is the result that was decided. *)
LEMMA PublishesIInv ==
    ASSUME IInv, Publish
    PROVE  IInv'
<1> USE DEF IInv
<1>1. /\ pc = "publish" /\ pc' \in {"commit", "idle"} /\ loc' \in LocalStates /\ ~loc'.bad
      /\ evidence' \in {evidence, Result(st)} /\ faults' \in 0 .. MaxFaults
      /\ UNCHANGED <<profile, st, daemon, online, snapshot, alive, crashes, asked, spoiled>>
  <2>1. faults' \in 0 .. MaxFaults
    BY LabAssumption DEF Publish, TypeOK
  <2>2. loc \in LocalStates /\ ~loc.bad
    BY DEF Publish, TypeOK, LocalStates, Located, Destroying, Cleaning, Deriving
  <2>3. pc = "publish" /\ pc' \in {"commit", "idle"} /\ loc' \in LocalStates /\ ~loc'.bad
    BY <2>2, FreshShape DEF Publish, Goto, Leave
  <2> QED
    BY <2>1, <2>3 DEF Publish, history
<1>2. /\ TypeOK /\ st \in States /\ CreateOrder' = CreateOrder /\ CleanupOrder' = CleanupOrder
      /\ Managed' = Managed /\ (UsesIds' <=> UsesIds) /\ (Identified' <=> Identified)
  BY <1>1, Steady DEF TypeOK, States
<1>3. st.phase = "SEAL_PENDING" /\ st.intent = Result(st) /\ st.intent \in {"passed", "failed_clean"}
  BY <1>1 DEF Located, Publishing, Sealed, SealPhases, Result
<1>4. TypeOK'
  <2>1. /\ st' \in States /\ st'.removed \subseteq st'.created
        /\ st'.phase \in DOMAIN PendingStep => st'.step = PendingStep[st'.phase]
        /\ st'.phase = "RECOVERY_REQUIRED" => st'.step \in Steps \ {"seal"}
        /\ (st'.intent # "none") <=> st'.phase \in {"SEAL_PENDING"} \cup Terminal
        /\ st'.intent # "none" => st'.draft
    BY <1>1, <1>2, <1>3, Names DEF TypeOK, SameRoles, SameSeal, States, Terminal
  <2>2. alive' \in BOOLEAN /\ spoiled' \in BOOLEAN /\ online' \in BOOLEAN
    BY <1>1, <1>2, <1>3 DEF TypeOK
  <2>3. /\ daemon' \in [Roles -> {"absent", "coming", "present"}] /\ asked' \in [Roles -> Nat]
        /\ faults' \in 0 .. MaxFaults /\ crashes' \in 0 .. MaxCrashes /\ profile' \in Profiles
        /\ snapshot' \in {"absent", "unmarked", "marked", "opened", "tomb"}
        /\ evidence' \in {"none", "passed", "failed_clean"}
    BY <1>1, <1>2, <1>3 DEF TypeOK
  <2>4. pc' \in PCs /\ loc' \in LocalStates
    BY <1>1, <1>2, <1>3 DEF TypeOK, PCs, LocalStates, Creating, Cleaning, Deriving
  <2> QED
    BY <2>1, <2>2, <2>3, <2>4 DEF TypeOK, States, LocalStates
<1>5. Located'
  BY <1>1, <1>2, <1>3 DEF Located, Creating, Installing, Cleaning, Deriving, Destroying,
     Publishing
<1>6. Asked' /\ Ledger'
  BY <1>1, <1>2, <1>3 DEF Asked, CreatedOnce, Ledger, RemovedAreGone, SameRoles
<1>7. Held'
  BY <1>1, <1>2, <1>3 DEF Held, SameRoles
<1>8. Derived' /\ Window'
  BY <1>1, <1>2, <1>3 DEF Derived, Deriving, Window, SameRoles
<1>9. Reported'
  <2>1. AnyFailed(st)' <=> AnyFailed(st)
    BY <1>1 DEF AnyFailed
  <2>2. ~Interrupted(st) /\ st.phase # "NEW"
    BY <1>3, Names DEF Interrupted
  <2> QED
    BY <1>1, <2>1, <2>2 DEF Reported
<1>10. Sealed'
  BY <1>1, <1>2, <1>3 DEF Sealed, CleanMeansGone, Result, SealPhases, Terminal, SameSeal
<1> QED
  BY <1>4, <1>5, <1>6, <1>7, <1>8, <1>9, <1>10

(* A seal is committed with the result that was published. *)
LEMMA CommitsIInv ==
    ASSUME IInv, CommitSeal
    PROVE  IInv'
<1> USE DEF IInv
<1>1. /\ pc = "commit" /\ st.phase = "SEAL_PENDING" /\ st.intent = Result(st)
      /\ st'.phase \in Terminal /\ (st'.phase = "FAILED_CLEAN" <=> Result(st) # "passed")
      /\ SameSeal(st', st) /\ Result(st') = Result(st)
      /\ st' \in States /\ st'.step = StepOf(st'.phase) /\ SameRoles(st', st)
      /\ st'.tainted = st.tainted /\ (AnyFailed(st) => AnyFailed(st'))
      /\ pc' = "idle" /\ loc' \in LocalStates /\ ~loc'.bad
      /\ UNCHANGED <<profile, daemon, online, snapshot, evidence, alive, faults, crashes, asked, spoiled>>
  <2> DEFINE to == IF Result(st) = "passed" THEN "PASSED" ELSE "FAILED_CLEAN"
  <2>1. to \in Phases /\ to \in Terminal /\ "seal" \in Steps
    BY Names DEF Terminal
  <2>2. Finish("seal", "succeeded", to)
    BY DEF CommitSeal
  <2>3. to = "FAILED_CLEAN" <=> Result(st) # "passed"
    OBVIOUS
  <2> HIDE DEF to
  <2>4. /\ st' \in States /\ st'.phase = to /\ st'.step = StepOf(to)
        /\ SameRoles(st', st) /\ SameSeal(st', st) /\ st'.tainted = st.tainted
        /\ st'.ops = st.ops \cup {<<"seal", "succeeded">>}
        /\ (\E o \in st.ops : o[2] = "failed") => \E o \in st'.ops : o[2] = "failed"
    BY <2>1, <2>2, FinishShape DEF Finish
  <2>5. AnyFailed(st) => AnyFailed(st')
    BY <2>4 DEF AnyFailed
  <2>6. <<"seal", "succeeded">>[2] = "succeeded"
    OBVIOUS
  <2>7. Result(st') = Result(st)
    BY <2>4, <2>6 DEF Result
  <2>8. pc = "commit" /\ st.phase = "SEAL_PENDING" /\ st.intent = Result(st)
    BY DEF CommitSeal, Located, Publishing, Sealed, SealPhases
  <2>9. pc' = "idle" /\ loc' \in LocalStates /\ ~loc'.bad
    BY <2>2, FreshShape DEF Finish, Leave
  <2> QED
    BY <2>1, <2>3, <2>4, <2>5, <2>7, <2>8, <2>9 DEF CommitSeal, world, bounds, history
<1>2. /\ TypeOK /\ st \in States /\ CreateOrder' = CreateOrder /\ CleanupOrder' = CleanupOrder
      /\ Managed' = Managed /\ (UsesIds' <=> UsesIds) /\ (Identified' <=> Identified)
  BY <1>1, Steady DEF TypeOK, States
<1>3. StepOf(st'.phase) \in Steps \cup {"none"} /\ st'.phase \notin DOMAIN PendingStep
  BY <1>1, StepOfShape, Names DEF States, Terminal
<1>4. Result(st) \in {"passed", "failed_clean"} /\ st.draft
  BY <1>1 DEF Result, TypeOK
<1>5. TypeOK'
  <2>1. /\ st' \in States /\ st'.removed \subseteq st'.created
        /\ st'.phase \in DOMAIN PendingStep => st'.step = PendingStep[st'.phase]
        /\ st'.phase = "RECOVERY_REQUIRED" => st'.step \in Steps \ {"seal"}
        /\ (st'.intent # "none") <=> st'.phase \in {"SEAL_PENDING"} \cup Terminal
        /\ st'.intent # "none" => st'.draft
    BY <1>1, <1>2, <1>3, <1>4, Names DEF TypeOK, SameRoles, SameSeal, States, Terminal
  <2>2. alive' \in BOOLEAN /\ spoiled' \in BOOLEAN /\ online' \in BOOLEAN
    BY <1>1, <1>2, <1>3, <1>4 DEF TypeOK
  <2>3. /\ daemon' \in [Roles -> {"absent", "coming", "present"}] /\ asked' \in [Roles -> Nat]
        /\ faults' \in 0 .. MaxFaults /\ crashes' \in 0 .. MaxCrashes /\ profile' \in Profiles
        /\ snapshot' \in {"absent", "unmarked", "marked", "opened", "tomb"}
        /\ evidence' \in {"none", "passed", "failed_clean"}
    BY <1>1, <1>2, <1>3, <1>4 DEF TypeOK
  <2>4. pc' \in PCs /\ loc' \in LocalStates
    BY <1>1, <1>2, <1>3, <1>4 DEF TypeOK, PCs, LocalStates, Creating, Cleaning, Deriving
  <2> QED
    BY <2>1, <2>2, <2>3, <2>4 DEF TypeOK, States, LocalStates
<1>6. Located'
  BY <1>1, <1>2, <1>3, <1>4 DEF Located, Creating, Installing, Cleaning, Deriving, Destroying,
     Publishing, Terminal
<1>7. Asked' /\ Ledger'
  BY <1>1, <1>2, <1>3, <1>4 DEF Asked, CreatedOnce, Ledger, RemovedAreGone, SameRoles, Terminal
<1>8. Held'
  BY <1>1, <1>2, <1>3, <1>4 DEF Held, SameRoles
<1>9. Derived' /\ Window'
  BY <1>1, <1>2, <1>3, <1>4 DEF Derived, Deriving, Window, SameRoles, Terminal
<1>10. Reported'
  <2>2. ~Interrupted(st) /\ st.phase # "NEW"
    BY <1>1, Names DEF Interrupted
  <2> QED
    BY <1>1, <2>2 DEF Reported
<1>11. Sealed'
  BY <1>1, <1>2, <1>3, <1>4 DEF Sealed, CleanMeansGone, Result, SealPhases, Terminal, SameSeal
<1> QED
  BY <1>5, <1>6, <1>7, <1>8, <1>9, <1>10, <1>11

(* Recovery turns an interrupted operation into one that failed. *)
LEMMA RecoversIInv ==
    ASSUME IInv, Reload \/ InterruptStable
    PROVE  IInv'
<1> USE DEF IInv
<1>1. /\ pc = "idle" /\ (st.phase \in {"CREATE_PENDING"} => st'.step = "create")
      /\ \/ st.phase \in DOMAIN PendingStep \ {"SEAL_PENDING"}
         \/ st.phase \in {"NEW", "CREATED", "INSTALLED", "TESTED"}
      /\ st' \in States /\ st'.phase = "RECOVERY_REQUIRED" /\ st'.step \in Steps \ {"seal"}
      /\ SameRoles(st', st) /\ SameSeal(st', st) /\ st'.tainted = st.tainted
      /\ AnyFailed(st') /\ alive' \in BOOLEAN /\ spoiled' \in BOOLEAN
      /\ UNCHANGED <<profile, daemon, online, snapshot, evidence, pc, loc, faults, crashes, asked>>
  <2>1. DOMAIN StableForwardStep = {"NEW", "CREATED", "INSTALLED", "TESTED"}
    BY DEF StableForwardStep
  <2>2. \E step \in Steps \ {"seal"} :
          st' = Recovering(st, step) /\ (st.phase = "CREATE_PENDING" => step = "create")
    <3>1. CASE Reload
      <4>1. st.phase \in DOMAIN PendingStep \ {"SEAL_PENDING"} /\ st.step = PendingStep[st.phase]
        BY <3>1 DEF Reload, Interrupted, TypeOK
      <4>2. st.step \in Steps \ {"seal"} /\ (st.phase = "CREATE_PENDING" => st.step = "create")
        BY <4>1, StepOfShape, Names DEF StepOf
      <4> QED
        BY <3>1, <4>2 DEF Reload
    <3>2. CASE InterruptStable
      <4>1. StableForwardStep[st.phase] \in {"create", "install", "test", "evidence"}
        BY <2>1, <3>2 DEF InterruptStable, StableForwardStep
      <4>2. StableForwardStep[st.phase] \in Steps \ {"seal"}
        BY <4>1, Names
      <4> QED
        BY <2>1, <3>2, <4>2 DEF InterruptStable
    <3> QED
      BY <3>1, <3>2
  <2>3. PICK step \in Steps \ {"seal"} :
          st' = Recovering(st, step) /\ (st.phase = "CREATE_PENDING" => step = "create")
    BY <2>2
  <2>4. /\ st' \in States /\ st'.phase = "RECOVERY_REQUIRED" /\ st'.step = step
        /\ SameRoles(st', st) /\ SameSeal(st', st) /\ st'.tainted = st.tainted
        /\ \E o \in st'.ops : o[2] = "failed"
    BY <2>3, RecoveringShape
  <2>5. AnyFailed(st')
    BY <2>4 DEF AnyFailed
  <2>6. alive' \in BOOLEAN /\ spoiled' \in BOOLEAN
    BY Zenon DEF Reload, InterruptStable, TypeOK, proc, history
  <2> QED
    BY <2>1, <2>3, <2>4, <2>5, <2>6 DEF Reload, InterruptStable, Interrupted, world, proc,
       bounds, history
<1>2. /\ TypeOK /\ st \in States /\ CreateOrder' = CreateOrder /\ CleanupOrder' = CleanupOrder
      /\ Managed' = Managed /\ (UsesIds' <=> UsesIds) /\ (Identified' <=> Identified)
  BY <1>1, Steady DEF TypeOK, States
<1>3. TypeOK'
  <2>1. /\ st' \in States /\ st'.removed \subseteq st'.created
        /\ st'.phase \in DOMAIN PendingStep => st'.step = PendingStep[st'.phase]
        /\ st'.phase = "RECOVERY_REQUIRED" => st'.step \in Steps \ {"seal"}
        /\ (st'.intent # "none") <=> st'.phase \in {"SEAL_PENDING"} \cup Terminal
        /\ st'.intent # "none" => st'.draft
    BY <1>1, <1>2, Names DEF TypeOK, SameRoles, SameSeal, States, Terminal
  <2>2. alive' \in BOOLEAN /\ spoiled' \in BOOLEAN /\ online' \in BOOLEAN
    BY <1>1, <1>2 DEF TypeOK
  <2>3. /\ daemon' \in [Roles -> {"absent", "coming", "present"}] /\ asked' \in [Roles -> Nat]
        /\ faults' \in 0 .. MaxFaults /\ crashes' \in 0 .. MaxCrashes /\ profile' \in Profiles
        /\ snapshot' \in {"absent", "unmarked", "marked", "opened", "tomb"}
        /\ evidence' \in {"none", "passed", "failed_clean"}
    BY <1>1, <1>2 DEF TypeOK
  <2>4. pc' \in PCs /\ loc' \in LocalStates
    BY <1>1, <1>2 DEF TypeOK, PCs, LocalStates, Creating, Cleaning, Deriving
  <2> QED
    BY <2>1, <2>2, <2>3, <2>4 DEF TypeOK, States, LocalStates
<1>4. Located'
  BY <1>1, <1>2 DEF Located, Creating, Installing, Cleaning, Deriving, Destroying, Publishing
<1>5. Asked' /\ Ledger'
  BY <1>1, <1>2 DEF Asked, CreatedOnce, Ledger, RemovedAreGone, SameRoles
<1>6. Held'
  BY <1>1, <1>2, Names DEF Held, SameRoles
<1>7. Derived' /\ Window'
  BY <1>1, <1>2 DEF Derived, Deriving, Window, SameRoles
<1>8. Reported'
  BY <1>1, <1>2 DEF Reported, AnyFailed
<1>9. Sealed'
  BY <1>1, <1>2, Names DEF Sealed, CleanMeansGone, Result, SealPhases, Terminal, SameSeal
<1> QED
  BY <1>3, <1>4, <1>5, <1>6, <1>7, <1>8, <1>9

(* A death leaves what was saved and what the daemon has. *)
LEMMA CrashesIInv ==
    ASSUME IInv, Crash
    PROVE  IInv'
<1> USE DEF IInv
<1>1. /\ pc' = "idle" /\ loc' \in LocalStates /\ ~loc'.bad /\ alive' = FALSE
      /\ daemon' \in [Roles -> {"absent", "coming", "present"}]
      /\ \A r \in Roles : daemon'[r] \in {daemon[r], "absent"}
      /\ crashes' \in 0 .. MaxCrashes /\ spoiled' = (spoiled \/ Interrupted(st))
      /\ UNCHANGED <<profile, st, online, snapshot, evidence, faults, asked>>
  <2>1. crashes' \in 0 .. MaxCrashes
    BY CrashShape DEF Crash
  <2>2. \/ daemon' = daemon
        \/ pc = "remove" /\ daemon' = [daemon EXCEPT ![Role] = "absent"]
    BY DEF Crash
  <2>3. pc = "remove" => Role \in Roles
    <3>1. pc = "remove" => loc.at \in 1 .. 4 /\ loc.at <= Len(CleanupOrder) /\ Len(CleanupOrder) \in 1 .. 3
      BY Orders DEF TypeOK, Located, Cleaning
    <3>2. pc = "remove" => loc.at \in 1 .. Len(CleanupOrder)
      BY <3>1
    <3> QED
      BY <3>2, Orders DEF Role
  <2>4. /\ daemon' \in [Roles -> {"absent", "coming", "present"}]
        /\ \A r \in Roles : daemon'[r] \in {daemon[r], "absent"}
    BY <2>2, <2>3 DEF TypeOK
  <2> QED
    BY <2>1, <2>4, FreshShape DEF Crash, Leave
<1>2. /\ TypeOK /\ st \in States /\ CreateOrder' = CreateOrder /\ CleanupOrder' = CleanupOrder
      /\ Managed' = Managed /\ (UsesIds' <=> UsesIds) /\ (Identified' <=> Identified)
  BY <1>1, Steady DEF TypeOK, States
<1>3. TypeOK'
  <2>1. /\ st' \in States /\ st'.removed \subseteq st'.created
        /\ st'.phase \in DOMAIN PendingStep => st'.step = PendingStep[st'.phase]
        /\ st'.phase = "RECOVERY_REQUIRED" => st'.step \in Steps \ {"seal"}
        /\ (st'.intent # "none") <=> st'.phase \in {"SEAL_PENDING"} \cup Terminal
        /\ st'.intent # "none" => st'.draft
    BY <1>1, <1>2, Names DEF TypeOK, SameRoles, SameSeal, States, Terminal
  <2>2. alive' \in BOOLEAN /\ spoiled' \in BOOLEAN /\ online' \in BOOLEAN
    BY <1>1, Zenon DEF TypeOK, Interrupted
  <2>3. /\ daemon' \in [Roles -> {"absent", "coming", "present"}] /\ asked' \in [Roles -> Nat]
        /\ faults' \in 0 .. MaxFaults /\ crashes' \in 0 .. MaxCrashes /\ profile' \in Profiles
        /\ snapshot' \in {"absent", "unmarked", "marked", "opened", "tomb"}
        /\ evidence' \in {"none", "passed", "failed_clean"}
    BY <1>1, <1>2 DEF TypeOK
  <2>4. pc' \in PCs /\ loc' \in LocalStates
    BY <1>1, <1>2 DEF TypeOK, PCs, LocalStates, Creating, Cleaning, Deriving
  <2> QED
    BY <2>1, <2>2, <2>3, <2>4 DEF TypeOK, States, LocalStates
<1>4. Located'
  BY <1>1, <1>2 DEF Located, Creating, Installing, Cleaning, Deriving, Destroying, Publishing
<1>5. Asked' /\ Ledger'
  <2>1. Asked'
    BY <1>1, <1>2 DEF Asked, CreatedOnce
  <2>2. RemovedAreGone'
    <3>1. \A r \in st.removed : daemon[r] = "absent" /\ r \in Roles
      BY DEF Ledger, RemovedAreGone, TypeOK
    <3> QED
      BY <1>1, <3>1 DEF RemovedAreGone
  <2>3. \A r \in st.ids \cup st.created : daemon'[r] # "coming"
    <3>1. \A r \in st.ids \cup st.created : daemon[r] # "coming" /\ r \in Roles
      BY DEF Ledger, TypeOK
    <3> QED
      BY <1>1, <3>1
  <2> QED
    BY <1>1, <1>2, <2>1, <2>2, <2>3 DEF Ledger
<1>6. Held'
  BY <1>1, <1>2 DEF Held, Located, Creating
<1>7. Derived' /\ Window'
  BY <1>1, <1>2 DEF Derived, Deriving, Window, SameRoles
<1>8. Reported'
  <2>1. AnyFailed(st)' <=> AnyFailed(st)
    BY <1>1 DEF AnyFailed
  <2>2. Interrupted(st)' <=> Interrupted(st)
    BY <1>1 DEF Interrupted
  <2> QED
    BY <1>1, <2>1, <2>2 DEF Reported
<1>9. Sealed'
  BY <1>1, <1>2 DEF Sealed, CleanMeansGone, Result, SealPhases, Terminal, SameSeal
<1> QED
  BY <1>3, <1>4, <1>5, <1>6, <1>7, <1>8, <1>9

(* The daemon carries out late what it was asked for, into a lab that is held. *)
LEMMA DaemonIInv ==
    ASSUME IInv, DaemonPublishes
    PROVE  IInv'
<1> USE DEF IInv
<1>1. /\ \E r \in Roles : /\ daemon[r] = "coming" /\ daemon'[r] \in {"present", "absent"}
                           /\ \A q \in Roles : q # r => daemon'[q] = daemon[q]
      /\ daemon' \in [Roles -> {"absent", "coming", "present"}]
      /\ UNCHANGED <<profile, st, online, snapshot, evidence, pc, loc, alive, faults, crashes, asked, spoiled>>
  <2>1. PICK r \in Roles : /\ daemon[r] = "coming"
                           /\ daemon' \in {[daemon EXCEPT ![r] = "present"], [daemon EXCEPT ![r] = "absent"]}
    BY DEF DaemonPublishes
  <2>2. /\ daemon'[r] \in {"present", "absent"} /\ \A q \in Roles : q # r => daemon'[q] = daemon[q]
        /\ daemon' \in [Roles -> {"absent", "coming", "present"}]
    BY <2>1 DEF TypeOK
  <2> QED
    BY <2>1, <2>2 DEF DaemonPublishes, proc, bounds, history
<1>2. /\ TypeOK /\ st \in States /\ CreateOrder' = CreateOrder /\ CleanupOrder' = CleanupOrder
      /\ Managed' = Managed /\ (UsesIds' <=> UsesIds) /\ (Identified' <=> Identified)
  BY <1>1, Steady DEF TypeOK, States
<1>3. \A r \in Roles : daemon[r] # "coming" => daemon'[r] = daemon[r]
  BY <1>1
<1>4. \A r \in Roles : daemon'[r] = "coming" => daemon[r] = "coming"
  BY <1>1
<1>5. TypeOK'
  <2>1. /\ st' \in States /\ st'.removed \subseteq st'.created
        /\ st'.phase \in DOMAIN PendingStep => st'.step = PendingStep[st'.phase]
        /\ st'.phase = "RECOVERY_REQUIRED" => st'.step \in Steps \ {"seal"}
        /\ (st'.intent # "none") <=> st'.phase \in {"SEAL_PENDING"} \cup Terminal
        /\ st'.intent # "none" => st'.draft
    BY <1>1, <1>2, <1>3, <1>4, Names DEF TypeOK, SameRoles, SameSeal, States, Terminal
  <2>2. alive' \in BOOLEAN /\ spoiled' \in BOOLEAN /\ online' \in BOOLEAN
    BY <1>1, <1>2, <1>3, <1>4 DEF TypeOK
  <2>3. /\ daemon' \in [Roles -> {"absent", "coming", "present"}] /\ asked' \in [Roles -> Nat]
        /\ faults' \in 0 .. MaxFaults /\ crashes' \in 0 .. MaxCrashes /\ profile' \in Profiles
        /\ snapshot' \in {"absent", "unmarked", "marked", "opened", "tomb"}
        /\ evidence' \in {"none", "passed", "failed_clean"}
    BY <1>1, <1>2, <1>3, <1>4 DEF TypeOK
  <2>4. pc' \in PCs /\ loc' \in LocalStates
    BY <1>1, <1>2, <1>3, <1>4 DEF TypeOK, PCs, LocalStates, Creating, Cleaning, Deriving
  <2> QED
    BY <2>1, <2>2, <2>3, <2>4 DEF TypeOK, States, LocalStates
<1>6. Located'
  BY <1>1, <1>2, <1>3, <1>4 DEF Located, Creating, Installing, Cleaning, Deriving, Destroying,
     Publishing
<1>7. Asked' /\ Ledger'
  <2>1. Asked'
    BY <1>1, <1>2, <1>3, <1>4 DEF Asked, CreatedOnce
  <2>2. RemovedAreGone'
    <3>1. \A r \in st.removed : daemon[r] = "absent" /\ r \in Roles
      BY DEF Ledger, RemovedAreGone, TypeOK
    <3> QED
      BY <1>1, <1>3, <3>1 DEF RemovedAreGone
  <2>3. \A r \in st.ids \cup st.created : daemon'[r] # "coming"
    <3>1. \A r \in st.ids \cup st.created : daemon[r] # "coming" /\ r \in Roles
      BY DEF Ledger, TypeOK
    <3> QED
      BY <1>4, <3>1
  <2>4. /\ pc \in {"inspect", "own"} => CreateOrder[loc.at] \in Roles
        /\ pc \in {"claim", "remove", "ledger"} => CleanupOrder[loc.at] \in Roles
    <3>1. /\ Len(CreateOrder) \in 1 .. 3 /\ Len(CleanupOrder) \in 1 .. 3 /\ loc.at \in 1 .. 4
          /\ pc \in {"inspect", "own"} => loc.at <= Len(CreateOrder)
          /\ pc \in {"claim", "remove", "ledger"} => loc.at <= Len(CleanupOrder)
      BY Orders DEF TypeOK, Located, Creating, Cleaning
    <3>2. /\ pc \in {"inspect", "own"} => loc.at \in 1 .. Len(CreateOrder)
          /\ pc \in {"claim", "remove", "ledger"} => loc.at \in 1 .. Len(CleanupOrder)
      BY <3>1
    <3> QED
      BY <3>2, Orders
  <2> QED
    BY <1>1, <1>2, <1>3, <1>4, <2>1, <2>2, <2>3, <2>4 DEF Ledger
<1>8. Held'
  BY <1>1, <1>2, <1>3, <1>4 DEF Held, SameRoles
<1>9. Derived' /\ Window'
  BY <1>1, <1>2, <1>3, <1>4 DEF Derived, Deriving, Window, SameRoles
<1>10. Reported'
  <2>1. AnyFailed(st) => AnyFailed(st)'
    BY <1>1, <1>2, <1>3, <1>4 DEF AnyFailed
  <2>2. Interrupted(st) => Interrupted(st)'
    BY <1>1, <1>2, <1>3, <1>4, Names DEF Interrupted
  <2> QED
    BY <1>1, <1>2, <1>3, <1>4, <2>1, <2>2 DEF Reported
<1>11. Sealed'
  BY <1>1, <1>2, <1>3, <1>4 DEF Sealed, CleanMeansGone, Result, SealPhases, Terminal, SameSeal
<1> QED
  BY <1>5, <1>6, <1>7, <1>8, <1>9, <1>10, <1>11

-----------------------------------------------------------------------------
(* A new lab. *)
LEMMA InitIInv == Init => IInv
<1> SUFFICES ASSUME Init PROVE IInv
  OBVIOUS
<1> DEFINE s == [phase |-> "NEW", step |-> "none", tainted |-> FALSE, ids |-> {},
                 created |-> {}, removed |-> {}, ops |-> {}, draft |-> FALSE,
                 intent |-> "none", base |-> IF UsesIds THEN "unbound" ELSE "none"]
<1>1. st = s
  BY DEF Init
<1>2. s \in States
  BY Names DEF States
<1>3. /\ s.phase = "NEW" /\ s.ids = {} /\ s.created = {} /\ s.removed = {} /\ s.intent = "none"
      /\ s.base = IF UsesIds THEN "unbound" ELSE "none"
  OBVIOUS
<1> HIDE DEF s
<1>4. /\ daemon \in [Roles -> {"absent", "coming", "present"}] /\ asked \in [Roles -> Nat]
      /\ \A r \in Roles : daemon[r] = "absent" /\ asked[r] = 0
  BY DEF Init
<1>5. /\ profile \in Profiles /\ online = FALSE /\ snapshot = "absent" /\ evidence = "none"
      /\ pc = "idle" /\ loc \in LocalStates /\ ~loc.bad /\ alive = TRUE
      /\ faults \in 0 .. MaxFaults /\ crashes \in 0 .. MaxCrashes /\ spoiled = FALSE
  BY FreshShape, LabAssumption DEF Init
<1>6. alive \in BOOLEAN /\ online \in BOOLEAN /\ spoiled \in BOOLEAN
  BY <1>5
<1>7. TypeOK
  BY <1>1, <1>2, <1>3, <1>4, <1>5, <1>6, Names DEF TypeOK, States, LocalStates, PCs, Terminal
<1>8. Located
  BY <1>5 DEF Located, Creating, Installing, Cleaning, Deriving, Destroying, Publishing
<1>9. Asked /\ Ledger /\ Held
  BY <1>1, <1>3, <1>4, <1>5 DEF Asked, CreatedOnce, Ledger, RemovedAreGone, Held
<1>10. Derived /\ Window
  BY <1>1, <1>3, <1>5 DEF Derived, Deriving, Window
<1>11. Reported
  BY <1>5 DEF Reported
<1>12. Sealed
  BY <1>1, <1>3, <1>5 DEF Sealed, CleanMeansGone, SealPhases, Terminal
<1> QED
  BY <1>7, <1>8, <1>9, <1>10, <1>11, <1>12 DEF IInv

(* A submission asks for the role that is due and has one outcome of       *)
(* three.                                                                  *)
LEMMA SubmissionsIInv ==
    ASSUME IInv, pc = "command", Command \/ CreateInterrupted
    PROVE  IInv'
<1>1. \E r, o : /\ o \in {"absent", "coming", "present"} /\ r = CreateOrder[loc.at]
                /\ asked' = [asked EXCEPT ![r] = asked[r] + 1] /\ daemon' = [daemon EXCEPT ![r] = o]
                /\ o = "coming" => UsesIds
                /\ pc' = "inspect" => o = "present"
  <2>1. AnyOutcome \subseteq {"absent", "coming", "present"} /\ ("coming" \in AnyOutcome => UsesIds)
    BY DEF AnyOutcome
  <2>2. \/ Submitted({"present"})
        \/ Submitted(AnyOutcome) /\ pc' # "inspect"
    BY DEF Command, CreateInterrupted, Leave
  <2> QED
    BY <2>1, <2>2 DEF Submitted
<1>2. PICK r, o : /\ o \in {"absent", "coming", "present"} /\ r = CreateOrder[loc.at]
                  /\ asked' = [asked EXCEPT ![r] = asked[r] + 1]
                  /\ daemon' = [daemon EXCEPT ![r] = o]
                  /\ o = "coming" => UsesIds
                  /\ pc' = "inspect" => o = "present"
  BY <1>1
<1> QED
  BY <1>2, SubmitsIInv

(* A step that changes nothing. *)
LEMMA StutterIInv == ASSUME IInv, UNCHANGED vars PROVE IInv'
BY DEF IInv, vars, world, proc, bounds, history, TypeOK, Located, Asked, CreatedOnce, Ledger,
   RemovedAreGone, Held, Derived, Window, Reported, AnyFailed, Interrupted, Sealed,
   CleanMeansGone, Result, CreateOrder, CleanupOrder, Managed, UsesIds, Identified

(* Every step, one case per action of Next. *)
LEMMA StepIInv == IInv /\ [Next]_vars => IInv'
<1> SUFFICES ASSUME IInv, [Next]_vars PROVE IInv'
  OBVIOUS
<1>1. CASE CaptureSnapshot \/ BindSnapshot
  BY <1>1, SnapshotsIInv
<1>2. CASE \/ BeginCreate \/ BeginInstall \/ BeginTest \/ BeginEvidence \/ BeginLogout
           \/ BeginDestroy \/ BeginVerify
  BY <1>2, BeginsIInv
<1>3. CASE Command \/ CreateInterrupted
  <2>1. Command => pc = "command"
    BY DEF Command
  <2> QED
    BY <1>3, <2>1, SubmissionsIInv, CreateRestsIInv
<1>4. CASE CheckFails \/ Inspect \/ Start
  <2>1. Inspect => pc' = "own" \/ (Fault /\ pc' = "failing" /\ UNCHANGED st)
    BY DEF Inspect, Goto
  <2>2. Start => (Start /\ NoFault) \/ (Fault /\ pc' = "failing" /\ UNCHANGED st)
    BY DEF Start, Goto
  <2> QED
    BY <1>4, <2>1, <2>2, CreateRestsIInv, InspectsIInv, FinishesIInv
<1>5. CASE RecordOwned
  BY <1>5, OwnsIInv
<1>6. CASE CreateFails
  BY <1>6, CreateRestsIInv, FailsIInv
<1>7. CASE Connect \/ Guest \/ Disconnect
  BY <1>7, WindowsIInv
<1>8. CASE Settle
  BY <1>8, FailsIInv, FinishesIInv
<1>9. CASE Test
  <2>1. (Test /\ NoFault) \/ (Test /\ Fault /\ Fail("test"))
    BY <1>9 DEF Test
  <2>2. Fail("test") => st'.phase = "RECOVERY_REQUIRED"
    BY RecoveringShape, Names DEF Fail, IInv
  <2> QED
    BY <2>1, <2>2, FailsIInv, FinishesIInv
<1>10. CASE CaptureEvidence
  <2>1. st'.phase # "RECOVERY_REQUIRED" \/ Fault
    <3> DEFINE s == Observed(Moved(st, "EVIDENCE_CAPTURED"), "evidence", "succeeded")
    <3>1. "evidence" \in Steps /\ "EVIDENCE_CAPTURED" \in Phases
      BY Names
    <3>2. s \in States /\ s.phase = "EVIDENCE_CAPTURED"
      BY <3>1, FinishShape DEF IInv
    <3>3. st' = [s EXCEPT !.draft = TRUE] \/ Fault
      BY <1>10 DEF CaptureEvidence
    <3> HIDE DEF s
    <3>4. [s EXCEPT !.draft = TRUE].phase = "EVIDENCE_CAPTURED"
      BY <3>2 DEF States
    <3> QED
      BY <3>3, <3>4
  <2> QED
    BY <1>10, <2>1, FailsIInv, CapturesIInv
<1>11. CASE PersistHold \/ MarkShellTainted
  BY <1>11, TaintsIInv
<1>12. CASE Logout \/ Destroyed
  BY <1>12, FinishesIInv
<1>13. CASE RoleAbsent \/ RoleUnknown \/ RecordRemoved
  BY <1>13, PassesIInv
<1>14. CASE ClaimId \/ ClaimRole
  BY <1>14, ClaimsIInv
<1>15. CASE Remove
  BY <1>15, RemovesIInv
<1>16. CASE Snapshot \/ Unlink \/ RemoveDirectory \/ RecordSnapshotRemoved \/ Finalize
  BY <1>16, DerivesIInv
<1>17. CASE Verify
  BY <1>17, VerifiesIInv
<1>18. CASE BeginSeal \/ ResumeSeal
  BY <1>18, SealsIInv
<1>19. CASE Publish \/ CommitSeal
  BY <1>19, PublishesIInv, CommitsIInv
<1>20. CASE Reload \/ InterruptStable
  BY <1>20, RecoversIInv
<1>21. CASE Crash \/ DaemonPublishes
  BY <1>21, CrashesIInv, DaemonIInv
<1>22. CASE UNCHANGED vars
  BY <1>22, StutterIInv
<1> QED
  BY <1>1, <1>2, <1>3, <1>4, <1>5, <1>6, <1>7, <1>8, <1>9, <1>10, <1>11, <1>12, <1>13, <1>14,
     <1>15, <1>16, <1>17, <1>18, <1>19, <1>20, <1>21, <1>22 DEF Next, Forward, Cleanup, Sealing

(* The inductive invariant of the lifecycle.                               *)
THEOREM Invariance == Spec => []IInv
<1> QED
  BY InitIInv, StepIInv, PTL DEF Spec

(* The state file only ever holds what the validator of the code accepts,  *)
(* and every other variable keeps its type.                                *)
THEOREM TypeCorrect == Spec => []TypeOK
<1>1. IInv => TypeOK
  BY DEF IInv
<1> QED
  BY <1>1, Invariance, PTL

(* A lab that is verified clean has left nothing behind, however often     *)
(* commands failed and processes died on the way (verify_clean of          *)
(* lifecycle.py).                                                          *)
THEOREM Clean == Spec => []CleanMeansGone
<1>1. IInv => CleanMeansGone
  BY DEF IInv, Sealed
<1> QED
  BY <1>1, Invariance, PTL

(* What the ledger calls removed is gone (destroy of lifecycle.py).        *)
THEOREM Removed == Spec => []RemovedAreGone
<1>1. IInv => RemovedAreGone
  BY DEF IInv, Ledger
<1> QED
  BY <1>1, Invariance, PTL

(* The published manifest is the decided one, and a passed one belongs to  *)
(* a lab in which nothing failed or was cut short (seal of lifecycle.py).  *)
THEOREM Evidence == Spec => []EvidenceHonest
<1>1. IInv => EvidenceHonest
  <2> SUFFICES ASSUME IInv, evidence # "none"
               PROVE  /\ evidence = st.intent
                      /\ evidence = "passed" => ~spoiled /\ st.phase # "FAILED_CLEAN"
    BY DEF EvidenceHonest
  <2>1. st.phase \in SealPhases /\ evidence = st.intent /\ st.intent = Result(st)
    BY DEF IInv, Sealed
  <2>2. Result(st) = "passed" => ~AnyFailed(st)
    BY DEF Result, AnyFailed
  <2>3. ~Interrupted(st) /\ st.phase # "NEW"
    BY <2>1, Names DEF SealPhases, Terminal, Interrupted
  <2>4. AnyFailed(st) \/ ~spoiled
    BY <2>3 DEF IInv, Reported
  <2>5. st.phase = "FAILED_CLEAN" => st.intent = "failed_clean"
    BY DEF IInv, Sealed
  <2>6. evidence = "passed" => ~spoiled
    BY <2>1, <2>2, <2>4
  <2> QED
    BY <2>1, <2>5, <2>6
<1> QED
  BY <1>1, Invariance, PTL

(* No role is created twice (create and recovery of lifecycle.py).         *)
THEOREM Once == Spec => []CreatedOnce
<1>1. IInv => CreatedOnce
  BY DEF IInv, Asked
<1> QED
  BY <1>1, Invariance, PTL

(* A provider's probe runs offline (the install window of                  *)
(* provider_lifecycle.py).                                                 *)
THEOREM Offline == Spec => []ProbesOffline
<1>1. IInv => ProbesOffline
  BY DEF IInv, Located, Window, ProbesOffline
<1> QED
  BY <1>1, Invariance, PTL

-----------------------------------------------------------------------------
(* The lifecycle does what CleanRun promises. *)

(* What the daemon and the directory have does not grow. *)
Shrinks ==
    /\ \A r \in Roles : daemon[r] = "absent" => daemon'[r] = "absent"
    /\ snapshot = "absent" => snapshot' = "absent"

(* Before the lab is clean there is no verdict, and nothing is published. *)
LEMMA Unclean ==
    ASSUME IInv, st.phase \notin CleanPhases
    PROVE  st.intent = "none" /\ evidence = "none" /\ st.phase \notin Terminal
BY DEF IInv, TypeOK, Sealed, SealPhases, CleanPhases

(* Work that asks for nothing and makes nothing. *)
LEMMA WorkRefines ==
    ASSUME IInv, IInv', st.phase \notin CleanPhases, st'.phase \notin CleanPhases,
           UNCHANGED asked, Shrinks, spoiled' = spoiled \/ spoiled' = TRUE
    PROVE  Abstract!Work
<1>1. /\ st.intent = "none" /\ evidence = "none" /\ st.phase \notin Terminal
      /\ st'.intent = "none" /\ evidence' = "none" /\ st'.phase \notin Terminal
  <2>1. st'.intent = "none" /\ evidence' = "none" /\ st'.phase \notin Terminal
    BY DEF IInv, TypeOK, Sealed, SealPhases, CleanPhases, Terminal
  <2> QED
    BY <2>1, Unclean
<1>2. Existing' \in SUBSET Existing
  BY DEF Shrinks, Existing
<1>3. spoiled' \in {spoiled, TRUE}
  BY Zenon
<1>4. Abstract!Unsettled
  BY <1>1 DEF Abstract!Unsettled
<1> QED
  BY <1>2, <1>3, <1>4 DEF Abstract!Work

(* A save that changes no phase. *)
LEMMA SamePhase ==
    ASSUME NEW s \in States, NEW ids, NEW created, NEW removed, NEW base
    PROVE  /\ [s EXCEPT !.ids = ids].phase = s.phase
           /\ [s EXCEPT !.created = created].phase = s.phase
           /\ [s EXCEPT !.removed = removed].phase = s.phase
           /\ [s EXCEPT !.base = base].phase = s.phase
           /\ [s EXCEPT !.tainted = TRUE].phase = s.phase
BY DEF States

(* Where the process is tells that the lab is not called clean. *)
Busy == Creating \cup Installing \cup Destroying \cup {"test", "evidence", "logout", "verify"}
LEMMA BusyUnclean ==
    ASSUME Located, pc \in Busy
    PROVE  st.phase \notin CleanPhases
BY DEF Located, Busy, CleanPhases, Terminal

(* Steps from one phase that is not clean to another. *)
LEMMA BeginsRefine ==
    ASSUME IInv, IInv', BeginCreate \/ BeginInstall \/ BeginTest \/ BeginEvidence \/ BeginLogout
           \/ BeginDestroy \/ BeginVerify
    PROVE  Abstract!Work
<1>1. /\ pc' \in Busy
      /\ UNCHANGED <<daemon, snapshot, asked, spoiled>>
  BY DEF BeginCreate, BeginInstall, BeginTest, BeginEvidence, BeginLogout, BeginDestroy,
     BeginVerify, Begin, Enter, world, history, Busy, Creating, Installing, Destroying, Cleaning
<1>2. st'.phase \notin CleanPhases
  BY <1>1 DEF IInv, Located, Busy, CleanPhases, Terminal
<1>3. st.phase \notin CleanPhases
  BY DEF BeginCreate, BeginInstall, BeginTest, BeginEvidence, BeginLogout, BeginDestroy,
     BeginVerify, CleanPhases, Terminal
<1> QED
  BY <1>1, <1>2, <1>3, WorkRefines DEF Shrinks

(* What a busy process does, when it goes on with what it does. *)
LEMMA ContinuesRefine ==
    ASSUME IInv, IInv', pc \in Busy, pc' \in Busy, UNCHANGED asked, Shrinks,
           spoiled' = spoiled \/ spoiled' = TRUE
    PROVE  Abstract!Work
<1>1. st.phase \notin CleanPhases
  BY BusyUnclean DEF IInv
<1>2. st'.phase \notin CleanPhases
  BY DEF IInv, Located, Busy, CleanPhases, Terminal
<1> QED
  BY <1>1, <1>2, WorkRefines

(* What it does when the operation is over, and the lab is not clean. *)
LEMMA OverRefines ==
    ASSUME IInv, IInv', pc \in Busy, st'.phase \notin CleanPhases, UNCHANGED asked, Shrinks,
           spoiled' = spoiled \/ spoiled' = TRUE
    PROVE  Abstract!Work
BY BusyUnclean, WorkRefines DEF IInv

(* A record of an operation that is over. *)
LEMMA SavedPhase ==
    ASSUME TypeOK, NEW step \in Steps
    PROVE  /\ \A outcome \in {"succeeded", "failed", "skipped"}, phase \in Phases :
                Finish(step, outcome, phase) => st'.phase = phase
           /\ Fail(step) => st'.phase = "RECOVERY_REQUIRED"
<1>1. \A outcome \in {"succeeded", "failed", "skipped"}, phase \in Phases :
                Finish(step, outcome, phase) => st'.phase = phase
  BY FinishShape DEF Finish
<1>2. Fail(step) => st'.phase = "RECOVERY_REQUIRED"
  BY RecoveringShape DEF Fail
<1> QED
  BY <1>1, <1>2

(* Creation, after what was asked for. *)
LEMMA CreatesRefine ==
    ASSUME IInv, IInv', \/ CheckFails \/ Inspect \/ RecordOwned \/ Start \/ CreateFails
    PROVE  Abstract!Work
<1>1. /\ pc \in Busy /\ UNCHANGED asked /\ UNCHANGED daemon /\ UNCHANGED snapshot
  BY DEF CheckFails, Inspect, RecordOwned, Start, CreateFails, world, history, Busy, Creating
<1>2. spoiled' = spoiled \/ spoiled' = TRUE
  BY DEF CheckFails, Inspect, RecordOwned, Start, CreateFails, history, Fault, NoFault
<1>3. Shrinks
  BY <1>1 DEF Shrinks
<1>4. CASE pc' \in Busy
  BY <1>1, <1>2, <1>3, <1>4, ContinuesRefine
<1>5. CASE pc' \notin Busy
  <2>1. Finish("create", "succeeded", "CREATED") \/ Fail("create")
    BY <1>5 DEF CheckFails, Inspect, RecordOwned, Start, CreateFails, Goto, Busy, Creating
  <2>2. st'.phase \in {"CREATED", "RECOVERY_REQUIRED"}
    BY <2>1, SavedPhase, Names DEF IInv
  <2> QED
    BY <1>1, <1>2, <1>3, <2>2, OverRefines DEF CleanPhases, Terminal
<1> QED
  BY <1>4, <1>5

(* Installing, testing, evidence and logout. *)
LEMMA RunsRefine ==
    ASSUME IInv, IInv', \/ Connect \/ Guest \/ Disconnect \/ Settle \/ Test \/ CaptureEvidence \/ Logout
    PROVE  Abstract!Work
<1>1. /\ pc \in Busy /\ UNCHANGED asked /\ UNCHANGED daemon /\ UNCHANGED snapshot
  BY DEF Connect, Guest, Disconnect, Settle, Test, CaptureEvidence, Logout, world, history, Busy,
     Installing
<1>2. spoiled' = spoiled \/ spoiled' = TRUE
  BY DEF Connect, Guest, Disconnect, Settle, Test, CaptureEvidence, Logout, history, Fault,
     NoFault
<1>3. Shrinks
  BY <1>1 DEF Shrinks
<1>4. CASE pc' \in Busy
  BY <1>1, <1>2, <1>3, <1>4, ContinuesRefine
<1>5. CASE CaptureEvidence /\ ~Fail("evidence")
  <2> DEFINE s == Observed(Moved(st, "EVIDENCE_CAPTURED"), "evidence", "succeeded")
  <2>1. "evidence" \in Steps /\ "EVIDENCE_CAPTURED" \in Phases
    BY Names
  <2>2. s \in States /\ s.phase = "EVIDENCE_CAPTURED"
    BY <2>1, FinishShape DEF IInv
  <2>3. st' = [s EXCEPT !.draft = TRUE]
    BY <1>5 DEF CaptureEvidence
  <2> HIDE DEF s
  <2>4. st'.phase = "EVIDENCE_CAPTURED"
    BY <2>2, <2>3 DEF States
  <2> QED
    BY <1>1, <1>2, <1>3, <2>4, OverRefines DEF CleanPhases, Terminal
<1>6. CASE pc' \notin Busy /\ (CaptureEvidence => Fail("evidence"))
  <2>1. \/ Finish("install", "succeeded", "INSTALLED") \/ Fail("install")
        \/ Finish("test", "succeeded", "TESTED") \/ Fail("test") \/ Fail("evidence")
        \/ \E outcome \in {"succeeded", "skipped"} : Finish("logout", outcome, "LOGOUT_DONE")
        \/ Finish("logout", "failed", "LOGOUT_FAILED")
    BY <1>6 DEF Connect, Guest, Disconnect, Settle, Test, CaptureEvidence, Logout, Goto, Busy,
       Installing
  <2>2. st'.phase \in {"INSTALLED", "TESTED", "LOGOUT_DONE", "LOGOUT_FAILED", "RECOVERY_REQUIRED"}
    BY <2>1, SavedPhase, Names DEF IInv
  <2> QED
    BY <1>1, <1>2, <1>3, <2>2, OverRefines DEF CleanPhases, Terminal
<1> QED
  BY <1>4, <1>5, <1>6

(* Destroying. *)
LEMMA DestroysRefine ==
    ASSUME IInv, IInv', \/ RoleAbsent \/ RoleUnknown \/ ClaimId \/ ClaimRole \/ Remove
                        \/ RecordRemoved \/ Destroyed
    PROVE  Abstract!Work
<1>1. pc \in Busy /\ UNCHANGED asked /\ UNCHANGED snapshot
  BY DEF RoleAbsent, RoleUnknown, ClaimId, ClaimRole, Remove, RecordRemoved, Destroyed, world,
     history, Busy, Destroying, Cleaning
<1>2. spoiled' = spoiled \/ spoiled' = TRUE
  BY DEF RoleAbsent, RoleUnknown, ClaimId, ClaimRole, Remove, RecordRemoved, Destroyed,
     history, Fault, NoFault
<1>3. daemon' = daemon \/ daemon' = [daemon EXCEPT ![Role] = "absent"]
  BY DEF RoleAbsent, RoleUnknown, ClaimId, ClaimRole, Remove, RecordRemoved, Destroyed, world
<1>4. Shrinks
  BY <1>1, <1>3 DEF Shrinks, IInv, TypeOK
<1>5. CASE pc' \in Busy
  BY <1>1, <1>2, <1>4, <1>5, ContinuesRefine
<1>6. CASE pc' \notin Busy
  <2>1. Finish("destroy", "failed", "DESTROY_FAILED") \/ Finish("destroy", "succeeded", "DESTROY_DONE")
    BY <1>6 DEF RoleAbsent, RoleUnknown, ClaimId, ClaimRole, Remove, RecordRemoved, Destroyed,
       Goto, AfterRole, Busy, Destroying, Cleaning, Deriving
  <2>2. st'.phase \in {"DESTROY_FAILED", "DESTROY_DONE"}
    BY <2>1, SavedPhase, Names DEF IInv
  <2> QED
    BY <1>1, <1>2, <1>4, <2>2, OverRefines DEF CleanPhases, Terminal
<1> QED
  BY <1>5, <1>6

(* What a process that goes on relies on: the directory it removes is      *)
(* there, and the lab it closes has published.                             *)
Reached ==
    /\ pc = "rmdir" => snapshot # "absent"
    /\ pc = "commit" => evidence # "none"

LEMMA InitReached == Init => Reached
BY DEF Init, Reached

LEMMA NextReached == Reached /\ [Next]_vars => Reached'
<1> SUFFICES ASSUME Reached, [Next]_vars PROVE Reached'
  OBVIOUS
<1>1. CASE UNCHANGED <<pc, snapshot, evidence>>
  BY <1>1 DEF Reached
<1>2. CASE Unlink
  BY <1>2 DEF Unlink, Reached, RefuseSnapshot, Goto, Present
<1>3. CASE Publish
  <2>1. Result(st) # "none"
    BY DEF Result
  <2> QED
    BY <1>3, <2>1 DEF Publish, Reached, Goto, Leave
<1>4. CASE pc' \notin {"rmdir", "commit"}
  BY <1>4 DEF Reached
<1>5. CASE Forward
  <2>1. pc' \notin {"rmdir", "commit"} \/ UNCHANGED <<pc, snapshot, evidence>>
    <3>1. CASE CaptureSnapshot \/ BindSnapshot
      BY <3>1 DEF CaptureSnapshot, BindSnapshot, proc
    <3>2. CASE BeginCreate \/ BeginInstall \/ BeginTest \/ BeginEvidence
      BY <3>2 DEF BeginCreate, BeginInstall, BeginTest, BeginEvidence, Begin, Enter
    <3>3. CASE Command \/ CheckFails \/ Inspect \/ RecordOwned \/ Start \/ CreateFails
      BY <3>3 DEF Command, CheckFails, Inspect, RecordOwned, Start, CreateFails, Goto, Leave,
         Finish, Fail
    <3>4. CASE Connect \/ Guest \/ Disconnect \/ Settle \/ Test \/ CaptureEvidence
      BY <3>4 DEF Connect, Guest, Disconnect, Settle, Test, CaptureEvidence, Goto, Leave,
         Finish, Fail
    <3> QED
      BY <1>5, <3>1, <3>2, <3>3, <3>4 DEF Forward
  <2> QED
    BY <1>1, <1>4, <2>1
<1>6. CASE Cleanup /\ ~Unlink
  <2>1. pc' \notin {"rmdir", "commit"} \/ UNCHANGED <<pc, snapshot, evidence>>
    <3>1. CASE PersistHold
      BY <3>1 DEF PersistHold, world, proc
    <3>2. CASE BeginLogout \/ BeginDestroy \/ BeginVerify
      BY <3>2 DEF BeginLogout, BeginDestroy, BeginVerify, Begin, Enter
    <3>3. CASE Logout \/ Verify \/ Destroyed
      BY <3>3 DEF Logout, Verify, Destroyed, Leave, Finish
    <3>4. CASE RoleAbsent \/ RoleUnknown \/ ClaimId \/ ClaimRole \/ Remove \/ RecordRemoved
      BY <3>4 DEF RoleAbsent, RoleUnknown, ClaimId, ClaimRole, Remove, RecordRemoved,
         AfterRole, Goto
    <3>5. CASE Snapshot \/ RemoveDirectory \/ RecordSnapshotRemoved \/ Finalize
      BY <3>5 DEF Snapshot, RemoveDirectory, RecordSnapshotRemoved, Finalize, RefuseSnapshot, Goto
    <3> QED
      BY <1>6, <3>1, <3>2, <3>3, <3>4, <3>5 DEF Cleanup
  <2> QED
    BY <1>1, <1>4, <2>1
<1>7. CASE BeginSeal \/ ResumeSeal \/ CommitSeal
  BY <1>4, <1>7 DEF BeginSeal, ResumeSeal, CommitSeal, Enter, Finish, Leave
<1>8. CASE \/ Reload \/ InterruptStable \/ CreateInterrupted \/ MarkShellTainted \/ Crash
           \/ DaemonPublishes \/ UNCHANGED vars
  BY <1>1, <1>4, <1>8 DEF Reload, InterruptStable, CreateInterrupted, MarkShellTainted, Crash,
     DaemonPublishes, Leave, world, proc, vars
<1> QED
  BY <1>2, <1>3, <1>5, <1>6, <1>7, <1>8 DEF Next, Sealing

(* Removing the derived snapshot. *)
LEMMA RemovalsRefine ==
    ASSUME IInv, Reached, IInv', Snapshot \/ Unlink \/ RemoveDirectory \/ RecordSnapshotRemoved \/ Finalize
    PROVE  Abstract!Work
<1>1. pc \in Busy /\ UNCHANGED asked /\ UNCHANGED daemon
  BY DEF Snapshot, Unlink, RemoveDirectory, RecordSnapshotRemoved, Finalize, world, history, Busy,
     Destroying, Deriving
<1>2. spoiled' = spoiled \/ spoiled' = TRUE
  BY DEF Snapshot, Unlink, RemoveDirectory, RecordSnapshotRemoved, Finalize, history, Fault,
     NoFault
<1>3. snapshot = "absent" => snapshot' = "absent"
  <2>1. CASE Snapshot \/ RecordSnapshotRemoved \/ Finalize
    BY <2>1 DEF Snapshot, RecordSnapshotRemoved, Finalize, world
  <2>2. CASE Unlink
    BY <2>2 DEF Unlink, Present
  <2>3. CASE RemoveDirectory
    <3>1. snapshot # "absent"
      BY <2>3 DEF RemoveDirectory, Reached
    <3> QED
      BY <3>1
  <2> QED
    BY <2>1, <2>2, <2>3
<1>4. Shrinks
  BY <1>1, <1>3 DEF Shrinks
<1>5. pc' \in Busy
  BY DEF Snapshot, Unlink, RemoveDirectory, RecordSnapshotRemoved, Finalize, RefuseSnapshot,
     Goto, Busy, Destroying, Deriving
<1> QED
  BY <1>1, <1>2, <1>4, <1>5, ContinuesRefine

(* Recovery and taints, and what crashes leave behind before the lab is    *)
(* clean.                                                                  *)
LEMMA RecoveriesRefine ==
    ASSUME IInv, IInv', Reload \/ InterruptStable \/ PersistHold \/ BindSnapshot
    PROVE  Abstract!Work
<1>1. UNCHANGED <<daemon, snapshot, asked>>
  BY DEF Reload, InterruptStable, PersistHold, BindSnapshot, world, history
<1>2. spoiled' = spoiled \/ spoiled' = TRUE
  BY DEF Reload, InterruptStable, PersistHold, BindSnapshot, history
<1>3. st \in States
  BY DEF IInv, TypeOK, States
<1>4. st.phase \notin CleanPhases
  <2>1. CASE Reload
    BY <2>1, Names DEF Reload, Interrupted, CleanPhases, Terminal
  <2>2. CASE InterruptStable
    BY <2>2 DEF InterruptStable, StableForwardStep, CleanPhases, Terminal
  <2>3. CASE PersistHold \/ BindSnapshot
    BY <2>3 DEF PersistHold, BindSnapshot, CleanPhases, Terminal
  <2> QED
    BY <2>1, <2>2, <2>3
<1>5. st'.phase \notin CleanPhases
  <2>1. CASE Reload
    <3>1. st.step \in Steps
      BY <2>1, Names DEF Reload, Interrupted, IInv, TypeOK, PendingStep
    <3> QED
      BY <2>1, <3>1, RecoveringShape DEF Reload, IInv, CleanPhases, Terminal
  <2>2. CASE InterruptStable
    <3>1. StableForwardStep[st.phase] \in Steps
      BY <2>2, Names DEF InterruptStable, StableForwardStep
    <3> QED
      BY <2>2, <3>1, RecoveringShape DEF InterruptStable, IInv, CleanPhases, Terminal
  <2>3. CASE PersistHold
    BY <1>3, <1>4, <2>3, SamePhase DEF PersistHold
  <2>4. CASE BindSnapshot
    BY <1>3, <1>4, <2>4, SamePhase DEF BindSnapshot
  <2> QED
    BY <2>1, <2>2, <2>3, <2>4
<1> QED
  BY <1>1, <1>2, <1>4, <1>5, WorkRefines DEF Shrinks

(* A step that leaves all of it as it is. *)
LEMMA UnseenRefines ==
    ASSUME UNCHANGED <<asked, daemon, snapshot, evidence, spoiled>>, st'.phase = st.phase,
           st'.intent = st.intent
    PROVE  UNCHANGED Abstract!run
<1>1. Existing' = Existing
  BY DEF Existing
<1> QED
  BY <1>1 DEF Abstract!run

(* The commands that reach a lab in every phase, and the daemon. *)
LEMMA OutsideRefines ==
    ASSUME IInv, IInv', MarkShellTainted \/ Crash \/ DaemonPublishes \/ ResumeSeal
    PROVE  Abstract!Work \/ UNCHANGED Abstract!run
<1>1. st \in States
  BY DEF IInv, TypeOK, States
<1>2. UNCHANGED <<asked, snapshot, evidence>> /\ st'.phase = st.phase /\ st'.intent = st.intent
  <2>1. CASE MarkShellTainted
    BY <1>1, <2>1 DEF MarkShellTainted, world, history, States
  <2>2. CASE Crash \/ DaemonPublishes \/ ResumeSeal
    BY <2>2 DEF Crash, DaemonPublishes, ResumeSeal, world, history
  <2> QED
    BY <2>1, <2>2
<1>3. spoiled' = spoiled \/ spoiled' = TRUE
  BY DEF MarkShellTainted, Crash, DaemonPublishes, ResumeSeal, history, IInv, TypeOK
<1>4. Shrinks
  BY <1>2 DEF MarkShellTainted, Crash, DaemonPublishes, ResumeSeal, world, Shrinks, IInv, TypeOK
<1>5. CASE st.phase \notin CleanPhases
  BY <1>2, <1>3, <1>4, <1>5, WorkRefines
<1>6. CASE st.phase \in CleanPhases
  <2>1. \A r \in Roles : daemon[r] = "absent" /\ daemon'[r] = "absent"
    BY <1>2, <1>6 DEF IInv, Sealed, CleanMeansGone, CleanPhases
  <2>2. ~Interrupted(st)
    BY <1>6, Names DEF Interrupted, CleanPhases, Terminal
  <2>3. UNCHANGED spoiled
    BY <2>2 DEF MarkShellTainted, Crash, DaemonPublishes, ResumeSeal, history, IInv, TypeOK
  <2>4. Existing' = Existing
    BY <1>2, <2>1 DEF Existing
  <2> QED
    BY <1>2, <2>3, <2>4 DEF Abstract!run
<1> QED
  BY <1>5, <1>6

(* The daemon is asked for a role it was not asked for before.             *)
LEMMA AsksRefine ==
    ASSUME IInv, IInv', Command \/ CreateInterrupted
    PROVE  Abstract!Next
<1>1. st.phase = "CREATE_PENDING"
  BY DEF Command, CreateInterrupted, IInv, Located, Creating
<1>2. st'.phase = st.phase
  BY SamePhase DEF Command, CreateInterrupted, IInv, TypeOK, States
<1>3. spoiled' = spoiled \/ spoiled' = TRUE
  BY DEF Command, CreateInterrupted, Fault, NoFault
<1>4. st.phase \notin CleanPhases /\ st'.phase \notin CleanPhases
  BY <1>1, <1>2 DEF CleanPhases, Terminal
<1>5. CASE pc # "command"
  <2>1. UNCHANGED <<asked, daemon, snapshot>>
    BY <1>5 DEF Command, CreateInterrupted
  <2>2. Abstract!Work
    BY <1>3, <1>4, <2>1, WorkRefines DEF Shrinks
  <2> QED
    BY <2>2 DEF Abstract!Next
<1>6. CASE pc = "command"
  <2>1. loc.at \in 1 .. Len(CreateOrder)
    <3>1. loc.at \in 1 .. 4 /\ loc.at <= Len(CreateOrder)
      BY <1>6 DEF IInv, TypeOK, Located, Creating
    <3> QED
      BY <3>1, Orders
  <2>2. PICK x \in Roles : x = CreateOrder[loc.at] /\ asked[x] = 0
    BY <1>6, <2>1, Orders DEF IInv, Asked
  <2>3. daemon[x] = "absent"
    BY <2>2 DEF IInv, Asked
  <2>4. PICK o : daemon' = [daemon EXCEPT ![x] = o] /\ asked' = [asked EXCEPT ![x] = asked[x] + 1]
    BY <1>6, <2>2 DEF Command, CreateInterrupted, Submitted
  <2>5. UNCHANGED snapshot
    BY DEF Command, CreateInterrupted
  <2>6. /\ asked \in [Roles -> Nat] /\ daemon \in [Roles -> {"absent", "coming", "present"}]
    BY DEF IInv, TypeOK
  <2>7. {r \in Roles : asked'[r] # 0} = {r \in Roles : asked[r] # 0} \cup {x}
    BY <2>2, <2>4, <2>6
  <2>8. Existing' = Existing \/ Existing' = Existing \cup {x}
    <3>1. CASE o = "absent"
      <4>1. daemon' = daemon
        BY <2>3, <2>4, <2>6, <3>1
      <4> QED
        BY <2>5, <4>1 DEF Existing
    <3>2. CASE o # "absent"
      <4>1. {r \in Roles : daemon'[r] # "absent"} = {r \in Roles : daemon[r] # "absent"} \cup {x}
        BY <2>2, <2>4, <2>6, <3>2
      <4> QED
        BY <2>5, <4>1 DEF Existing
    <3> QED
      BY <3>1, <3>2
  <2>9. /\ st.intent = "none" /\ evidence = "none" /\ st.phase \notin Terminal
        /\ st'.intent = "none" /\ evidence' = "none" /\ st'.phase \notin Terminal
    <3>1. st'.intent = "none" /\ evidence' = "none" /\ st'.phase \notin Terminal
      BY <1>4 DEF IInv, TypeOK, Sealed, SealPhases, CleanPhases, Terminal
    <3> QED
      BY <1>4, <3>1, Unclean
  <2>10. spoiled' \in {spoiled, TRUE}
    BY <1>3, Zenon
  <2>11. Abstract!Unsettled
    BY <1>4, <2>9 DEF Abstract!Unsettled
  <2>12. x \notin {r \in Roles : asked[r] # 0}
    BY <2>2
  <2>13. Abstract!Ask(x)
    BY <2>7, <2>8, <2>10, <2>11, <2>12 DEF Abstract!Ask
  <2> QED
    BY <2>2, <2>13 DEF Abstract!Next
<1> QED
  BY <1>5, <1>6

(* The derived snapshot is the lab's own. *)
LEMMA CapturesRefine ==
    ASSUME IInv, IInv', CaptureSnapshot
    PROVE  Abstract!Next
<1>1. st.phase = "NEW" /\ UNCHANGED <<st, daemon, asked, evidence>>
  BY DEF CaptureSnapshot
<1>2. st.phase \notin CleanPhases /\ st'.phase \notin CleanPhases
  BY <1>1 DEF CleanPhases, Terminal
<1>3. spoiled' = spoiled \/ spoiled' = TRUE
  BY DEF CaptureSnapshot, Fault
<1>4. CASE snapshot = "absent" /\ snapshot' # "absent"
  <2>1. UNCHANGED spoiled
    BY <1>4 DEF CaptureSnapshot
  <2>2. Existing' = Existing \cup {"snapshot"}
    BY <1>1, <1>4 DEF Existing
  <2>3. Abstract!Unsettled
    BY <1>1, <1>2 DEF Abstract!Unsettled
  <2>4. Abstract!Derive
    BY <1>1, <2>1, <2>2, <2>3 DEF Abstract!Derive
  <2> QED
    BY <2>4 DEF Abstract!Next
<1>5. CASE ~(snapshot = "absent" /\ snapshot' # "absent")
  <2>1. Abstract!Work
    BY <1>1, <1>2, <1>3, <1>5, WorkRefines DEF Shrinks
  <2> QED
    BY <2>1 DEF Abstract!Next
<1> QED
  BY <1>4, <1>5

(* A lab that is found clean has nothing left. *)
LEMMA VerifiesRefine ==
    ASSUME IInv, IInv', Verify
    PROVE  Abstract!Next
<1>1. pc \in Busy /\ UNCHANGED <<asked, daemon, snapshot, evidence>>
  BY DEF Verify, world, Busy
<1>2. spoiled' = spoiled \/ spoiled' = TRUE
  BY DEF Verify, Fault, NoFault
<1>3. CASE st'.phase \notin CleanPhases
  <2>1. Abstract!Work
    BY <1>1, <1>2, <1>3, OverRefines DEF Shrinks
  <2> QED
    BY <2>1 DEF Abstract!Next
<1>4. CASE st'.phase \in CleanPhases
  <2>1. "verify_clean" \in Steps /\ "CLEAN_VERIFIED" \in Phases /\ "DIRTY" \in Phases
    BY Names
  <2>2. UNCHANGED spoiled /\ Finish("verify_clean", "succeeded", "CLEAN_VERIFIED")
    BY <1>4, <2>1, SavedPhase DEF Verify, NoFault, IInv, CleanPhases, Terminal
  <2>3. st'.phase = "CLEAN_VERIFIED" /\ st'.intent = st.intent
    BY <2>1, <2>2, FinishShape DEF Finish, SameSeal, IInv
  <2>4. Existing = {} /\ Existing' = {}
    <3>1. (\A r \in Roles : daemon[r] = "absent") /\ snapshot = "absent"
      BY <1>1, <1>4 DEF IInv, Sealed, CleanMeansGone, CleanPhases
    <3> QED
      BY <1>1, <3>1 DEF Existing
  <2>5. st.phase \notin CleanPhases /\ st.phase \notin Terminal /\ st'.phase \notin Terminal
    BY <1>1, <2>3, BusyUnclean DEF IInv, CleanPhases, Terminal
  <2>6. Abstract!CallClean
    BY <1>1, <1>4, <2>2, <2>3, <2>4, <2>5 DEF Abstract!CallClean
  <2> QED
    BY <2>6 DEF Abstract!Next
<1> QED
  BY <1>3, <1>4

(* The verdict of a clean lab, its manifest and its end.                   *)
LEMMA SealsRefine ==
    ASSUME IInv, Reached, IInv', BeginSeal \/ Publish \/ CommitSeal
    PROVE  Abstract!Next \/ UNCHANGED Abstract!run
<1>0. st \in States
  BY DEF IInv, TypeOK, States
<1>1. UNCHANGED <<asked, daemon, snapshot, spoiled>> /\ Existing' = Existing
  BY DEF BeginSeal, Publish, CommitSeal, world, history, Existing
<1>2. CASE BeginSeal
  <2>1. st.phase = "CLEAN_VERIFIED" /\ UNCHANGED evidence
    BY <1>2 DEF BeginSeal, world
  <2>2. st'.phase = "SEAL_PENDING" /\ st'.intent = Result(st)
    BY <1>0, <1>2, MovedShape, Names DEF BeginSeal, States
  <2>3. st.intent = "none"
    BY <2>1 DEF IInv, TypeOK, Terminal
  <2>4. Result(st) \in IF spoiled THEN {"failed_clean"} ELSE {"passed", "failed_clean"}
    <3>1. ~Interrupted(st) /\ st.phase # "NEW"
      BY <2>1, Names DEF Interrupted
    <3>2. spoiled => AnyFailed(st)
      BY <3>1 DEF IInv, Reported
    <3> QED
      BY <3>2 DEF Result, AnyFailed
  <2>5. /\ st.phase \in CleanPhases /\ st'.phase \in CleanPhases
        /\ st.phase \notin Terminal /\ st'.phase \notin Terminal
    BY <2>1, <2>2 DEF CleanPhases, Terminal
  <2>6. Abstract!Decide
    BY <1>1, <2>1, <2>2, <2>3, <2>4, <2>5 DEF Abstract!Decide
  <2> QED
    BY <2>6 DEF Abstract!Next
<1>3. CASE Publish
  <2>1. st.phase = "SEAL_PENDING" /\ UNCHANGED st
    BY <1>3 DEF Publish, IInv, Located, Publishing
  <2>2. Result(st) = st.intent /\ st.intent # "none"
    BY <2>1 DEF IInv, Sealed, SealPhases, TypeOK
  <2>3. evidence' = evidence \/ evidence' = st.intent
    BY <1>3, <2>2 DEF Publish
  <2>4. st.phase \notin Terminal
    BY <2>1 DEF Terminal
  <2>5. CASE evidence' = st.intent
    <3>1. Abstract!Publish
      BY <1>1, <2>1, <2>2, <2>4, <2>5 DEF Abstract!Publish
    <3> QED
      BY <3>1 DEF Abstract!Next
  <2>6. CASE evidence' = evidence
    BY <1>1, <2>1, <2>6 DEF Abstract!run
  <2> QED
    BY <2>3, <2>5, <2>6
<1>4. CASE CommitSeal
  <2> DEFINE end == IF Result(st) = "passed" THEN "PASSED" ELSE "FAILED_CLEAN"
  <2>1. st.phase = "SEAL_PENDING" /\ UNCHANGED evidence /\ evidence # "none"
    BY <1>4 DEF CommitSeal, IInv, Located, Publishing, Reached, world
  <2>2. "seal" \in Steps /\ end \in Phases /\ end \in Terminal
    BY Names DEF Terminal
  <2>3. st' = Observed(Moved(st, end), "seal", "succeeded")
    BY <1>4 DEF CommitSeal, Finish
  <2> HIDE DEF end
  <2>4. st'.phase = end /\ st'.intent = st.intent
    BY <2>2, <2>3, FinishShape DEF SameSeal, IInv
  <2>5. st.phase \in CleanPhases /\ st'.phase \in CleanPhases /\ st'.phase \in Terminal
    BY <2>1, <2>2, <2>4 DEF CleanPhases
  <2>6. Abstract!Close
    BY <1>1, <2>1, <2>4, <2>5 DEF Abstract!Close
  <2> QED
    BY <2>6 DEF Abstract!Next
<1> QED
  BY <1>2, <1>3, <1>4

(* Every step is one of the clean run's, or unseen. *)
LEMMA NextRefines ==
    IInv /\ Reached /\ IInv' /\ [Next]_vars => [Abstract!Next]_(Abstract!run)
<1> SUFFICES ASSUME IInv, Reached, IInv', [Next]_vars
             PROVE  Abstract!Next \/ UNCHANGED Abstract!run
  OBVIOUS
<1>1. Abstract!Work => Abstract!Next
  BY DEF Abstract!Next
<1>2. CASE Forward
  <2>1. CASE BindSnapshot
    BY <1>1, <2>1, RecoveriesRefine
  <2>2. CASE CaptureSnapshot
    BY <2>2, CapturesRefine
  <2>3. CASE Command
    BY <2>3, AsksRefine
  <2>4. CASE BeginCreate \/ BeginInstall \/ BeginTest \/ BeginEvidence
    BY <1>1, <2>4, BeginsRefine
  <2>5. CASE CheckFails \/ Inspect \/ RecordOwned \/ Start \/ CreateFails
    BY <1>1, <2>5, CreatesRefine
  <2>6. CASE Connect \/ Guest \/ Disconnect \/ Settle \/ Test \/ CaptureEvidence
    BY <1>1, <2>6, RunsRefine
  <2> QED
    BY <1>2, <2>1, <2>2, <2>3, <2>4, <2>5, <2>6 DEF Forward
<1>3. CASE Cleanup
  <2>1. CASE PersistHold
    BY <1>1, <2>1, RecoveriesRefine
  <2>2. CASE BeginLogout \/ BeginDestroy \/ BeginVerify
    BY <1>1, <2>2, BeginsRefine
  <2>3. CASE Logout
    BY <1>1, <2>3, RunsRefine
  <2>4. CASE RoleAbsent \/ RoleUnknown \/ ClaimId \/ ClaimRole \/ Remove \/ RecordRemoved \/ Destroyed
    BY <1>1, <2>4, DestroysRefine
  <2>5. CASE Snapshot \/ Unlink \/ RemoveDirectory \/ RecordSnapshotRemoved \/ Finalize
    BY <1>1, <2>5, RemovalsRefine
  <2>6. CASE Verify
    BY <2>6, VerifiesRefine
  <2> QED
    BY <1>3, <2>1, <2>2, <2>3, <2>4, <2>5, <2>6 DEF Cleanup
<1>4. CASE Sealing
  BY <1>1, <1>4, SealsRefine, OutsideRefines DEF Sealing
<1>5. CASE Reload \/ InterruptStable
  BY <1>1, <1>5, RecoveriesRefine
<1>6. CASE CreateInterrupted
  BY <1>6, AsksRefine
<1>7. CASE MarkShellTainted \/ Crash \/ DaemonPublishes
  BY <1>1, <1>7, OutsideRefines
<1>8. CASE UNCHANGED vars
  BY <1>8, UnseenRefines DEF vars, world, history
<1> QED
  BY <1>2, <1>3, <1>4, <1>5, <1>6, <1>7, <1>8 DEF Next

LEMMA InitRefines == Init => Abstract!Init
BY DEF Init, Abstract!Init, Existing, CleanPhases, Terminal

(* Through every failure, crash and recovery the lab's life is one clean   *)
(* run: nothing is asked for twice, a lab called clean has nothing and     *)
(* never will, what went wrong is in its verdict, the manifest says the    *)
(* verdict, and only a published lab is closed (the commands of            *)
(* lifecycle.py and provider_lifecycle.py together).                       *)
THEOREM Refinement == Spec => ImplementsCleanRun
<1>1. Spec => [](IInv /\ Reached)
  BY Invariance, InitReached, NextReached, PTL DEF Spec
<1>2. IInv /\ Reached /\ IInv' /\ [Next]_vars => [Abstract!Next]_(Abstract!run)
  BY NextRefines
<1> QED
  BY <1>1, <1>2, InitRefines, PTL DEF Spec, ImplementsCleanRun, Abstract!Spec

=============================================================================
