------------------------- MODULE ServerLeasesProofs -------------------------
(***************************************************************************)
(* Theorems about ServerLeases, for every number of requests,              *)
(* conversations and providers and every value of the three limits.        *)
(***************************************************************************)
EXTENDS ServerLeases, FiniteSetTheorems, TLAPS

(* Where a request still has to give its lease back itself. *)
BeforeRelease == {"leased", "sending", "sent", "ready", "serving", "looping",
                  "closing", "closed"}

(* A lease object exists exactly while its request is being handled, is in *)
(* the registry exactly while it is not released, and is released early    *)
(* only by a shutdown; a provider turn runs only in three places.          *)
LeaseLife ==
    \A r \in Requests :
        /\ lease[r] = NoLease <=> pc[r] \in {"idle", "done"}
        /\ r \in leases <=> lease[r] # NoLease /\ ~lease[r].released
        /\ r \in leases => (lease[r].slot = NoSlot <=> lease[r].conv = Anonymous)
        /\ pc[r] \in BeforeRelease => r \in leases \cup revoked
        /\ r \in turns => pc[r] \in {"sending", "looping", "closing"}

(* A slot is created by a request that has acquired, hence no request that *)
(* is still idle names one. *)
SlotsAreNamed == \A c \in Convs : convs[c] # NoSlot => pc[convs[c]] # "idle"

WithinLimits ==
    /\ activeTurns <= MaxActiveTurns
    /\ \A p \in Accounts : providerTurns[p] <= MaxPerProvider

(* The inductive invariant. *)
IInv ==
    /\ TypeOK
    /\ ReservationsMatchLeases
    /\ HeldSlotsStayStored
    /\ LeaseLife
    /\ SlotsAreNamed
    /\ WithinLimits

-----------------------------------------------------------------------------
(* Subsets of the requests, and the stored conversations, can be counted. *)
LEMMA FiniteSubsets ==
    /\ \A S \in SUBSET Requests : IsFiniteSet(S) /\ Cardinality(S) \in Nat
    /\ \A S \in SUBSET Convs : IsFiniteSet(S) /\ Cardinality(S) \in Nat
BY LeaseAssumption, FS_Subset, FS_CardinalityType

LEMMA AccountType == \A name \in Providers : Account(name) \in Accounts
BY DEF Accounts

(* The initial state satisfies the invariant: nothing is reserved. *)
LEMMA InitIInv == Init => IInv
<1> SUFFICES ASSUME Init PROVE IInv
  OBVIOUS
<1>1. TypeOK
  BY DEF Init, TypeOK, Places
<1>2. Cardinality({}) = 0
  BY FS_EmptySet
<1>3. ReservationsMatchLeases
  <2>1. \A p : LeasesOn(p) = {}
    BY DEF Init, LeasesOn
  <2> QED
    BY <1>2, <2>1 DEF Init, ReservationsMatchLeases
<1>4. HeldSlotsStayStored
  <2>1. Stored = {}
    BY DEF Init, Stored
  <2> QED
    BY <1>2, <2>1, LeaseAssumption DEF Init, HeldSlotsStayStored
<1>5. LeaseLife /\ SlotsAreNamed /\ WithinLimits
  BY LeaseAssumption DEF Init, LeaseLife, SlotsAreNamed, WithinLimits, BeforeRelease
<1> QED
  BY <1>1, <1>3, <1>4, <1>5 DEF IInv

(* A step that moves a request on, from one place of its handling before   *)
(* the release to another, and touches no reservation.                     *)
LEMMA MovePreserves ==
    ASSUME IInv, NEW r \in Requests, NEW to \in Places \ {"idle", "done"},
           pc[r] \in BeforeRelease, pc' = [pc EXCEPT ![r] = to], Untouched,
           turns' \in SUBSET Requests,
           \A q \in turns' : \/ q \in turns /\ q # r
                             \/ q = r /\ to \in {"sending", "looping", "closing"}
    PROVE  IInv'
<1> USE DEF IInv, Untouched, stored, reservations
<1>1. TypeOK'
  BY DEF TypeOK
<1>2. ReservationsMatchLeases'
  <2>1. \A p : LeasesOn(p)' = LeasesOn(p)
    BY DEF LeasesOn
  <2> QED
    BY <2>1 DEF ReservationsMatchLeases
<1>3. HeldSlotsStayStored'
  <2>1. Stored' = Stored
    BY DEF Stored
  <2> QED
    BY <2>1 DEF HeldSlotsStayStored
<1>4. LeaseLife'
  <2> SUFFICES ASSUME NEW q \in Requests
               PROVE  /\ lease[q] = NoLease <=> pc'[q] \in {"idle", "done"}
                      /\ pc'[q] \in BeforeRelease => q \in leases \cup revoked
                      /\ q \in turns' => pc'[q] \in {"sending", "looping", "closing"}
    BY DEF LeaseLife
  <2>1. CASE q = r
    <3>1. pc'[r] = to
      BY DEF TypeOK
    <3>2. lease[r] # NoLease
      BY DEF LeaseLife, BeforeRelease
    <3> QED
      BY <2>1, <3>1, <3>2 DEF LeaseLife
  <2>2. CASE q # r
    BY <2>2 DEF LeaseLife, TypeOK
  <2> QED
    BY <2>1, <2>2
<1>5. SlotsAreNamed'
  BY DEF SlotsAreNamed, TypeOK
<1>6. WithinLimits'
  BY DEF WithinLimits
<1> QED
  BY <1>1, <1>2, <1>3, <1>4, <1>5, <1>6

(* What every release does to the reservations, whichever step it is part  *)
(* of: r's reservation is gone and nobody else's is touched.               *)
LEMMA ReleaseFrees ==
    ASSUME IInv, NEW r \in Requests, lease[r] # NoLease, Release(r), UNCHANGED stored,
           lease' \in [Requests -> Leases \cup {NoLease}],
           \A q \in Requests \ {r} : lease'[q] = lease[q]
    PROVE  /\ leases' = leases \ {r}
           /\ slotActive' \in SUBSET Requests
           /\ activeTurns' \in Nat
           /\ providerTurns' \in [Accounts -> Nat]
           /\ ReservationsMatchLeases'
           /\ HeldSlotsStayStored'
           /\ WithinLimits'
<1> USE DEF IInv
<1>1. r \in leases <=> ~lease[r].released
  BY DEF LeaseLife
<1>2. leases' = leases \ {r}
  BY <1>1 DEF Release, reservations
<1>3. lease[r] \in Leases
  BY DEF TypeOK
<1>4. HeldSlotsStayStored'
  <2>1. Stored' = Stored /\ convs' = convs
    BY DEF Stored, stored
  <2>2. \A q \in leases' : q \in leases /\ q \in Requests \ {r}
    BY <1>2 DEF TypeOK
  <2> QED
    BY <2>1, <2>2 DEF HeldSlotsStayStored
<1>5. CASE lease[r].released
  <2>1. UNCHANGED reservations /\ leases' = leases /\ r \notin leases
    BY <1>1, <1>5 DEF Release, reservations
  <2>2. \A q \in leases : lease'[q] = lease[q]
    BY <2>1 DEF TypeOK
  <2>3. \A p : LeasesOn(p)' = LeasesOn(p)
    BY <2>1, <2>2 DEF LeasesOn
  <2>4. ReservationsMatchLeases'
    BY <2>1, <2>2, <2>3 DEF ReservationsMatchLeases, reservations
  <2> QED
    BY <1>2, <1>4, <2>1, <2>4 DEF reservations, TypeOK, WithinLimits
<1>6. CASE ~lease[r].released
  <2> DEFINE p == lease[r].provider
  <2>1. r \in leases /\ p \in Accounts /\ leases' = leases \ {r}
    BY <1>1, <1>2, <1>3, <1>6 DEF Leases
  <2>2. /\ slotActive' = slotActive \ {lease[r].slot}
        /\ activeTurns' = IF activeTurns > 0 THEN activeTurns - 1 ELSE activeTurns
        /\ providerTurns' = [providerTurns EXCEPT ![p] = IF @ <= 1 THEN 0 ELSE @ - 1]
    BY <1>6 DEF Release
  <2>3. /\ leases \in SUBSET Requests
        /\ \A q \in leases' : q \in leases /\ q # r /\ lease'[q] = lease[q]
    BY <2>1 DEF TypeOK
  <2>4. /\ activeTurns' = Cardinality(leases') /\ activeTurns' = activeTurns - 1
        /\ activeTurns' \in Nat
    <3>1. IsFiniteSet(leases) /\ Cardinality(leases) \in Nat /\ Cardinality(leases') \in Nat
      BY <2>1, <2>3, FiniteSubsets
    <3>2. Cardinality(leases') = Cardinality(leases) - 1
      BY <2>1, <3>1, FS_RemoveElement
    <3> QED
      BY <2>2, <3>1, <3>2 DEF ReservationsMatchLeases
  <2>5. \A a \in Accounts : /\ providerTurns'[a] = Cardinality(LeasesOn(a)')
                            /\ providerTurns'[a] \in Nat
                            /\ providerTurns'[a] <= providerTurns[a]
    <3> SUFFICES ASSUME NEW a \in Accounts
                 PROVE  /\ providerTurns'[a] = Cardinality(LeasesOn(a)')
                        /\ providerTurns'[a] \in Nat
                        /\ providerTurns'[a] <= providerTurns[a]
      OBVIOUS
    <3>1. LeasesOn(a) \in SUBSET Requests /\ LeasesOn(a)' \in SUBSET Requests
      BY <2>3 DEF LeasesOn
    <3>2. /\ IsFiniteSet(LeasesOn(a)) /\ Cardinality(LeasesOn(a)) \in Nat
          /\ Cardinality(LeasesOn(a)') \in Nat
          /\ providerTurns[a] = Cardinality(LeasesOn(a))
      BY <3>1, FiniteSubsets DEF ReservationsMatchLeases
    <3>3. CASE a = p
      <4>1. LeasesOn(a)' = LeasesOn(a) \ {r} /\ r \in LeasesOn(a)
        BY <2>1, <2>3, <3>3 DEF LeasesOn
      <4>2. Cardinality(LeasesOn(a)') = Cardinality(LeasesOn(a)) - 1
        BY <3>2, <4>1, FS_RemoveElement
      <4>3. providerTurns'[a] = IF providerTurns[a] <= 1 THEN 0 ELSE providerTurns[a] - 1
        BY <2>2, <3>3 DEF TypeOK
      <4> QED
        BY <3>2, <4>2, <4>3
    <3>4. CASE a # p
      <4>1. LeasesOn(a)' = LeasesOn(a)
        BY <2>1, <2>3, <3>4 DEF LeasesOn
      <4>2. providerTurns'[a] = providerTurns[a]
        BY <2>2, <3>4 DEF TypeOK
      <4> QED
        BY <3>2, <4>1, <4>2
    <3> QED
      BY <3>3, <3>4
  <2>6. slotActive' = {lease'[q].slot : q \in leases'} \ {NoSlot}
    BY <2>1, <2>2, <2>3 DEF ReservationsMatchLeases
  <2>7. \A q, t \in leases' : lease'[q].slot = lease'[t].slot /\ q # t => lease'[q].slot = NoSlot
    BY <2>3 DEF ReservationsMatchLeases
  <2>8. ReservationsMatchLeases'
    BY <2>4, <2>5, <2>6, <2>7 DEF ReservationsMatchLeases
  <2>9. /\ slotActive' \in SUBSET Requests
        /\ activeTurns' \in Nat
        /\ providerTurns' \in [Accounts -> Nat]
    <3>1. providerTurns' = [a \in Accounts |-> providerTurns'[a]]
      BY <2>2 DEF TypeOK
    <3>2. slotActive' \in SUBSET Requests
      BY <2>2 DEF TypeOK
    <3> QED
      BY <2>4, <2>5, <3>1, <3>2
  <2>10. WithinLimits'
    <3>1. activeTurns' <= MaxActiveTurns
      BY <2>4, LeaseAssumption DEF TypeOK, WithinLimits
    <3>2. \A a \in Accounts : providerTurns'[a] <= MaxPerProvider
      BY <2>5, LeaseAssumption DEF TypeOK, WithinLimits
    <3> QED
      BY <3>1, <3>2 DEF WithinLimits
  <2> QED
    BY <1>2, <1>4, <2>8, <2>9, <2>10
<1> QED
  BY <1>5, <1>6

(* The last release of a request, on any of the three paths. *)
LEMMA ReturnPreserves ==
    ASSUME IInv, NEW r \in Requests, pc[r] \in {"sent", "leased", "finishing"},
           ReleaseAndReturn(r)
    PROVE  IInv'
<1> USE DEF IInv, ReleaseAndReturn
<1>1. lease[r] # NoLease
  BY DEF LeaseLife
<1>2. /\ lease' \in [Requests -> Leases \cup {NoLease}]
      /\ \A q \in Requests \ {r} : lease'[q] = lease[q]
      /\ lease'[r] = NoLease
  BY DEF TypeOK
<1>3. /\ leases' = leases \ {r}
      /\ slotActive' \in SUBSET Requests
      /\ activeTurns' \in Nat
      /\ providerTurns' \in [Accounts -> Nat]
      /\ ReservationsMatchLeases' /\ HeldSlotsStayStored' /\ WithinLimits'
  BY <1>1, <1>2, ReleaseFrees
<1>4. TypeOK'
  BY <1>2, <1>3 DEF TypeOK, stored, Places
<1>5. LeaseLife'
  <2> SUFFICES ASSUME NEW q \in Requests
               PROVE  /\ lease'[q] = NoLease <=> pc'[q] \in {"idle", "done"}
                      /\ q \in leases' <=> lease'[q] # NoLease /\ ~lease'[q].released
                      /\ q \in leases' => (lease'[q].slot = NoSlot <=> lease'[q].conv = Anonymous)
                      /\ pc'[q] \in BeforeRelease => q \in leases' \cup revoked'
                      /\ q \in turns' => pc'[q] \in {"sending", "looping", "closing"}
    BY DEF LeaseLife
  <2>1. CASE q = r
    <3>1. pc'[r] = "done" /\ r \notin turns
      BY DEF TypeOK, LeaseLife
    <3> QED
      BY <1>2, <1>3, <2>1, <3>1 DEF BeforeRelease
  <2>2. CASE q # r
    BY <1>2, <1>3, <2>2 DEF LeaseLife, TypeOK
  <2> QED
    BY <2>1, <2>2
<1>6. SlotsAreNamed'
  BY DEF SlotsAreNamed, TypeOK, stored
<1> QED
  BY <1>3, <1>4, <1>5, <1>6

(* The release in gen()'s finally. *)
LEMMA GenReleasePreserves ==
    ASSUME IInv, NEW r \in Requests, GenReleases(r)
    PROVE  IInv'
<1> USE DEF IInv, GenReleases, Goto
<1>1. lease[r] # NoLease
  BY DEF LeaseLife
<1>2. lease[r] \in Leases
  BY <1>1 DEF TypeOK
<1>3. /\ lease' \in [Requests -> Leases \cup {NoLease}]
      /\ \A q \in Requests \ {r} : lease'[q] = lease[q]
      /\ lease'[r] = [lease[r] EXCEPT !.released = TRUE]
  BY <1>2 DEF TypeOK, Leases
<1>4. lease'[r] # NoLease /\ lease'[r].released
  <2>1. lease'[r] \in Leases /\ lease'[r].released
    BY <1>2, <1>3 DEF Leases
  <2> QED
    BY <2>1, LeaseAssumption
<1>5. /\ leases' = leases \ {r}
      /\ slotActive' \in SUBSET Requests
      /\ activeTurns' \in Nat
      /\ providerTurns' \in [Accounts -> Nat]
      /\ ReservationsMatchLeases' /\ HeldSlotsStayStored' /\ WithinLimits'
  BY <1>1, <1>3, ReleaseFrees
<1>6. TypeOK'
  BY <1>3, <1>5 DEF TypeOK, stored, Places
<1>7. LeaseLife'
  <2> SUFFICES ASSUME NEW q \in Requests
               PROVE  /\ lease'[q] = NoLease <=> pc'[q] \in {"idle", "done"}
                      /\ q \in leases' <=> lease'[q] # NoLease /\ ~lease'[q].released
                      /\ q \in leases' => (lease'[q].slot = NoSlot <=> lease'[q].conv = Anonymous)
                      /\ pc'[q] \in BeforeRelease => q \in leases' \cup revoked'
                      /\ q \in turns' => pc'[q] \in {"sending", "looping", "closing"}
    BY DEF LeaseLife
  <2>1. CASE q = r
    <3>1. pc'[r] = "finishing" /\ r \notin turns
      BY DEF TypeOK, LeaseLife
    <3> QED
      BY <1>4, <1>5, <2>1, <3>1 DEF BeforeRelease
  <2>2. CASE q # r
    BY <1>3, <1>5, <2>2 DEF LeaseLife, TypeOK
  <2> QED
    BY <2>1, <2>2
<1>8. SlotsAreNamed'
  BY DEF SlotsAreNamed, TypeOK, stored
<1> QED
  BY <1>5, <1>6, <1>7, <1>8

(* What a reservation does, given a slot that nobody holds: one more lease *)
(* and exactly one more in each record.                                    *)
LEMMA ReserveCounts ==
    ASSUME IInv, NEW r \in Requests, NEW u \in Convs \cup {Anonymous}, NEW p \in Accounts,
           NEW slot \in Requests \cup {NoSlot}, pc[r] = "idle", slot \notin slotActive,
           MayAcquire(u, p), Reserve(r, u, p, slot)
    PROVE  /\ leases' = leases \cup {r} /\ r \notin leases
           /\ lease' \in [Requests -> Leases \cup {NoLease}]
           /\ lease'[r] = [conv |-> u, provider |-> p, slot |-> slot, released |-> FALSE]
           /\ \A q \in Requests \ {r} : lease'[q] = lease[q]
           /\ slotActive' \in SUBSET Requests
           /\ activeTurns' \in Nat
           /\ providerTurns' \in [Accounts -> Nat]
           /\ ReservationsMatchLeases'
           /\ WithinLimits'
<1> USE DEF IInv, Reserve
<1>1. r \notin leases /\ leases' = leases \cup {r} /\ leases \in SUBSET Requests
  BY DEF LeaseLife, TypeOK
<1>2. /\ lease' \in [Requests -> Leases \cup {NoLease}]
      /\ lease'[r] = [conv |-> u, provider |-> p, slot |-> slot, released |-> FALSE]
      /\ \A q \in Requests \ {r} : lease'[q] = lease[q]
  BY DEF TypeOK, Leases
<1>3. \A q \in leases : q \in Requests \ {r} /\ lease'[q] = lease[q]
  BY <1>1, <1>2
<1>4. /\ activeTurns' = Cardinality(leases') /\ activeTurns' \in Nat
      /\ activeTurns' <= MaxActiveTurns
  <2>1. IsFiniteSet(leases) /\ Cardinality(leases) \in Nat
    BY <1>1, FiniteSubsets
  <2>2. Cardinality(leases') = Cardinality(leases) + 1
    BY <1>1, <2>1, FS_AddElement
  <2> QED
    BY <2>1, <2>2, LeaseAssumption DEF ReservationsMatchLeases, MayAcquire
<1>5. \A a \in Accounts : /\ providerTurns'[a] = Cardinality(LeasesOn(a)')
                          /\ providerTurns'[a] \in Nat
                          /\ providerTurns'[a] <= MaxPerProvider
  <2> SUFFICES ASSUME NEW a \in Accounts
               PROVE  /\ providerTurns'[a] = Cardinality(LeasesOn(a)')
                      /\ providerTurns'[a] \in Nat
                      /\ providerTurns'[a] <= MaxPerProvider
    OBVIOUS
  <2>1. /\ IsFiniteSet(LeasesOn(a)) /\ Cardinality(LeasesOn(a)) \in Nat
        /\ providerTurns[a] = Cardinality(LeasesOn(a))
    <3>1. LeasesOn(a) \in SUBSET Requests
      BY <1>1 DEF LeasesOn
    <3> QED
      BY <3>1, FiniteSubsets DEF ReservationsMatchLeases
  <2>2. CASE a = p
    <3>1. LeasesOn(a)' = LeasesOn(a) \cup {r} /\ r \notin LeasesOn(a)
      BY <1>1, <1>2, <1>3, <2>2 DEF LeasesOn
    <3>2. Cardinality(LeasesOn(a)') = Cardinality(LeasesOn(a)) + 1
      BY <2>1, <3>1, FS_AddElement
    <3>3. providerTurns'[a] = providerTurns[a] + 1
      BY <2>2 DEF TypeOK
    <3> QED
      BY <2>1, <2>2, <3>2, <3>3, LeaseAssumption DEF MayAcquire
  <2>3. CASE a # p
    <3>1. LeasesOn(a)' = LeasesOn(a)
      BY <1>1, <1>2, <1>3, <2>3 DEF LeasesOn
    <3>2. providerTurns'[a] = providerTurns[a]
      BY <2>3 DEF TypeOK
    <3> QED
      BY <2>1, <3>1, <3>2 DEF WithinLimits
  <2> QED
    BY <2>2, <2>3
<1>6. slotActive' = {lease'[q].slot : q \in leases'} \ {NoSlot}
  <2>1. slotActive' = slotActive \cup ({slot} \ {NoSlot})
    OBVIOUS
  <2>2. slotActive = {lease[q].slot : q \in leases} \ {NoSlot}
    BY DEF ReservationsMatchLeases
  <2>3. {lease'[q].slot : q \in leases'} = {lease[q].slot : q \in leases} \cup {slot}
    BY <1>1, <1>2, <1>3
  <2> QED
    BY <2>1, <2>2, <2>3
<1>7. \A q, t \in leases' : lease'[q].slot = lease'[t].slot /\ q # t => lease'[q].slot = NoSlot
  <2>1. \A q \in leases : lease[q].slot = slot => slot = NoSlot
    BY DEF ReservationsMatchLeases
  <2>2. \A q, t \in leases : lease[q].slot = lease[t].slot /\ q # t => lease[q].slot = NoSlot
    BY DEF ReservationsMatchLeases
  <2> QED
    BY <1>1, <1>2, <1>3, <2>1, <2>2
<1>8. ReservationsMatchLeases'
  BY <1>4, <1>5, <1>6, <1>7 DEF ReservationsMatchLeases
<1>9. WithinLimits'
  BY <1>4, <1>5 DEF WithinLimits
<1>10. slotActive' \in SUBSET Requests /\ providerTurns' \in [Accounts -> Nat]
  <2>1. providerTurns' = [a \in Accounts |-> providerTurns'[a]]
    BY DEF TypeOK
  <2>2. slotActive' \in SUBSET Requests
    BY DEF TypeOK
  <2> QED
    BY <1>5, <2>1, <2>2
<1> QED
  BY <1>1, <1>2, <1>4, <1>8, <1>9, <1>10

(* No slot bears the name of a request that has not acquired yet. *)
LEMMA IdleNamesNoSlot ==
    ASSUME IInv, NEW r \in Requests, pc[r] = "idle"
    PROVE  r \notin slotActive /\ \A c \in Convs : convs[c] # r
<1>1. \A c \in Convs : convs[c] # r
  BY LeaseAssumption DEF IInv, SlotsAreNamed
<1>2. \A q \in leases : lease[q].slot # NoSlot => lease[q].slot = convs[lease[q].conv]
                                               /\ lease[q].conv \in Convs
  BY DEF IInv, LeaseLife, HeldSlotsStayStored, TypeOK, Leases
<1> QED
  BY <1>1, <1>2 DEF IInv, ReservationsMatchLeases

(* The conversation that is to be served has a slot that nobody holds, and *)
(* making room for it takes away no slot that somebody holds.              *)
LEMMA AcquirePreserves ==
    ASSUME IInv, NEW r \in Requests, NEW u \in Convs \cup {Anonymous},
           NEW name \in Providers, Acquire(r, u, name)
    PROVE  IInv'
<1> DEFINE p == Account(name)
<1> USE DEF IInv, Acquire
<1>1. p \in Accounts
  BY AccountType
<1>2. /\ pc[r] = "idle" /\ pc' = [pc EXCEPT ![r] = "leased"]
      /\ turns' = turns /\ revoked' = revoked /\ MayAcquire(u, p)
  OBVIOUS
<1>3. r \notin slotActive /\ \A c \in Convs : convs[c] # r
  BY <1>2, IdleNamesNoSlot
<1> DEFINE Placed(slot) ==
        /\ slot \in Requests \cup {NoSlot} /\ slot \notin slotActive
        /\ slot = NoSlot <=> u = Anonymous
        /\ Reserve(r, u, p, slot)
        /\ convs' \in [Convs -> Requests \cup {NoSlot}]
        /\ older' \in SUBSET (Convs \X Convs)
        /\ u # Anonymous => convs'[u] = slot
        /\ \A c \in Convs : convs'[c] \in {convs[c], NoSlot, r}
        /\ \A c \in Convs : convs[c] \in slotActive => convs'[c] = convs[c]
        /\ Cardinality(Stored') <= MaxConvs
<1>4. \E slot : Placed(slot)
  <2>1. PlaceConversation(r, u, p)
    OBVIOUS
  <2>2. CASE u = Anonymous /\ Reserve(r, u, p, NoSlot) /\ UNCHANGED <<convs, older>>
    <3>1. NoSlot \notin slotActive
      BY LeaseAssumption DEF TypeOK
    <3>2. Stored' = Stored
      BY <2>2 DEF Stored
    <3>3. Placed(NoSlot)
      BY <2>2, <3>1, <3>2, LeaseAssumption DEF TypeOK, HeldSlotsStayStored
    <3> QED
      BY <3>3
  <2>3. CASE /\ u \in Stored /\ Reserve(r, u, p, convs[u])
             /\ older' = Youngest(u, Stored) /\ UNCHANGED convs
    <3>1. u \in Convs /\ u # Anonymous /\ convs[u] # NoSlot
      BY <2>3, LeaseAssumption DEF Stored
    <3>2. convs[u] \notin slotActive
      BY <1>2, <2>3, <3>1 DEF MayAcquire, ConversationBusy, Idle
    <3>3. Stored' = Stored
      BY <2>3 DEF Stored
    <3>4. older' \in SUBSET (Convs \X Convs)
      BY <2>3, <3>1 DEF Youngest, TypeOK, Stored
    <3>5. Placed(convs[u])
      BY <2>3, <3>1, <3>2, <3>3, <3>4 DEF TypeOK, HeldSlotsStayStored
    <3> QED
      BY <3>5
  <2>4. CASE /\ u \in Convs \ Stored /\ Reserve(r, u, p, r)
             /\ \E evicted \in Evictions :
                  /\ convs' = [c \in Convs |-> IF c = u THEN r
                                               ELSE IF c \in evicted THEN NoSlot
                                               ELSE convs[c]]
                  /\ older' = Youngest(u, Stored \ evicted)
    <3>1. PICK evicted \in Evictions :
                  /\ convs' = [c \in Convs |-> IF c = u THEN r
                                               ELSE IF c \in evicted THEN NoSlot
                                               ELSE convs[c]]
                  /\ older' = Youngest(u, Stored \ evicted)
      BY <2>4
    <3>2. u \in Convs /\ u # Anonymous /\ convs[u] = NoSlot /\ u \notin Stored
      BY <2>4, LeaseAssumption DEF Stored
    <3>3. Stored \in SUBSET Convs /\ IsFiniteSet(Stored) /\ Cardinality(Stored) \in Nat
      <4>1. Stored \in SUBSET Convs
        BY DEF Stored
      <4> QED
        BY <4>1, FiniteSubsets
    <3>4. evicted \in SUBSET Idle /\ Idle \in SUBSET Stored
      BY DEF Evictions, Idle
    <3>5. Cardinality(Stored \ evicted) < MaxConvs /\ IsFiniteSet(Stored \ evicted)
      <4>1. CASE Cardinality(Stored) < MaxConvs
        <5>1. Stored \ evicted = Stored
          BY <4>1 DEF Evictions
        <5> QED
          BY <3>3, <4>1, <5>1
      <4>2. CASE ~(Cardinality(Stored) < MaxConvs)
        <5>1. PICK c \in Idle : evicted = {c}
          BY <4>2 DEF Evictions
        <5>2. Cardinality(Stored \ evicted) = Cardinality(Stored) - 1 /\ IsFiniteSet(Stored \ evicted)
          BY <3>3, <3>4, <5>1, FS_RemoveElement
        <5> QED
          BY <3>3, <5>2, LeaseAssumption DEF HeldSlotsStayStored
      <4> QED
        BY <4>1, <4>2
    <3>6. Stored' = (Stored \ evicted) \cup {u}
      BY <3>1, <3>2, LeaseAssumption DEF Stored
    <3>7. Cardinality(Stored') <= MaxConvs
      <4>1. Cardinality(Stored') = Cardinality(Stored \ evicted) + 1
        BY <3>2, <3>5, <3>6, FS_AddElement
      <4>2. Cardinality(Stored \ evicted) \in Nat
        BY <3>5, FS_CardinalityType
      <4> QED
        BY <3>5, <4>1, <4>2, LeaseAssumption
    <3>8. convs' \in [Convs -> Requests \cup {NoSlot}] /\ convs'[u] = r
      BY <3>1, <3>2 DEF TypeOK
    <3>9. older' \in SUBSET (Convs \X Convs)
      BY <3>1, <3>2, <3>3 DEF Youngest, TypeOK
    <3>10. \A c \in Convs : convs[c] \in slotActive => convs'[c] = convs[c]
      <4> SUFFICES ASSUME NEW c \in Convs, convs[c] \in slotActive PROVE convs'[c] = convs[c]
        OBVIOUS
      <4>1. c # u /\ c \notin evicted
        BY <3>2, <3>4, LeaseAssumption DEF Idle, TypeOK
      <4> QED
        BY <3>1, <4>1
    <3>11. \A c \in Convs : convs'[c] \in {convs[c], NoSlot, r}
      BY <3>1
    <3>12. Placed(r)
      BY <1>3, <2>4, <3>2, <3>7, <3>8, <3>9, <3>10, <3>11, LeaseAssumption
    <3> QED
      BY <3>12
  <2> QED
    BY <2>1, <2>2, <2>3, <2>4 DEF PlaceConversation
<1>5. PICK slot : Placed(slot)
  BY <1>4
<1>6. /\ leases' = leases \cup {r} /\ r \notin leases
      /\ lease' \in [Requests -> Leases \cup {NoLease}]
      /\ lease'[r] = [conv |-> u, provider |-> p, slot |-> slot, released |-> FALSE]
      /\ \A q \in Requests \ {r} : lease'[q] = lease[q]
      /\ slotActive' \in SUBSET Requests
      /\ activeTurns' \in Nat
      /\ providerTurns' \in [Accounts -> Nat]
      /\ ReservationsMatchLeases' /\ WithinLimits'
  BY <1>1, <1>2, <1>5, ReserveCounts
<1>7. TypeOK'
  <2>1. pc' \in [Requests -> Places] /\ leases' \in SUBSET Requests
    BY <1>2, <1>6 DEF TypeOK, Places
  <2>2. convs' \in [Convs -> Requests \cup {NoSlot}] /\ older' \in SUBSET (Convs \X Convs)
    BY <1>5
  <2> QED
    BY <1>2, <1>6, <2>1, <2>2 DEF TypeOK
<1>8. HeldSlotsStayStored'
  <2> SUFFICES ASSUME NEW q \in leases', lease'[q].conv # Anonymous
               PROVE  convs'[lease'[q].conv] = lease'[q].slot
    BY <1>5 DEF HeldSlotsStayStored
  <2>1. CASE q = r
    BY <1>5, <1>6, <2>1
  <2>2. CASE q # r
    <3>1. q \in leases /\ q \in Requests /\ lease'[q] = lease[q]
      BY <1>6, <2>2 DEF TypeOK
    <3>2. lease[q] \in Leases /\ lease[q].conv \in Convs
      BY <3>1 DEF LeaseLife, TypeOK, Leases
    <3>3. convs[lease[q].conv] = lease[q].slot /\ lease[q].slot # NoSlot
      BY <3>1, <3>2 DEF HeldSlotsStayStored, LeaseLife
    <3>4. lease[q].slot \in slotActive
      BY <3>1, <3>3 DEF ReservationsMatchLeases
    <3> QED
      BY <1>5, <3>1, <3>2, <3>3, <3>4
  <2> QED
    BY <2>1, <2>2
<1>9. LeaseLife'
  <2> SUFFICES ASSUME NEW q \in Requests
               PROVE  /\ lease'[q] = NoLease <=> pc'[q] \in {"idle", "done"}
                      /\ q \in leases' <=> lease'[q] # NoLease /\ ~lease'[q].released
                      /\ q \in leases' => (lease'[q].slot = NoSlot <=> lease'[q].conv = Anonymous)
                      /\ pc'[q] \in BeforeRelease => q \in leases' \cup revoked'
                      /\ q \in turns' => pc'[q] \in {"sending", "looping", "closing"}
    BY DEF LeaseLife
  <2>1. CASE q = r
    <3>1. pc'[r] = "leased" /\ r \notin turns
      BY <1>2 DEF TypeOK, LeaseLife
    <3>2. lease'[r] # NoLease
      <4>1. lease'[r] \in Leases
        BY <1>1, <1>5, <1>6 DEF Leases
      <4> QED
        BY <4>1, LeaseAssumption
    <3> QED
      BY <1>2, <1>5, <1>6, <2>1, <3>1, <3>2
  <2>2. CASE q # r
    <3>1. pc'[q] = pc[q] /\ lease'[q] = lease[q] /\ (q \in leases' <=> q \in leases)
      BY <1>2, <1>6, <2>2 DEF TypeOK
    <3> QED
      BY <1>2, <3>1 DEF LeaseLife
  <2> QED
    BY <2>1, <2>2
<1>10. SlotsAreNamed'
  <2> SUFFICES ASSUME NEW c \in Convs, convs'[c] # NoSlot PROVE pc'[convs'[c]] # "idle"
    BY DEF SlotsAreNamed
  <2>1. convs'[c] = r \/ convs'[c] = convs[c]
    BY <1>5
  <2>2. convs'[c] \in Requests
    BY <1>5
  <2> QED
    BY <1>2, <2>1, <2>2 DEF SlotsAreNamed, TypeOK
<1> QED
  BY <1>6, <1>7, <1>8, <1>9, <1>10

LEMMA RefusePreserves ==
    ASSUME IInv, NEW r \in Requests, NEW u \in Convs \cup {Anonymous},
           NEW name \in Providers, Refuse(r, u, name)
    PROVE  IInv'
<1> USE DEF IInv, Refuse, stored, reservations
<1>1. TypeOK'
  BY DEF TypeOK, Places
<1>2. ReservationsMatchLeases'
  <2>1. \A p : LeasesOn(p)' = LeasesOn(p)
    BY DEF LeasesOn
  <2> QED
    BY <2>1 DEF ReservationsMatchLeases
<1>3. HeldSlotsStayStored'
  <2>1. Stored' = Stored
    BY DEF Stored
  <2> QED
    BY <2>1 DEF HeldSlotsStayStored
<1>4. LeaseLife'
  BY DEF LeaseLife, TypeOK, BeforeRelease
<1>5. SlotsAreNamed' /\ WithinLimits'
  BY DEF SlotsAreNamed, TypeOK, WithinLimits
<1> QED
  BY <1>1, <1>2, <1>3, <1>4, <1>5

(* A shutdown empties the registry and clears every record with it. *)
LEMMA ShutdownPreserves == ASSUME IInv, Shutdown PROVE IInv'
<1> USE DEF IInv, Shutdown, stored
<1>1. leases \in SUBSET Requests /\ leases' = {}
  BY DEF TypeOK
<1>2. \A q \in Requests :
         /\ lease'[q] \in Leases \cup {NoLease}
         /\ lease'[q] = NoLease <=> lease[q] = NoLease
         /\ lease'[q] # NoLease => lease'[q].released
  <2> SUFFICES ASSUME NEW q \in Requests
               PROVE  /\ lease'[q] \in Leases \cup {NoLease}
                      /\ lease'[q] = NoLease <=> lease[q] = NoLease
                      /\ lease'[q] # NoLease => lease'[q].released
    OBVIOUS
  <2>1. CASE q \in leases
    <3>1. lease[q] \in Leases /\ lease'[q] = [lease[q] EXCEPT !.released = TRUE]
      BY <2>1 DEF LeaseLife, TypeOK
    <3>2. lease'[q] \in Leases /\ lease'[q].released
      BY <3>1 DEF Leases
    <3> QED
      BY <3>1, <3>2, LeaseAssumption
  <2>2. CASE q \notin leases
    BY <2>2 DEF LeaseLife, TypeOK
  <2> QED
    BY <2>1, <2>2
<1>3. TypeOK'
  <2>1. lease' \in [Requests -> Leases \cup {NoLease}]
    BY <1>2
  <2>2. slotActive' \in SUBSET Requests /\ revoked' \in SUBSET Requests
    BY DEF TypeOK
  <2> QED
    BY <1>1, <2>1, <2>2 DEF TypeOK
<1>4. ReservationsMatchLeases'
  <2>1. Cardinality({}) = 0
    BY FS_EmptySet
  <2>2. \A p : LeasesOn(p)' = {}
    BY DEF LeasesOn
  <2>3. slotActive' = {}
    BY DEF ReservationsMatchLeases
  <2> QED
    BY <2>1, <2>2, <2>3 DEF ReservationsMatchLeases
<1>5. HeldSlotsStayStored'
  <2>1. Stored' = Stored
    BY DEF Stored
  <2> QED
    BY <2>1 DEF HeldSlotsStayStored
<1>6. LeaseLife'
  BY <1>1, <1>2 DEF LeaseLife
<1>7. SlotsAreNamed' /\ WithinLimits'
  BY LeaseAssumption DEF SlotsAreNamed, WithinLimits
<1> QED
  BY <1>3, <1>4, <1>5, <1>6, <1>7

LEMMA StutterPreserves == ASSUME IInv, UNCHANGED vars PROVE IInv'
BY DEF vars, IInv, TypeOK, ReservationsMatchLeases, HeldSlotsStayStored, LeaseLife,
       SlotsAreNamed, WithinLimits, LeasesOn, Stored

(* One step of an accepted request. *)
LEMMA RequestStepPreserves ==
    ASSUME IInv, NEW r \in Requests, RequestStep(r)
    PROVE  IInv'
<1>1. turns \in SUBSET Requests /\ (r \in turns => pc[r] \in {"sending", "looping", "closing"})
  BY DEF IInv, TypeOK, LeaseLife
<1> USE <1>1 DEF Goto, BeforeRelease, Places
<1>2. CASE StartSend(r) \/ SendEnds(r)
  BY <1>2, MovePreserves DEF StartSend, SendEnds
<1>3. CASE BuildResponse(r) \/ Abandon(r) \/ Serve(r) \/ LeaveUnstarted(r)
  BY <1>3, MovePreserves DEF BuildResponse, Abandon, Serve, LeaveUnstarted
<1>4. CASE StartStream(r) \/ LeaveLoop(r) \/ CloseUpstream(r)
  BY <1>4, MovePreserves DEF StartStream, LeaveLoop, CloseUpstream
<1>5. CASE TurnEnds(r)
  <2>1. pc' = [pc EXCEPT ![r] = "looping"]
    BY <1>5 DEF TurnEnds, IInv, TypeOK
  <2> QED
    BY <1>5, <2>1, MovePreserves DEF TurnEnds
<1>6. CASE SendReleases(r) \/ BuildFails(r) \/ FinishReleases(r)
  BY <1>6, ReturnPreserves DEF SendReleases, BuildFails, FinishReleases
<1>7. CASE GenReleases(r)
  BY <1>7, GenReleasePreserves
<1> QED
  BY <1>2, <1>3, <1>4, <1>5, <1>6, <1>7 DEF RequestStep

LEMMA NextPreserves == IInv /\ [Next]_vars => IInv'
<1> SUFFICES ASSUME IInv, [Next]_vars PROVE IInv'
  OBVIOUS
<1>1. CASE \E r \in Requests, u \in Convs \cup {Anonymous}, name \in Providers :
             Acquire(r, u, name) \/ Refuse(r, u, name)
  BY <1>1, AcquirePreserves, RefusePreserves
<1>2. CASE \E r \in Requests : RequestStep(r)
  BY <1>2, RequestStepPreserves
<1>3. CASE Shutdown
  BY <1>3, ShutdownPreserves
<1>4. CASE AllAnswered \/ UNCHANGED vars
  BY <1>4, StutterPreserves DEF AllAnswered
<1> QED
  BY <1>1, <1>2, <1>3, <1>4 DEF Next

-----------------------------------------------------------------------------
(* The invariant holds in every reachable state. *)
THEOREM Invariance == Spec => []IInv
BY InitIInv, NextPreserves, PTL DEF Spec

(* Every variable keeps its type: no counter goes below zero, on whatever  *)
(* path and however often a lease is released.                             *)
THEOREM TypeCorrect == Spec => []TypeOK
<1>1. IInv => TypeOK
  BY DEF IInv
<1> QED
  BY <1>1, Invariance, PTL

(* The counters count the registered leases and the active flags mark the  *)
(* slots they hold, after any interleaving of releases and shutdowns.      *)
THEOREM ReservationsAgree == Spec => []ReservationsMatchLeases
<1>1. IInv => ReservationsMatchLeases
  BY DEF IInv
<1> QED
  BY <1>1, Invariance, PTL

(* No conversation in use is ever evicted, and the LRU keeps its bound. *)
THEOREM HeldSlotsSafe == Spec => []HeldSlotsStayStored
<1>1. IInv => HeldSlotsStayStored
  BY DEF IInv
<1> QED
  BY <1>1, Invariance, PTL

(* A turn the server answers for still has its lease in the registry. *)
LEMMA OwnedHaveLeases == ASSUME IInv PROVE Owned \in SUBSET leases
BY DEF IInv, Owned, LeaseLife, BeforeRelease, TypeOK

(* Two registered leases never name one conversation. *)
LEMMA LeasesNameDistinctConvs ==
    ASSUME IInv, NEW q \in leases, NEW r \in leases, q # r, lease[q].conv = lease[r].conv
    PROVE  lease[q].conv = Anonymous
<1>1. q \in Requests /\ r \in Requests
  BY DEF IInv, TypeOK
<1>2. lease[q].conv # Anonymous => lease[q].slot = lease[r].slot /\ lease[q].slot # NoSlot
  BY <1>1 DEF IInv, HeldSlotsStayStored, LeaseLife
<1> QED
  BY <1>2 DEF IInv, ReservationsMatchLeases

(* Turns exclude each other, for every value of the limits. *)
THEOREM Exclusion == Spec => []TurnsExclusive
<1>1. ASSUME IInv PROVE TurnsExclusive
  <2>1. leases \in SUBSET Requests /\ Owned \in SUBSET leases
    BY <1>1, OwnedHaveLeases DEF IInv, TypeOK
  <2>2. Cardinality(Owned) <= MaxActiveTurns
    <3>1. IsFiniteSet(leases) /\ Cardinality(leases) \in Nat /\ Cardinality(Owned) \in Nat
      BY <2>1, FiniteSubsets
    <3>2. Cardinality(Owned) <= Cardinality(leases)
      BY <2>1, <3>1, FS_Subset
    <3> QED
      BY <1>1, <3>1, <3>2, LeaseAssumption DEF IInv, ReservationsMatchLeases, WithinLimits
  <2>3. ASSUME NEW p \in Providers
        PROVE Cardinality({r \in Owned : lease[r].provider \in SameAccount(p)}) <= MaxPerProvider
    <3> DEFINE S == {r \in Owned : lease[r].provider \in SameAccount(p)}
    <3>1. Account(p) \in Accounts /\ Agy \notin Accounts
      BY LeaseAssumption, AccountType DEF Accounts, Account
    <3>2. \A r \in leases : lease[r].provider \in Accounts
      BY <1>1 DEF IInv, LeaseLife, TypeOK, Leases
    <3>3. S \in SUBSET LeasesOn(Account(p)) /\ LeasesOn(Account(p)) \in SUBSET Requests
      BY <2>1, <3>1, <3>2 DEF LeasesOn, SameAccount, Account
    <3>4. /\ IsFiniteSet(LeasesOn(Account(p))) /\ Cardinality(LeasesOn(Account(p))) \in Nat
          /\ Cardinality(S) \in Nat
      <4>1. S \in SUBSET Requests
        BY <3>3
      <4> QED
        BY <3>3, <4>1, FiniteSubsets
    <3>5. Cardinality(S) <= Cardinality(LeasesOn(Account(p)))
      BY <3>3, <3>4, FS_Subset
    <3> QED
      BY <1>1, <3>1, <3>4, <3>5, LeaseAssumption DEF IInv, ReservationsMatchLeases, WithinLimits
  <2>4. ASSUME NEW q \in Owned, NEW r \in Owned, lease[q].conv = lease[r].conv, q # r
        PROVE lease[q].conv = Anonymous
    BY <1>1, <2>1, <2>4, LeasesNameDistinctConvs
  <2> QED
    BY <2>2, <2>3, <2>4 DEF TurnsExclusive
<1> QED
  BY <1>1, Invariance, PTL

-----------------------------------------------------------------------------
(* Refinement.  The turns that ExclusiveTurns sees, computed from the leases. *)
Mapped == [r \in Requests |->
             IF r \in Owned THEN [conv |-> lease[r].conv, provider |-> lease[r].provider]
             ELSE NoLease]

(* A request is in a turn of the abstract specification exactly when it is *)
(* in Owned.                                                               *)
LEMMA MappedTurns ==
    ASSUME IInv
    PROVE  /\ Owned \in SUBSET Requests
           /\ \A r \in Owned : /\ Mapped[r] = [conv |-> lease[r].conv,
                                               provider |-> lease[r].provider]
                               /\ Mapped[r] # NoLease
                               /\ lease[r].conv \in Convs \cup {Anonymous}
                               /\ lease[r].provider \in Accounts
           /\ \A r \in Requests \ Owned : Mapped[r] = NoLease
           /\ Abstract!InTurn = Owned
           /\ \A p : Abstract!OnAccount(p) \in SUBSET LeasesOn(p)
<1>1. Owned \in SUBSET leases /\ leases \in SUBSET Requests
  BY OwnedHaveLeases DEF IInv, TypeOK
<1>2. \A r \in Owned : lease[r] \in Leases
  BY <1>1 DEF IInv, TypeOK, LeaseLife
<1>3. \A r \in Owned : /\ lease[r].conv \in Convs \cup {Anonymous}
                       /\ lease[r].provider \in Accounts
  BY <1>2 DEF Leases
<1>4. \A r \in Owned : /\ Mapped[r] = [conv |-> lease[r].conv,
                                       provider |-> lease[r].provider]
                       /\ Mapped[r] # NoLease
  BY <1>1, <1>3, LeaseAssumption DEF Mapped
<1>5. \A r \in Requests \ Owned : Mapped[r] = NoLease
  BY DEF Mapped
<1>6. Abstract!InTurn = {r \in Requests : Mapped[r] # NoLease}
  BY DEF Abstract!InTurn, Mapped
<1>7. Abstract!InTurn = Owned
  BY <1>1, <1>4, <1>5, <1>6
<1>8. ASSUME NEW p PROVE Abstract!OnAccount(p) \in SUBSET LeasesOn(p)
  <2>1. Abstract!OnAccount(p) = {r \in Abstract!InTurn : Mapped[r].provider = p}
    BY DEF Abstract!OnAccount, Mapped
  <2>2. \A r \in Owned : Mapped[r].provider = lease[r].provider
    BY <1>1 DEF Mapped
  <2> QED
    BY <1>1, <1>7, <2>1, <2>2 DEF LeasesOn
<1> QED
  BY <1>1, <1>3, <1>4, <1>5, <1>7, <1>8

(* Counting is the same function on both sides of the instance. *)
LEMMA SameCardinality == \A S : Abstract!Cardinality(S) = Cardinality(S)
BY DEF Abstract!Cardinality, Cardinality, Abstract!IsFiniteSet, IsFiniteSet

(* A step that starts r's provider turn begins a turn, or is invisible     *)
(* because a shutdown has disowned r.                                      *)
LEMMA StartRefines ==
    ASSUME IInv, NEW r \in Requests, pc[r] \in {"leased", "serving"},
           turns' = turns \cup {r}, UNCHANGED <<lease, revoked>>
    PROVE  Abstract!Next \/ UNCHANGED Mapped
<1>1. r \notin turns /\ r \notin Owned /\ r \in leases \cup revoked
  BY DEF IInv, LeaseLife, BeforeRelease, Owned
<1>2. CASE r \in revoked
  <2>1. Owned' = Owned
    BY <1>2 DEF Owned
  <2> QED
    BY <2>1 DEF Mapped
<1>3. CASE r \in leases /\ r \notin revoked
  <2>2. PICK u \in Convs \cup {Anonymous}, p \in Accounts :
               u = lease[r].conv /\ p = lease[r].provider
    BY <1>3 DEF IInv, LeaseLife, TypeOK, Leases
  <2>1. Owned' = Owned \cup {r}
    BY <1>3 DEF Owned
  <2>3. leases \in SUBSET Requests /\ Owned \in SUBSET (leases \ {r})
    BY <1>1, OwnedHaveLeases DEF IInv, TypeOK
  <2>4. Cardinality(Abstract!InTurn) < MaxActiveTurns
    <3>1. /\ IsFiniteSet(leases) /\ Cardinality(leases) \in Nat
          /\ IsFiniteSet(leases \ {r}) /\ Cardinality(Owned) \in Nat
      BY <2>3, FiniteSubsets
    <3>2. Cardinality(leases \ {r}) = Cardinality(leases) - 1
      BY <1>3, <3>1, FS_RemoveElement
    <3>3. Cardinality(Owned) <= Cardinality(leases \ {r})
      BY <2>3, <3>1, FS_Subset
    <3>4. Cardinality(leases) <= MaxActiveTurns
      BY DEF IInv, ReservationsMatchLeases, WithinLimits
    <3> QED
      BY <3>1, <3>2, <3>3, <3>4, MappedTurns, LeaseAssumption
  <2>5. Cardinality(Abstract!OnAccount(p)) < MaxPerProvider
    <3>1. /\ Abstract!OnAccount(p) \in SUBSET (LeasesOn(p) \ {r})
          /\ LeasesOn(p) \in SUBSET Requests /\ r \in LeasesOn(p)
      BY <1>1, <1>3, <2>2, <2>3, MappedTurns DEF LeasesOn, Abstract!OnAccount
    <3>2. /\ IsFiniteSet(LeasesOn(p)) /\ Cardinality(LeasesOn(p)) \in Nat
          /\ IsFiniteSet(LeasesOn(p) \ {r}) /\ Cardinality(Abstract!OnAccount(p)) \in Nat
      <4>1. LeasesOn(p) \ {r} \in SUBSET Requests /\ Abstract!OnAccount(p) \in SUBSET Requests
        BY <3>1
      <4> QED
        BY <3>1, <4>1, FiniteSubsets
    <3>3. Cardinality(LeasesOn(p) \ {r}) = Cardinality(LeasesOn(p)) - 1
      BY <3>1, <3>2, FS_RemoveElement
    <3>4. Cardinality(Abstract!OnAccount(p)) <= Cardinality(LeasesOn(p) \ {r})
      BY <3>1, <3>2, FS_Subset
    <3>5. Cardinality(LeasesOn(p)) <= MaxPerProvider
      BY <2>2 DEF IInv, ReservationsMatchLeases, WithinLimits
    <3> QED
      BY <3>2, <3>3, <3>4, <3>5, LeaseAssumption
  <2>6. u # Anonymous => \A q \in Abstract!InTurn : Mapped[q].conv # u
    <3>1. \A q \in Owned : q \in leases /\ q # r /\ Mapped[q].conv = lease[q].conv
      <4>1. \A q \in Owned : Mapped[q].conv = lease[q].conv
        BY <2>3 DEF Mapped
      <4> QED
        BY <2>3, <4>1
    <3>2. \A q \in leases : q # r /\ lease[q].conv = u => u = Anonymous
      BY <1>3, <2>2, LeasesNameDistinctConvs
    <3> QED
      BY <3>1, <3>2, MappedTurns
  <2>7. Mapped[r] = NoLease
    BY <1>1 DEF Mapped
  <2>8. Mapped' = [Mapped EXCEPT ![r] = [conv |-> u, provider |-> p]]
    BY <2>1, <2>2 DEF Mapped
  <2>9. Abstract!Begin(r, u, p)
    BY <2>4, <2>5, <2>6, <2>7, <2>8, SameCardinality DEF Abstract!Begin, Mapped
  <2> QED
    BY <2>9 DEF Abstract!Next
<1> QED
  BY <1>1, <1>2, <1>3

(* A step after which r's provider turn does not run ends a turn, or is    *)
(* invisible.                                                              *)
LEMMA StopRefines ==
    ASSUME IInv, NEW r \in Requests, turns' = turns \ {r}, UNCHANGED <<lease, revoked>>
    PROVE  Abstract!Next \/ UNCHANGED Mapped
<1>1. Owned' = Owned \ {r}
  BY DEF Owned
<1>2. CASE r \in Owned
  <2>1. Mapped[r] # NoLease /\ Mapped' = [Mapped EXCEPT ![r] = NoLease]
    BY <1>1, <1>2, MappedTurns DEF Mapped
  <2>2. Abstract!End(r)
    BY <2>1 DEF Abstract!End, Mapped
  <2> QED
    BY <2>2 DEF Abstract!Next
<1>3. CASE r \notin Owned
  <2>1. Owned' = Owned
    BY <1>1, <1>3
  <2> QED
    BY <2>1 DEF Mapped
<1> QED
  BY <1>2, <1>3

(* A step that leaves the owned turns and the leases they name alone is    *)
(* invisible.                                                              *)
LEMMA OtherStepsInvisible ==
    ASSUME IInv, Owned' = Owned,
           \A q \in Owned : /\ lease'[q].conv = lease[q].conv
                            /\ lease'[q].provider = lease[q].provider
    PROVE  UNCHANGED Mapped
BY DEF Mapped

(* A lease whose request is in no turn may change unseen. *)
LEMMA LeaseOfNoTurnInvisible ==
    ASSUME IInv, NEW r \in Requests, r \notin turns, turns' = turns,
           revoked' \ {r} = revoked \ {r},
           \A q \in Requests \ {r} : lease'[q] = lease[q]
    PROVE  UNCHANGED Mapped
<1>1. Owned' = Owned /\ \A q \in Owned : q \in Requests \ {r}
  BY DEF Owned, IInv, TypeOK
<1> QED
  BY <1>1, OtherStepsInvisible

LEMMA RequestStepRefines ==
    ASSUME IInv, NEW r \in Requests, RequestStep(r)
    PROVE  Abstract!Next \/ UNCHANGED Mapped
<1> USE DEF Goto, Untouched
<1>1. CASE StartSend(r) \/ StartStream(r)
  BY <1>1, StartRefines DEF StartSend, StartStream
<1>2. CASE SendEnds(r) \/ TurnEnds(r) \/ CloseUpstream(r)
  BY <1>2, StopRefines DEF SendEnds, TurnEnds, CloseUpstream
<1>3. CASE BuildResponse(r) \/ Abandon(r) \/ Serve(r) \/ LeaveUnstarted(r) \/ LeaveLoop(r)
  BY <1>3, OtherStepsInvisible
     DEF BuildResponse, Abandon, Serve, LeaveUnstarted, LeaveLoop, Owned
<1>4. CASE SendReleases(r) \/ BuildFails(r) \/ FinishReleases(r)
  <2>1. ReleaseAndReturn(r) /\ r \notin turns
    BY <1>4 DEF SendReleases, BuildFails, FinishReleases, IInv, LeaseLife
  <2> QED
    BY <2>1, LeaseOfNoTurnInvisible DEF ReleaseAndReturn, IInv, TypeOK
<1>5. CASE GenReleases(r)
  <2>1. r \notin turns
    BY <1>5 DEF GenReleases, IInv, LeaseLife
  <2> QED
    BY <1>5, <2>1, LeaseOfNoTurnInvisible DEF GenReleases, IInv, TypeOK
<1> QED
  BY <1>1, <1>2, <1>3, <1>4, <1>5 DEF RequestStep

LEMMA NextRefines == IInv /\ [Next]_vars => [Abstract!Next]_Mapped
<1> SUFFICES ASSUME IInv, [Next]_vars PROVE Abstract!Next \/ UNCHANGED Mapped
  OBVIOUS
<1>1. ASSUME NEW r \in Requests, NEW u \in Convs \cup {Anonymous}, NEW name \in Providers,
             Acquire(r, u, name)
      PROVE  UNCHANGED Mapped
  <2>1. r \notin turns /\ \A q \in Requests \ {r} : lease'[q] = lease[q]
    BY <1>1 DEF Acquire, PlaceConversation, Reserve, IInv, LeaseLife, TypeOK
  <2> QED
    BY <1>1, <2>1, LeaseOfNoTurnInvisible DEF Acquire
<1>2. ASSUME NEW r \in Requests, NEW u \in Convs \cup {Anonymous}, NEW name \in Providers,
             Refuse(r, u, name)
      PROVE  UNCHANGED Mapped
  BY <1>2, OtherStepsInvisible DEF Refuse, Owned
<1>3. CASE \E r \in Requests : RequestStep(r)
  BY <1>3, RequestStepRefines
<1>4. CASE Shutdown
  <2>1. Owned' = {}
    BY <1>4, OwnedHaveLeases DEF Shutdown, Owned
  <2>2. Mapped' = [r \in Requests |-> NoLease]
    BY <2>1 DEF Mapped
  <2>3. Abstract!EndOfService
    BY <2>2 DEF Abstract!EndOfService, Mapped
  <2> QED
    BY <2>3 DEF Abstract!Next
<1>5. CASE AllAnswered \/ UNCHANGED vars
  BY <1>5, OtherStepsInvisible DEF AllAnswered, vars, Owned
<1> QED
  BY <1>1, <1>2, <1>3, <1>4, <1>5 DEF Next

LEMMA InitRefines == Init => Abstract!Init
BY DEF Init, Abstract!Init, Owned

(* The lease machinery of the server implements the exclusive use of       *)
(* conversations, provider accounts and the server itself.                 *)
THEOREM Refinement == Spec => ImplementsExclusiveTurns
<1>1. IInv /\ [Next]_vars =>
        [Abstract!Next]_[r \in Requests |->
             IF r \in Owned THEN [conv |-> lease[r].conv, provider |-> lease[r].provider]
             ELSE NoLease]
  BY NextRefines DEF Mapped
<1> QED
  BY <1>1, InitRefines, Invariance, PTL DEF Spec, ImplementsExclusiveTurns, Abstract!Spec
=============================================================================
