---------------------------- MODULE ServerLeases ----------------------------
(***************************************************************************)
(* Conversation leases of the OpenAI-compatible server (server.py): what a *)
(* POST /v1/chat/completions reserves, how the reservation follows the     *)
(* request through the plain and the streaming path, and how it is given   *)
(* back exactly once whichever way the response ends.                      *)
(*                                                                         *)
(* Requests run on threadpool threads and on the event loop; every action  *)
(* below is one critical section of _CONVS_LOCK, or one step of a thread   *)
(* between two of them.  A slot object is named by the request whose       *)
(* acquisition created it, so that a slot evicted from CONVS and a later   *)
(* slot for the same conversation id stay different objects.               *)
(***************************************************************************)
EXTENDS Naturals, FiniteSets

CONSTANTS Requests,         \* requests, each handled once
          Convs,            \* values of the request's "user" field
          Anonymous,        \* the request has no "user"
          Providers,        \* provider names a model can be routed to
          Agy, Gemini,      \* the compatibility name and the account it stands for
          NoSlot, NoLease,  \* None
          MaxConvs,         \* _MAX_CONVS
          MaxActiveTurns,   \* _MAX_ACTIVE_TURNS
          MaxPerProvider    \* _MAX_ACTIVE_TURNS_PER_PROVIDER

VARIABLES
    convs,          \* CONVS: conversation id -> slot
    older,          \* CONVS' order: <<c, d>> when c is nearer to eviction than d
    slotActive,     \* the slots whose "active" flag is set
    activeTurns,    \* _ACTIVE_TURNS
    providerTurns,  \* _ACTIVE_PROVIDER_TURNS, 0 for an absent key
    leases,         \* _ACTIVE_LEASES: the leases not yet given back
    lease,          \* lease[r]: the _ConversationLease of r, while r is handled
    pc,             \* where the handling of r stands
    turns,          \* requests whose provider turn is running (send, or an open stream)
    revoked         \* history: requests whose lease a shutdown took away

stored == <<convs, older>>
reservations == <<slotActive, activeTurns, providerTurns, leases>>
vars == <<convs, older, slotActive, activeTurns, providerTurns, leases, lease,
          pc, turns, revoked>>

(* _canonical_server_provider: both names of the account count as one. *)
Account(name) == IF name = Agy THEN Gemini ELSE name

Accounts == {Account(name) : name \in Providers}

Leases == [conv : Convs \cup {Anonymous}, provider : Accounts,
           slot : Requests \cup {NoSlot}, released : BOOLEAN]

ASSUME LeaseAssumption ==
    /\ IsFiniteSet(Requests) /\ IsFiniteSet(Convs)
    /\ NoSlot \notin Requests
    /\ NoLease \notin Leases
    /\ NoLease \notin [conv : Convs \cup {Anonymous}, provider : Accounts]
    /\ Anonymous \notin Convs
    /\ Agy # Gemini /\ Gemini \in Providers
    /\ MaxConvs \in Nat \ {0}
    /\ MaxActiveTurns \in Nat \ {0}
    /\ MaxPerProvider \in Nat \ {0}

(* idle: not yet reserved; leased: _acquire_conversation returned;         *)
(* sending, sent: the plain path, conv.send running or over;               *)
(* ready: a streaming response built but not entered; serving: entered,    *)
(* its generator not started; looping, closing, closed: gen() in its loop, *)
(* in its finally before and after upstream.close();                       *)
(* finishing: cleanup.finish about to release; done: nothing left to do.   *)
Places == {"idle", "leased", "sending", "sent", "ready", "serving",
           "looping", "closing", "closed", "finishing", "done"}

TypeOK ==
    /\ convs \in [Convs -> Requests \cup {NoSlot}]
    /\ older \in SUBSET (Convs \X Convs)
    /\ slotActive \in SUBSET Requests
    /\ activeTurns \in Nat
    /\ providerTurns \in [Accounts -> Nat]
    /\ leases \in SUBSET Requests
    /\ lease \in [Requests -> Leases \cup {NoLease}]
    /\ pc \in [Requests -> Places]
    /\ turns \in SUBSET Requests
    /\ revoked \in SUBSET Requests

Init ==
    /\ convs = [c \in Convs |-> NoSlot]
    /\ older = {}
    /\ slotActive = {}
    /\ activeTurns = 0
    /\ providerTurns = [p \in Accounts |-> 0]
    /\ leases = {}
    /\ lease = [r \in Requests |-> NoLease]
    /\ pc = [r \in Requests |-> "idle"]
    /\ turns = {}
    /\ revoked = {}

-----------------------------------------------------------------------------
(* Acquisition: _acquire_conversation, one critical section. *)

Stored == {c \in Convs : convs[c] # NoSlot}

Idle == {c \in Stored : convs[c] \notin slotActive}

(* Mutant: the 409 check of _acquire_conversation is dropped. *)
NeverBusy(u) == FALSE

ConversationBusy(u) == u # Anonymous /\ u \in Stored \ Idle

(* Mutant: the eviction takes the oldest conversation, active or not. *)
EvictionsOfAny ==
    IF Cardinality(Stored) < MaxConvs
    THEN {{}}
    ELSE {{c} : c \in {d \in Stored : \A e \in Stored \ {d} : <<e, d>> \notin older}}

(* _evict_idle_until_room_locked: the sets of conversations one call may  *)
(* delete.  CONVS never exceeds MaxConvs, so the loop deletes one entry   *)
(* at most, the oldest idle one; no choice: every entry is active.        *)
Evictions ==
    IF Cardinality(Stored) < MaxConvs
    THEN {{}}
    ELSE {{c} : c \in {d \in Idle : \A e \in Idle \ {d} : <<e, d>> \notin older}}

(* move_to_end, and the append of a new key: u becomes the youngest. *)
Youngest(u, kept) ==
    {pair \in older : pair[1] \in kept \ {u} /\ pair[2] \in kept \ {u}}
        \cup {<<c, u>> : c \in kept \ {u}}

Reserve(r, u, p, slot) ==
    /\ slotActive' = slotActive \cup ({slot} \ {NoSlot})
    /\ activeTurns' = activeTurns + 1
    /\ providerTurns' = [providerTurns EXCEPT ![p] = @ + 1]
    /\ lease' = [lease EXCEPT ![r] = [conv |-> u, provider |-> p,
                                      slot |-> slot, released |-> FALSE]]
    /\ leases' = leases \cup {r}

(* The conversation's slot: the stored one, a new one, or none at all. *)
PlaceConversation(r, u, p) ==
    \/ /\ u = Anonymous
       /\ Reserve(r, u, p, NoSlot)
       /\ UNCHANGED <<convs, older>>
    \/ /\ u \in Stored
       /\ Reserve(r, u, p, convs[u])
       /\ older' = Youngest(u, Stored)
       /\ UNCHANGED convs
    \/ /\ u \in Convs \ Stored
       /\ \E evicted \in Evictions :
            /\ convs' = [c \in Convs |-> IF c = u THEN r
                                         ELSE IF c \in evicted THEN NoSlot
                                         ELSE convs[c]]
            /\ older' = Youngest(u, Stored \ evicted)
       /\ Reserve(r, u, p, r)

MayAcquire(u, p) ==
    /\ ~ConversationBusy(u)
    /\ activeTurns < MaxActiveTurns
    /\ providerTurns[p] < MaxPerProvider

Acquire(r, u, name) ==
    /\ pc[r] = "idle"
    /\ MayAcquire(u, Account(name))
    /\ PlaceConversation(r, u, Account(name))
    /\ pc' = [pc EXCEPT ![r] = "leased"]
    /\ UNCHANGED <<turns, revoked>>

(* 409 conversation_busy, 429 server_busy or provider_busy, 503            *)
(* conversation_capacity: the request ends and reserves nothing.           *)
Refuse(r, u, name) ==
    /\ pc[r] = "idle"
    /\ \/ ~MayAcquire(u, Account(name))
       \/ u \in Convs \ Stored /\ Evictions = {}
    /\ pc' = [pc EXCEPT ![r] = "done"]
    /\ UNCHANGED <<stored, reservations, lease, turns, revoked>>

-----------------------------------------------------------------------------
(* Mutant: release() without its _released check. *)
ReleaseEachTime(r) ==
    /\ slotActive' = slotActive \ {lease[r].slot}
    /\ activeTurns' = IF activeTurns > 0 THEN activeTurns - 1 ELSE activeTurns
    /\ providerTurns' =
           [providerTurns EXCEPT ![lease[r].provider] = IF @ <= 1 THEN 0 ELSE @ - 1]
    /\ leases' = leases \ {r}

(* Mutant: neither the _released check nor the floor at zero. *)
ReleaseUnclamped(r) ==
    /\ slotActive' = slotActive \ {lease[r].slot}
    /\ activeTurns' = activeTurns - 1
    /\ providerTurns' = [providerTurns EXCEPT ![lease[r].provider] = @ - 1]
    /\ leases' = leases \ {r}

(* _ConversationLease.release, one critical section: what it frees, unless *)
(* the lease has been given back before.                                   *)
Release(r) ==
    IF lease[r].released
    THEN UNCHANGED reservations
    ELSE /\ slotActive' = slotActive \ {lease[r].slot}
         /\ activeTurns' = IF activeTurns > 0 THEN activeTurns - 1 ELSE activeTurns
         /\ providerTurns' =
                [providerTurns EXCEPT ![lease[r].provider] = IF @ <= 1 THEN 0 ELSE @ - 1]
         /\ leases' = leases \ {r}

(* The last release of a request: its lease object goes with it. *)
ReleaseAndReturn(r) ==
    /\ Release(r)
    /\ lease' = [lease EXCEPT ![r] = NoLease]
    /\ pc' = [pc EXCEPT ![r] = "done"]
    /\ revoked' = revoked \ {r}
    /\ UNCHANGED <<stored, turns>>

(* _release_all_conversation_leases, when the ASGI lifespan ends.  It does *)
(* not wait for the requests: their threads run on with a revoked lease.   *)
(* With no lease out it changes nothing.                                   *)
Shutdown ==
    /\ leases # {}
    /\ lease' = [r \in Requests |-> IF r \in leases THEN [lease[r] EXCEPT !.released = TRUE]
                                    ELSE lease[r]]
    /\ slotActive' = slotActive \ {lease[r].slot : r \in leases}
    /\ activeTurns' = 0
    /\ providerTurns' = [p \in Accounts |-> 0]
    /\ leases' = {}
    /\ revoked' = revoked \cup leases
    /\ UNCHANGED <<stored, pc, turns>>

-----------------------------------------------------------------------------
Goto(r, from, to) == pc[r] = from /\ pc' = [pc EXCEPT ![r] = to]

Untouched == UNCHANGED <<stored, reservations, lease, revoked>>

(* The plain path: conv.send, then the endpoint's finally. *)
StartSend(r) == Goto(r, "leased", "sending") /\ turns' = turns \cup {r} /\ Untouched

(* conv.send returns or raises: either way the provider turn is over. *)
SendEnds(r) == Goto(r, "sending", "sent") /\ turns' = turns \ {r} /\ Untouched

SendReleases(r) == pc[r] = "sent" /\ ReleaseAndReturn(r)

(* The streaming path: the response owns the lease from its construction. *)
BuildResponse(r) == Goto(r, "leased", "ready") /\ UNCHANGED turns /\ Untouched

(* _LeasedStreamingResponse.__init__ raises: closing the generator, which  *)
(* has not started, runs none of its code; the lease is given back here.   *)
BuildFails(r) == pc[r] = "leased" /\ ReleaseAndReturn(r)

(* Mutant: no finalizer on a response that never enters ASGI. *)
AbandonLeaks(r) == Goto(r, "ready", "done") /\ UNCHANGED turns /\ Untouched

(* The response is collected without entering ASGI: its finalizer runs     *)
(* cleanup.finish, and closing the unstarted generator again runs nothing. *)
Abandon(r) == Goto(r, "ready", "finishing") /\ UNCHANGED turns /\ Untouched

Serve(r) == Goto(r, "ready", "serving") /\ UNCHANGED turns /\ Untouched

(* The client is gone before the first next(). *)
LeaveUnstarted(r) == Goto(r, "serving", "finishing") /\ UNCHANGED turns /\ Untouched

(* The first next(): gen() opens conv.stream. *)
StartStream(r) == Goto(r, "serving", "looping") /\ turns' = turns \cup {r} /\ Untouched

(* The upstream is exhausted or raises: the provider turn is over, while   *)
(* gen() may still yield an error line from inside its try.                *)
TurnEnds(r) ==
    /\ pc[r] = "looping" /\ r \in turns
    /\ turns' = turns \ {r}
    /\ UNCHANGED pc /\ Untouched

(* Mutant: the two steps of gen()'s finally swapped, release before close. *)
LeaveLoopReleasing(r) ==
    /\ Goto(r, "looping", "closing")
    /\ Release(r)
    /\ lease' = [lease EXCEPT ![r].released = TRUE]
    /\ UNCHANGED <<stored, turns, revoked>>

(* gen() enters its finally: the turn is over; or it is still running, at  *)
(* the response ceiling, after an error event, or because the client left  *)
(* between two next() calls and cleanup.finish closes the generator.  A    *)
(* next() in flight is waited for before that, so close() finds the        *)
(* generator suspended.                                                    *)
LeaveLoop(r) == Goto(r, "looping", "closing") /\ UNCHANGED turns /\ Untouched

(* Closing the upstream ends the provider process ...                      *)
CloseUpstream(r) == Goto(r, "closing", "closed") /\ turns' = turns \ {r} /\ Untouched

(* ... and only then is the lease given back.                              *)
GenReleases(r) ==
    /\ Goto(r, "closed", "finishing")
    /\ Release(r)
    /\ lease' = [lease EXCEPT ![r].released = TRUE]
    /\ UNCHANGED <<stored, turns, revoked>>

(* cleanup.finish releases when content.close() has returned: for the      *)
(* second time, unless the generator never started.                        *)
FinishReleases(r) == pc[r] = "finishing" /\ ReleaseAndReturn(r)

-----------------------------------------------------------------------------
(* Every request has been answered. *)
AllAnswered == (\A r \in Requests : pc[r] = "done") /\ UNCHANGED vars

RequestStep(r) ==
    \/ StartSend(r) \/ SendEnds(r) \/ SendReleases(r)
    \/ BuildResponse(r) \/ BuildFails(r) \/ Abandon(r) \/ Serve(r) \/ LeaveUnstarted(r)
    \/ StartStream(r) \/ TurnEnds(r) \/ LeaveLoop(r) \/ CloseUpstream(r)
    \/ GenReleases(r) \/ FinishReleases(r)

Next ==
    \/ \E r \in Requests, u \in Convs \cup {Anonymous}, name \in Providers :
         Acquire(r, u, name) \/ Refuse(r, u, name)
    \/ \E r \in Requests : RequestStep(r)
    \/ Shutdown
    \/ AllAnswered

Spec == Init /\ [][Next]_vars

(* Each accepted request keeps running: threads are scheduled, provider    *)
(* turns are bounded by a timeout, and a response is entered or collected. *)
(* Nothing makes a client send a request or the server shut down.          *)
FairSpec == Spec /\ \A r \in Requests : WF_vars(RequestStep(r))

-----------------------------------------------------------------------------
(* Properties *)

(* The turns the running server answers for: a shutdown disowns the rest. *)
Owned == turns \ revoked

(* "agy" and "gemini" are one account whatever the lease calls it. *)
SameAccount(p) == IF p \in {Agy, Gemini} THEN {Agy, Gemini} ELSE {p}

(* Provider turns exclude each other: never more than MaxActiveTurns run,  *)
(* never more than MaxPerProvider on one account under either of its       *)
(* names, and a stored conversation is in one turn at a time.  It breaks   *)
(* when a lease is given back, or not taken, while a turn still runs.      *)
TurnsExclusive ==
    /\ Cardinality(Owned) <= MaxActiveTurns
    /\ \A p \in Providers :
         Cardinality({r \in Owned : lease[r].provider \in SameAccount(p)}) <= MaxPerProvider
    /\ \A q, r \in Owned :
         lease[q].conv = lease[r].conv /\ q # r => lease[q].conv = Anonymous

LeasesOn(p) == {r \in leases : lease[r].provider = p}

(* The three reservation records tell one story: the counters count the    *)
(* leases in the registry, a slot is active exactly while a registered     *)
(* lease holds it, and no two registered leases hold one slot.  It breaks  *)
(* when one exit path gives a lease back twice or a shutdown is followed   *)
(* by a late release.                                                      *)
ReservationsMatchLeases ==
    /\ activeTurns = Cardinality(leases)
    /\ \A p \in Accounts : providerTurns[p] = Cardinality(LeasesOn(p))
    /\ slotActive = {lease[r].slot : r \in leases} \ {NoSlot}
    /\ \A q, r \in leases : lease[q].slot = lease[r].slot /\ q # r => lease[q].slot = NoSlot

(* The LRU stays within its bound and never evicts a conversation that is  *)
(* in use: a held slot is the one CONVS stores for its conversation.       *)
HeldSlotsStayStored ==
    /\ Cardinality(Stored) <= MaxConvs
    /\ \A r \in leases : lease[r].conv # Anonymous => convs[lease[r].conv] = lease[r].slot

(* Leases, slots and counters implement the server's promise about turns:  *)
(* a turn begins only where ExclusiveTurns lets it, however late the       *)
(* stream's first next() comes after the acquisition.                      *)
Abstract == INSTANCE ExclusiveTurns WITH
    NoTurn <- NoLease,
    turn <- [r \in Requests |->
               IF r \in Owned THEN [conv |-> lease[r].conv, provider |-> lease[r].provider]
               ELSE NoLease]

ImplementsExclusiveTurns == Abstract!Spec

(* Whatever way a response ends, its lease is given back: completion,      *)
(* provider error, response ceiling, client disconnect, failed or          *)
(* abandoned response.                                                     *)
LeasesReturn == \A r \in Requests : r \in leases ~> r \notin leases
=============================================================================
