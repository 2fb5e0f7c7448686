---------------------------- MODULE ManageVerify ----------------------------
(***************************************************************************)
(* Verification of one provider by the browser management runtime          *)
(* (manage.py, ManageRuntime.verify_provider): callers on threadpool       *)
(* threads share verification "flights", results are cached per binary     *)
(* identity with a time to live, and invalidation, a replaced binary and   *)
(* disable() fence what is still in flight.                                *)
(*                                                                         *)
(* Every action is one critical section of ManageRuntime._lock, or one     *)
(* look outside it at the binary on disk.  A flight is named by the caller *)
(* that owns it; a call owns one flight at most.                           *)
(***************************************************************************)
EXTENDS Naturals, FiniteSets

CONSTANTS Callers,      \* calls of verify_provider, each made once
          Binaries,     \* identities an installed executable can have
          Missing,      \* the identity None: no executable on PATH
          Unseen,       \* no identity observed yet
          None,         \* the value None
          HasAuth,      \* the provider has an authentication probe
          VersionTTL,   \* VERIFY_VERSION_TTL_SECONDS
          AuthTTL,      \* VERIFY_AUTH_TTL_SECONDS
          MaxEvents,    \* bound: replacements of the binary and invalidations
          MaxClock      \* bound: the clock

VARIABLES
    clock,          \* time.monotonic()
    binary,         \* the executable now on PATH
    events,         \* replacements and invalidations so far
    seen,           \* _provider_identities["verify", provider]
    generation,     \* _verify_generations[provider]
    versionCache,   \* _version_cache: identity -> entry
    authCache,      \* _auth_cache: identity -> entry
    disabled,       \* _disabled
    registry,       \* _verify_flights, by owner
    flight,         \* flight[c]: the _ManageVerifyFlight that c's call created
    call,           \* call[c]: the local variables of c's call
    pc,             \* where c's call stands
    outcome         \* outcome[c]: "verified", or the error that c's call raised

caches == <<versionCache, authCache>>
world == <<clock, binary, events>>
vars == <<clock, binary, events, seen, generation, versionCache, authCache, disabled,
          registry, flight, call, pc, outcome>>

ASSUME VerifyAssumption ==
    /\ Missing \notin Binaries
    /\ Unseen \notin Binaries \cup {Missing}
    /\ None \notin Callers
    /\ HasAuth \in BOOLEAN
    /\ VersionTTL \in Nat \ {0} /\ AuthTTL \in Nat \ {0}
    /\ MaxEvents \in Nat /\ MaxClock \in Nat

Identities == Binaries \cup {Missing}
Errors == {"none", "manage_disabled", "verify_busy", "verify_failed"}
Outcomes == {"ok", "failed", "missing_binary", "binary_changed"}

(* One probe's result: its code, the generation it was obtained in and     *)
(* when it first entered the cache (when it was obtained, until then).     *)
Probed == [code : Outcomes, gen : Nat, since : Nat]

(* A cache entry; own is history: its writer had run the probe itself. *)
Entries == [probe : Probed, expires : Nat, own : BOOLEAN]

Records == Probed \cup {None}
Results == [version : Records, auth : Records]

Flights == [gen : Nat, context : Identities, force : BOOLEAN, done : BOOLEAN,
            error : Errors, result : Results \cup {None}, committed : BOOLEAN]

ASSUME NoFlightAssumption == None \notin Flights \cup Probed

(* identity .. generation: the locals of the same names; found: the last   *)
(* identity read; target: the flight joined or waited for.                 *)
Locals == [force : BOOLEAN, identity : Identities, found : Identities,
           version : Records, auth : Records, need : SUBSET {"version", "auth"},
           gen : Nat, target : Callers \cup {None}]

(* begin: at the head of the loop; probed, observed: before and after      *)
(* _observe_binary; lookup: about to read the caches; choose: about to     *)
(* join, wait or own; joined, waiting: blocked on target's event; version, *)
(* auth: about to probe; recheck, compare, changed: re-reading the binary; *)
(* commit; finish: in the finally clause.                                  *)
Places == {"idle", "begin", "probed", "observed", "lookup", "choose", "joined", "waiting",
           "version", "auth", "recheck", "compare", "changed", "commit", "finish", "done"}

Empty == [i \in Identities |-> None]

NoCall == [force |-> FALSE, identity |-> Missing, found |-> Missing, version |-> None,
           auth |-> None, need |-> {}, gen |-> 0, target |-> None]

TypeOK ==
    /\ clock \in 0 .. MaxClock
    /\ binary \in Identities
    /\ events \in 0 .. MaxEvents
    /\ seen \in Identities \cup {Unseen}
    /\ generation \in Nat
    /\ \A i \in Identities : {versionCache[i], authCache[i]} \subseteq Entries \cup {None}
    /\ disabled \in BOOLEAN
    /\ registry \in SUBSET Callers
    /\ flight \in [Callers -> Flights \cup {None}]
    /\ call \in [Callers -> Locals]
    /\ pc \in [Callers -> Places]
    /\ outcome \in [Callers -> Errors \cup {"verified"}]

Init ==
    /\ clock = 0 /\ events = 0
    /\ binary \in Identities
    /\ seen = Unseen
    /\ generation = 0
    /\ versionCache = Empty /\ authCache = Empty
    /\ disabled = FALSE
    /\ registry = {}
    /\ flight = [c \in Callers |-> None]
    /\ call = [c \in Callers |-> NoCall]
    /\ pc = [c \in Callers |-> "idle"]
    /\ outcome = [c \in Callers |-> "none"]

-----------------------------------------------------------------------------
Goto(c, place) == pc' = [pc EXCEPT ![c] = place]

(* The call returns or raises: its locals are gone, but for the history of *)
(* what was asked.                                                         *)
End(c, how) ==
    /\ Goto(c, "done")
    /\ outcome' = [outcome EXCEPT ![c] = how]
    /\ call' = [call EXCEPT ![c] = [NoCall EXCEPT !.force = call[c].force]]

(* _invalidate_verify_cache_locked *)
DropResults ==
    /\ versionCache' = Empty
    /\ authCache' = Empty
    /\ generation' = generation + 1

(* _observe_binary: an identity that differs from the last one observed    *)
(* drops every result of the provider.                                     *)
ObserveBinary(identity) ==
    IF disabled
    THEN UNCHANGED <<seen, generation, caches>>
    ELSE /\ seen' = identity
         /\ IF seen \in {Unseen, identity} THEN UNCHANGED <<generation, caches>>
            ELSE DropResults

(* A call arrives, ordinary or with force_refresh. *)
Call(c, force) ==
    /\ pc[c] = "idle"
    /\ call' = [call EXCEPT ![c].force = force]
    /\ Goto(c, "begin")
    /\ UNCHANGED <<world, seen, generation, caches, disabled, registry, flight, outcome>>

(* The disabled check, then _verify_binary_identity outside the lock. *)
Identify(c) ==
    /\ pc[c] = "begin"
    /\ IF disabled
       THEN End(c, "manage_disabled")
       ELSE /\ call' = [call EXCEPT ![c].identity = binary, ![c].found = binary]
            /\ Goto(c, "probed") /\ UNCHANGED outcome
    /\ UNCHANGED <<world, seen, generation, caches, disabled, registry, flight>>

Observe(c) ==
    /\ pc[c] = "probed"
    /\ ObserveBinary(call[c].found)
    /\ Goto(c, "observed")
    /\ UNCHANGED <<world, disabled, registry, flight, call, outcome>>

(* Only an ordinary call whose binary is still in place reads the caches. *)
CheckCurrent(c) ==
    /\ pc[c] = "observed"
    /\ call' = [call EXCEPT ![c].version = None, ![c].auth = None]
    /\ IF ~call[c].force /\ call[c].identity # Missing /\ call[c].identity = binary
       THEN Goto(c, "lookup") ELSE Goto(c, "choose")
    /\ UNCHANGED <<world, seen, generation, caches, disabled, registry, flight, outcome>>

(* Mutant: the entry is returned with its expiry still around the value. *)
CachedEntry(entry) == IF entry = None \/ clock >= entry.expires THEN None ELSE entry

(* _cache_get, for one entry: its value unless it has expired. *)
Cached(entry) == IF entry = None \/ clock >= entry.expires THEN None ELSE entry.probe

(* What _cache_get leaves of the entry it looked at. *)
Swept(cache, i) == [cache EXCEPT ![i] = IF Cached(@) = None THEN None ELSE @]

Lookup(c) ==
    LET i == call[c].identity
        version == Cached(versionCache[i])
        auth == IF HasAuth THEN Cached(authCache[i]) ELSE None
    IN  /\ pc[c] = "lookup"
        /\ IF disabled
           THEN End(c, "manage_disabled") /\ UNCHANGED caches
           ELSE /\ versionCache' = Swept(versionCache, i)
                /\ authCache' = IF HasAuth THEN Swept(authCache, i) ELSE authCache
                /\ IF version # None /\ (HasAuth => auth # None)
                   THEN End(c, "verified")
                   ELSE /\ call' = [call EXCEPT ![c].version = version, ![c].auth = auth]
                        /\ Goto(c, "choose") /\ UNCHANGED outcome
        /\ UNCHANGED <<world, seen, generation, disabled, registry, flight>>

-----------------------------------------------------------------------------
(* Joining, waiting for, or owning a flight: one critical section, from    *)
(* place "choose".                                                         *)

(* Mutant: disable() does not stop a call that has got this far. *)
OpenAlways == TRUE

Open == ~disabled

SameKey(o) == flight[o].gen = generation

(* Mutant: a forced caller consumes an ordinary flight's result. *)
JoinableByAny(c, o) == SameKey(o) /\ flight[o].context = call[c].identity

Joinable(c, o) ==
    /\ SameKey(o) /\ flight[o].context = call[c].identity
    /\ call[c].force => flight[o].force

Refused(c) ==
    /\ pc[c] = "choose" /\ ~Open
    /\ End(c, "manage_disabled")
    /\ UNCHANGED <<world, seen, generation, caches, disabled, registry, flight>>

Block(c, o, place) ==
    /\ call' = [call EXCEPT ![c].target = o]
    /\ Goto(c, place)
    /\ UNCHANGED <<world, seen, generation, caches, disabled, registry, flight, outcome>>

Join(c) ==
    /\ pc[c] = "choose" /\ Open
    /\ \E o \in registry : Joinable(c, o) /\ Block(c, o, "joined")

(* 429: another context of the same generation is being verified. *)
Busy(c) ==
    /\ pc[c] = "choose" /\ Open
    /\ \E o \in registry : SameKey(o) /\ ~Joinable(c, o)
    /\ ~call[c].force
    /\ End(c, "verify_busy")
    /\ UNCHANGED <<world, seen, generation, caches, disabled, registry, flight>>

(* The active flight belongs to a fenced generation, or would not serve    *)
(* this forced caller: start over when it is done.                         *)
Wait(c) ==
    /\ pc[c] = "choose" /\ Open
    /\ \E o \in registry :
         /\ ~Joinable(c, o)
         /\ call[c].force \/ ~SameKey(o)
         /\ Block(c, o, "waiting")

(* Mutant: only a flight of the current generation keeps a new one away. *)
NoActiveOfThisGeneration(c) == \A o \in registry : ~SameKey(o)

NoActive(c) == registry = {}

(* No flight is active: c owns the next one, in a generation of its own if *)
(* it is forced.                                                           *)
Own(c) ==
    LET locals == call[c]
        gen == IF locals.force THEN generation + 1 ELSE generation
        need == {n \in {"version", "auth"} :
                   /\ locals.force \/ locals[n] = None
                   /\ n = "auth" => HasAuth}
    IN  /\ pc[c] = "choose" /\ Open
        /\ NoActive(c)
        /\ IF locals.force THEN DropResults ELSE UNCHANGED <<generation, caches>>
        /\ call' = [call EXCEPT ![c].gen = gen, ![c].need = need]
        /\ flight' = [flight EXCEPT ![c] =
                        [gen |-> gen, context |-> locals.identity, force |-> locals.force,
                         done |-> FALSE, error |-> "none", result |-> None,
                         committed |-> FALSE]]
        /\ registry' = registry \cup {c}
        /\ Goto(c, IF "version" \in need THEN "version" ELSE "auth")
        /\ UNCHANGED <<world, seen, disabled, outcome>>

-----------------------------------------------------------------------------
(* Callers that do not own their flight. *)

(* _owner_fence_error_locked *)
FenceError(o) ==
    IF flight[o].error = "none" /\ disabled THEN "manage_disabled" ELSE flight[o].error

(* A finished flight that only c still refers to goes when c lets it go. *)
LetGo(flights, c, o) ==
    IF pc[o] = "done" /\ o \notin registry /\ \A d \in Callers \ {c} : call[d].target # o
    THEN [flights EXCEPT ![o] = None] ELSE flights

(* A waiter of the flight takes its outcome. *)
TakeResult(c) ==
    LET o == call[c].target
    IN  /\ pc[c] = "joined"
        /\ flight[o].done
        /\ End(c, IF flight[o].error # "none" THEN flight[o].error ELSE "verified")
        /\ flight' = LetGo(flight, c, o)
        /\ UNCHANGED <<world, seen, generation, caches, disabled, registry>>

(* The flight c waited for is done: start over, unless the runtime is      *)
(* disabled; then the fence marks that flight, whatever became of it.      *)
StartOver(c) ==
    LET o == call[c].target
    IN  /\ pc[c] = "waiting"
        /\ flight[o].done
        /\ IF disabled
           THEN /\ flight' = LetGo([flight EXCEPT ![o].error = FenceError(o)], c, o)
                /\ End(c, FenceError(o))
           ELSE /\ flight' = LetGo(flight, c, o)
                /\ call' = [call EXCEPT ![c].target = None]
                /\ Goto(c, "begin") /\ UNCHANGED outcome
        /\ UNCHANGED <<world, seen, generation, caches, disabled, registry>>

-----------------------------------------------------------------------------
(* The owner. *)

(* The except clause: the flight keeps its first error, and c raises it. *)
Fail(c, error) ==
    LET public == IF flight[c].error = "none" THEN error ELSE flight[c].error
    IN  /\ flight' = [flight EXCEPT ![c].error = public]
        /\ outcome' = [outcome EXCEPT ![c] = public]
        /\ Goto(c, "finish")

(* One probe: the fence, then the command, whose result depends on the     *)
(* binary it finds.                                                        *)
Probe(c, which, next) ==
    /\ pc[c] = which
    /\ IF FenceError(c) # "none"
       THEN Fail(c, FenceError(c)) /\ UNCHANGED call
       ELSE /\ \E code \in IF binary = Missing THEN {"missing_binary"} ELSE {"ok", "failed"} :
                 /\ call' = [call EXCEPT ![c][which] =
                               [code |-> code, gen |-> generation, since |-> clock]]
                 /\ Goto(c, IF code = "missing_binary" THEN "recheck" ELSE next)
            /\ UNCHANGED <<flight, outcome>>
    /\ UNCHANGED <<world, seen, generation, caches, disabled, registry>>

ProbeVersion(c) == Probe(c, "version", IF "auth" \in call[c].need THEN "auth" ELSE "recheck")

ProbeAuth(c) == Probe(c, "auth", "recheck")

(* Any step of the owner outside the lock may raise. *)
ProbeRaises(c) ==
    /\ pc[c] \in {"version", "auth", "recheck"}
    /\ Fail(c, "verify_failed")
    /\ UNCHANGED <<world, seen, generation, caches, disabled, registry, call>>

Recheck(c) ==
    /\ pc[c] = "recheck"
    /\ call' = [call EXCEPT ![c].found = binary]
    /\ Goto(c, "compare")
    /\ UNCHANGED <<world, seen, generation, caches, disabled, registry, flight, outcome>>

(* The binary is read a second time, unless there was none. *)
Compare(c) ==
    LET i == call[c].identity
    IN  /\ pc[c] = "compare"
        /\ IF call[c].found # i \/ (i # Missing /\ binary # i)
           THEN Goto(c, "changed") ELSE Goto(c, "commit")
        /\ UNCHANGED <<world, seen, generation, caches, disabled, registry, flight, call,
                       outcome>>

(* What was probed is of a binary that is gone: it is reported as such. *)
DiscardProbes(c) ==
    /\ pc[c] = "changed"
    /\ ObserveBinary(call[c].found)
    /\ call' = [call EXCEPT ![c].version = [code |-> "binary_changed", gen |-> generation,
                                            since |-> clock],
                            ![c].auth = None]
    /\ Goto(c, "commit")
    /\ UNCHANGED <<world, disabled, registry, flight, outcome>>

(* _cache_put of c's record; one the call had read from the cache itself   *)
(* is put again with a full time to live.                                  *)
Put(cache, c, which, ttl) ==
    LET own == which \in call[c].need
        probe == IF own THEN [call[c][which] EXCEPT !.since = clock] ELSE call[c][which]
    IN  [cache EXCEPT ![call[c].identity] =
           [probe |-> probe, expires |-> clock + ttl, own |-> own]]

(* Mutant: the generation is not compared. *)
CacheableAlways(c, which) ==
    /\ call[c].identity # Missing
    /\ call[c][which] # None
    /\ call[c][which].code = "ok"

(* What the owner may cache: a good result of a binary, nothing having     *)
(* been invalidated since it took its flight.  (An authentication probe's  *)
(* "ok" stands for not_ready too.)                                         *)
Cacheable(c, which) ==
    /\ generation = call[c].gen
    /\ call[c].identity # Missing
    /\ call[c][which] # None
    /\ call[c][which].code = "ok"

(* Mutant: no fence at the commit. *)
NoCommitFence(c) == FALSE

CommitFence(c) == FenceError(c) # "none"

Commit(c) ==
    LET result == [version |-> call[c].version, auth |-> call[c].auth]
    IN  /\ pc[c] = "commit"
        /\ IF CommitFence(c)
           THEN Fail(c, FenceError(c)) /\ UNCHANGED caches
           ELSE /\ versionCache' = IF Cacheable(c, "version")
                                   THEN Put(versionCache, c, "version", VersionTTL)
                                   ELSE versionCache
                /\ authCache' = IF Cacheable(c, "auth")
                                THEN Put(authCache, c, "auth", AuthTTL)
                                ELSE authCache
                /\ flight' = [flight EXCEPT ![c].result = result, ![c].committed = TRUE]
                /\ outcome' = [outcome EXCEPT ![c] = "verified"]
                /\ Goto(c, "finish")
        /\ UNCHANGED <<world, seen, generation, disabled, registry, call>>

(* Mutant: the registry keeps the flight. *)
NotRetired(c) == registry

Retired(c) == registry \ {c}

(* Somebody refers to c's flight. *)
Awaited(c) == c \in registry' \/ \E d \in Callers : call[d].target = c

(* The finally clause; a flight that nobody waits for goes with its call. *)
Finish(c) ==
    /\ pc[c] = "finish"
    /\ registry' = Retired(c)
    /\ flight' = [flight EXCEPT ![c] = IF Awaited(c) THEN [@ EXCEPT !.done = TRUE] ELSE None]
    /\ End(c, outcome[c])
    /\ UNCHANGED <<world, seen, generation, caches, disabled>>

-----------------------------------------------------------------------------
(* Everybody else. *)

(* The executable is replaced, removed or installed. *)
ReplaceBinary(b) ==
    /\ events < MaxEvents /\ b # binary
    /\ events' = events + 1
    /\ binary' = b
    /\ UNCHANGED <<clock, seen, generation, caches, disabled, registry, flight, call, pc,
                   outcome>>

(* invalidate_provider_cache *)
Invalidate ==
    /\ events < MaxEvents
    /\ events' = events + 1
    /\ DropResults
    /\ seen' = Unseen
    /\ UNCHANGED <<clock, binary, disabled, registry, flight, call, pc, outcome>>

(* Mutant: disable() wakes the waiters of a flight without an error. *)
DisabledQuietly(f) == [f EXCEPT !.done = TRUE]

(* What disable() makes of a flight that is still registered. *)
DisabledFlight(f) ==
    IF f.done THEN f
    ELSE [f EXCEPT !.done = TRUE,
                   !.error = IF ~f.committed /\ f.error = "none" THEN "manage_disabled" ELSE @]

(* disable(); a second one finds nothing to do. *)
Disable ==
    /\ ~disabled
    /\ disabled' = TRUE
    /\ DropResults
    /\ seen' = Unseen
    /\ flight' = [c \in Callers |-> IF c \in registry THEN DisabledFlight(flight[c])
                                    ELSE flight[c]]
    /\ registry' = {}
    /\ UNCHANGED <<world, call, pc, outcome>>

Tick ==
    /\ clock < MaxClock
    /\ clock' = clock + 1
    /\ UNCHANGED <<binary, events, seen, generation, caches, disabled, registry, flight,
                   call, pc, outcome>>

(* Every call has been answered. *)
AllAnswered == (\A c \in Callers : pc[c] = "done") /\ UNCHANGED vars

CallStep(c) ==
    \/ Identify(c) \/ Observe(c) \/ CheckCurrent(c) \/ Lookup(c)
    \/ Refused(c) \/ Join(c) \/ Busy(c) \/ Wait(c) \/ Own(c)
    \/ TakeResult(c) \/ StartOver(c)
    \/ ProbeVersion(c) \/ ProbeAuth(c) \/ ProbeRaises(c)
    \/ Recheck(c) \/ Compare(c) \/ DiscardProbes(c) \/ Commit(c) \/ Finish(c)

Next ==
    \/ \E c \in Callers, force \in BOOLEAN : Call(c, force)
    \/ \E c \in Callers : CallStep(c)
    \/ \E b \in Identities : ReplaceBinary(b)
    \/ Invalidate
    \/ Disable
    \/ Tick
    \/ AllAnswered

Spec == Init /\ [][Next]_vars

(* A call that has been made keeps running: its thread is scheduled, and a *)
(* probe ends after VERIFY_TIMEOUT_SECONDS at the latest.                  *)
FairSpec == Spec /\ \A c \in Callers : WF_vars(CallStep(c))

-----------------------------------------------------------------------------
(* Properties *)

(* "Verification remains strictly serial": two calls never run the         *)
(* provider's probes at the same time, forced or not, across invalidations *)
(* and replaced binaries.                                                  *)
VerificationSerial ==
    /\ Cardinality({c \in Callers : pc[c] \in {"version", "auth"}}) <= 1
    /\ Cardinality(registry) <= 1

(* A flight that an invalidation, a forced call or a replaced binary has   *)
(* overtaken does not bring what it probed back into the caches.           *)
OvertakenProbesNotCached ==
    \A i \in Identities : \A entry \in {versionCache[i], authCache[i]} \ {None} :
        entry.own => entry.probe.gen = generation

(* "The disabled runtime itself must retain no active work registry", nor  *)
(* a cached result, whatever its calls were doing when it was disabled.    *)
DisabledRetainsNothing ==
    disabled => registry = {} /\ versionCache = Empty /\ authCache = Empty

(* A flight settles once: it does not commit in a disabled runtime, and    *)
(* whoever its event wakes takes its committed result or its error -- an   *)
(* error in spite of a committed result only where a queued forced call    *)
(* has marked the flight disabled (StartOver).                             *)
FlightsSettleOnce ==
    [][\A c \in Callers :
         /\ disabled /\ flight'[c] # None /\ flight'[c].committed => flight[c].committed
         /\ pc[c] = "joined" /\ pc'[c] = "done" =>
              LET f == flight[call[c].target]
              IN  IF outcome'[c] = "verified" THEN f.committed
                  ELSE f.error # "none" /\ (f.committed => disabled)]_vars

(* "A force caller must not consume the ordinary result": it is answered   *)
(* by a forced flight, with probes run after that flight dropped the       *)
(* earlier results.                                                        *)
ForcedAnswersAreForced ==
    [][\A c \in Callers :
         call[c].force /\ pc[c] \notin {"finish", "done"} /\ pc'[c] = "done" /\ outcome'[c] = "verified" =>
           LET f == flight[call[c].target]
           IN  /\ pc[c] = "joined" /\ f.force
               /\ f.result.version.gen >= f.gen]_vars

(* All that a caller sees of flights, generations and caches is one shared *)
(* verification at a time: whose it is, who joined it, what it came to.    *)
(* OwnerPlaces: where a call owns a flight.                                *)
OwnerPlaces == {"version", "auth", "recheck", "compare", "changed", "commit", "finish"}
Owner == IF \E c \in Callers : pc[c] \in OwnerPlaces
         THEN CHOOSE c \in Callers : pc[c] \in OwnerPlaces ELSE None
HasProbed == Owner # None /\ "version" \in call[Owner].need /\ call[Owner].version # None
Sharing == [c \in Callers |-> IF pc[c] = "joined" THEN call[c].target ELSE None]
Shared(o) == o = Owner \/ \E c \in Callers : Sharing[c] = o
CameTo == [o \in Callers |->
             IF ~Shared(o) THEN "none"
             ELSE IF flight[o].committed THEN "good"
             ELSE IF flight[o].error # "none" THEN "error" ELSE "none"]
Asked == [c \in Callers |->
            IF pc[c] = "idle" THEN "no" ELSE IF call[c].force THEN "forced" ELSE "ordinary"]
Answers == [c \in Callers |->
              IF pc[c] # "done" THEN "none"
              ELSE IF outcome[c] = "verified" THEN "verified" ELSE "error"]
Known == versionCache # Empty

Abstract == INSTANCE SharedVerification WITH
    NoOne <- None, asked <- Asked, answer <- Answers, verifier <- Owner,
    probed <- HasProbed, shares <- Sharing, result <- CameTo, known <- Known,
    closed <- disabled

ImplementsSharedVerification == Abstract!Spec

(* Every call returns or raises: nobody waits for an event that is never   *)
(* set, and a forced call is not put off for ever.                         *)
EveryCallAnswered == \A c \in Callers : pc[c] = "begin" ~> pc[c] = "done"

-----------------------------------------------------------------------------
(* A claim of the documentation that the code does not keep. *)

AnsweredFromCache(c) == pc[c] = "lookup" /\ pc'[c] = "done" /\ outcome'[c] = "verified"

(* Results have a five-minute and a fifteen-second time to live and are    *)
(* dropped by an invalidation: what the caches answer entered them less    *)
(* than that ago, and was probed since the latest invalidation.            *)
CachedAnswersAreCurrent ==
    [][\A c \in Callers : AnsweredFromCache(c) =>
         LET i == call[c].identity
         IN  /\ clock < versionCache[i].probe.since + VersionTTL
             /\ versionCache[i].probe.gen = generation
             /\ HasAuth => /\ clock < authCache[i].probe.since + AuthTTL
                           /\ authCache[i].probe.gen = generation]_vars
=============================================================================
