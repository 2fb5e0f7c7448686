------------------------- MODULE ManageVerifyProofs -------------------------
(***************************************************************************)
(* Theorems about ManageVerify, for every number of callers and binaries,  *)
(* whatever the times to live, with and without an authentication probe.   *)
(***************************************************************************)
EXTENDS ManageVerify, FiniteSetTheorems, TLAPS

(* Where it has probed the version, if it had to. *)
Probing == OwnerPlaces \ {"version", "finish"}

Caches ==
    /\ versionCache \in [Identities -> Entries \cup {None}]
    /\ authCache \in [Identities -> Entries \cup {None}]
    /\ OvertakenProbesNotCached
    /\ DisabledRetainsNothing

(* There is one owner, and until the runtime is disabled its flight is     *)
(* registered.                                                             *)
OneOwner ==
    /\ \A c \in Callers : pc[c] \in OwnerPlaces => flight[c] # None
    /\ \A c \in Callers : pc[c] \in OwnerPlaces /\ ~disabled => c \in registry
    /\ \A c, d \in Callers : pc[c] \in OwnerPlaces /\ pc[d] \in OwnerPlaces => c = d
    /\ \A c \in registry : pc[c] \in OwnerPlaces

(* A flight somebody waits for is kept, and is of the kind asked for. *)
Waiters ==
    \A c \in Callers :
        /\ call[c].target # None => pc[c] \in {"joined", "waiting"}
        /\ pc[c] \in {"joined", "waiting"} =>
             /\ call[c].target \in Callers
             /\ pc[call[c].target] \in OwnerPlaces \cup {"done"}
             /\ flight[call[c].target] # None
        /\ pc[c] = "joined" /\ call[c].force => flight[call[c].target].force

(* A flight that is done has a result or an error, and both only in a      *)
(* disabled runtime; a forced result was probed after the flight began.    *)
Settled ==
    \A c \in Callers : flight[c] # None =>
        /\ flight[c].done /\ flight[c].error = "none" => flight[c].committed
        /\ flight[c].committed /\ flight[c].error # "none" => disabled
        /\ flight[c].committed /\ flight[c].force =>
             flight[c].gen <= flight[c].result.version.gen
        /\ pc[c] \in OwnerPlaces \ {"finish"} => ~flight[c].committed
        /\ pc[c] = "finish" => flight[c].committed \/ flight[c].error # "none"

(* A probe that its owner had to run was run in the owner's generation or  *)
(* a later one.                                                            *)
Fresh ==
    \A c \in Callers :
        /\ pc[c] = "lookup" => ~call[c].force
        /\ pc[c] = "choose" /\ call[c].force => call[c].version = None /\ call[c].auth = None
        /\ pc[c] \in OwnerPlaces =>
             /\ call[c].gen = flight[c].gen /\ call[c].gen <= generation
             /\ call[c].force <=> flight[c].force
             /\ call[c].force => "version" \in call[c].need
        /\ pc[c] \in OwnerPlaces /\ "version" \in call[c].need /\ call[c].version # None =>
             call[c].gen <= call[c].version.gen /\ call[c].version.gen <= generation
        /\ pc[c] \in OwnerPlaces /\ "auth" \in call[c].need /\ call[c].auth # None =>
             call[c].gen <= call[c].auth.gen /\ call[c].auth.gen <= generation
        /\ pc[c] \in Probing /\ "version" \in call[c].need =>
             call[c].version \in Probed /\ call[c].gen <= call[c].version.gen

(* The inductive invariant. *)
IInv == TypeOK /\ Caches /\ OneOwner /\ Waiters /\ Settled /\ Fresh

-----------------------------------------------------------------------------
(* The steps. *)

(* A call leaves its locals behind. *)
LEMMA EndShape ==
    ASSUME TypeOK, NEW c \in Callers, NEW how, End(c, how)
    PROVE  /\ pc' = [pc EXCEPT ![c] = "done"] /\ outcome' = [outcome EXCEPT ![c] = how]
           /\ call' \in [Callers -> Locals] /\ call'[c].target = None
           /\ call'[c].force = call[c].force
           /\ \A d \in Callers : d # c => call'[d] = call[d]
<1>1. NoCall \in Locals /\ NoCall.target = None
  BY DEF NoCall, Locals, Records, Identities
<1>2. call[c] \in Locals /\ call[c].force \in BOOLEAN
  BY DEF TypeOK, Locals
<1>3. [NoCall EXCEPT !.force = call[c].force] \in Locals
  BY <1>1, <1>2 DEF Locals
<1>4. /\ [NoCall EXCEPT !.force = call[c].force].target = None
      /\ [NoCall EXCEPT !.force = call[c].force].force = call[c].force
  BY <1>1 DEF Locals
<1> QED
  BY <1>3, <1>4 DEF End, Goto, TypeOK

LEMMA CallShape ==
    ASSUME TypeOK, NEW c \in Callers
    PROVE  /\ call[c] \in Locals /\ call[c].force \in BOOLEAN /\ call[c].gen \in Nat
           /\ call[c].identity \in Identities /\ call[c].found \in Identities
           /\ call[c].version \in Records /\ call[c].auth \in Records
           /\ call[c].need \in SUBSET {"version", "auth"}
           /\ call[c].target \in Callers \cup {None}
           /\ call[c].version # None => call[c].version \in Probed /\ call[c].version.gen \in Nat
           /\ call[c].auth # None => call[c].auth \in Probed /\ call[c].auth.gen \in Nat
<1>1. call[c] \in Locals
  BY DEF TypeOK
<1> QED
  BY <1>1 DEF Locals, Records, Probed

LEMMA FlightShape ==
    ASSUME TypeOK, NEW c \in Callers, flight[c] # None
    PROVE  /\ flight[c] \in Flights /\ flight[c].gen \in Nat /\ flight[c].force \in BOOLEAN
           /\ flight[c].done \in BOOLEAN /\ flight[c].committed \in BOOLEAN
           /\ flight[c].error \in Errors /\ flight[c].context \in Identities
           /\ flight[c].result \in Results \cup {None}
<1>1. flight[c] \in Flights
  BY DEF TypeOK
<1> QED
  BY <1>1 DEF Flights

(* The caches of a step that drops every result, and of one that leaves    *)
(* them alone.                                                             *)
LEMMA DropShape ==
    ASSUME IInv, DropResults, disabled' => registry' = {}
    PROVE  /\ Caches' /\ generation \in Nat /\ generation' = generation + 1
           /\ \A i \in Identities : {versionCache'[i], authCache'[i]} \subseteq Entries \cup {None}
<1>1. versionCache' = Empty /\ authCache' = Empty /\ generation' = generation + 1
  BY DEF DropResults
<1>2. generation \in Nat
  BY DEF IInv, TypeOK
<1>3. \A i \in Identities : versionCache'[i] = None /\ authCache'[i] = None
  BY <1>1 DEF Empty
<1>4. OvertakenProbesNotCached'
  BY <1>3 DEF OvertakenProbesNotCached
<1>5. DisabledRetainsNothing'
  BY <1>1 DEF DisabledRetainsNothing, Empty
<1>6. Empty \in [Identities -> Entries \cup {None}]
  BY DEF Empty
<1> QED
  BY <1>1, <1>2, <1>3, <1>4, <1>5, <1>6 DEF Caches

LEMMA KeepShape ==
    ASSUME IInv, UNCHANGED <<generation, versionCache, authCache>>, disabled' = disabled,
           disabled => registry' = {}
    PROVE  /\ Caches' /\ generation \in Nat
           /\ \A i \in Identities : {versionCache'[i], authCache'[i]} \subseteq Entries \cup {None}
<1>1. Caches /\ generation \in Nat
  BY DEF IInv, TypeOK
<1>2. OvertakenProbesNotCached'
  BY <1>1 DEF Caches, OvertakenProbesNotCached
<1>3. DisabledRetainsNothing'
  BY <1>1 DEF Caches, DisabledRetainsNothing, Empty
<1>4. \A i \in Identities : versionCache[i] \in Entries \cup {None} /\ authCache[i] \in Entries \cup {None}
  BY <1>1 DEF Caches
<1> QED
  BY <1>1, <1>2, <1>3, <1>4 DEF Caches

(* Those of a call that looks up a binary's results: an expired one goes.   *)
LEMMA SweptShape ==
    ASSUME IInv, ~disabled, NEW i \in Identities,
           versionCache' = Swept(versionCache, i),
           authCache' = Swept(authCache, i) \/ authCache' = authCache,
           UNCHANGED <<generation, disabled>>
    PROVE  /\ Caches' /\ generation \in Nat
           /\ \A j \in Identities : {versionCache'[j], authCache'[j]} \subseteq Entries \cup {None}
<1>1. Caches /\ generation \in Nat
  BY DEF IInv, TypeOK
<1>2. /\ versionCache' \in [Identities -> Entries \cup {None}]
      /\ authCache' \in [Identities -> Entries \cup {None}]
  BY <1>1 DEF Caches, Swept
<1>3. \A j \in Identities : /\ versionCache'[j] \in {versionCache[j], None}
                            /\ authCache'[j] \in {authCache[j], None}
  BY <1>1 DEF Caches, Swept
<1>4. OvertakenProbesNotCached'
  BY <1>1, <1>3 DEF Caches, OvertakenProbesNotCached
<1>5. DisabledRetainsNothing'
  BY DEF DisabledRetainsNothing
<1> QED
  BY <1>1, <1>2, <1>4, <1>5 DEF Caches

(* What a call finds in a cache has the shape of a probe's result. *)
LEMMA CachedShape ==
    ASSUME NEW entry \in Entries \cup {None}
    PROVE  Cached(entry) \in Records
BY DEF Cached, Entries, Records

(* Only a flight that nobody else refers to goes with its last waiter. *)
LEMMA LetGoShape ==
    ASSUME NEW c \in Callers, NEW o \in Callers, NEW flights \in [Callers -> Flights \cup {None}]
    PROVE  /\ LetGo(flights, c, o) \in [Callers -> Flights \cup {None}]
           /\ \A d \in Callers : d # o => LetGo(flights, c, o)[d] = flights[d]
           /\ \/ LetGo(flights, c, o)[o] = flights[o]
              \/ /\ LetGo(flights, c, o)[o] = None
                 /\ pc[o] = "done" /\ o \notin registry
                 /\ \A d \in Callers \ {c} : call[d].target # o
BY DEF LetGo

(* A flight that fails keeps all but its error. *)
LEMMA ErrorShape ==
    ASSUME TypeOK, NEW o \in Callers, flight[o] # None, NEW error \in Errors
    PROVE  LET new == [flight EXCEPT ![o].error = error]
           IN  /\ new \in [Callers -> Flights \cup {None}]
               /\ \A d \in Callers : d # o => new[d] = flight[d]
               /\ new[o] # None /\ new[o].error = error
               /\ new[o].gen = flight[o].gen /\ new[o].force = flight[o].force
               /\ new[o].done = flight[o].done /\ new[o].result = flight[o].result
               /\ new[o].committed = flight[o].committed
<1>1. flight[o] \in Flights
  BY DEF TypeOK
<1>2. [flight[o] EXCEPT !.error = error] \in Flights
  BY <1>1 DEF Flights
<1>3. [flight EXCEPT ![o].error = error] = [flight EXCEPT ![o] = [flight[o] EXCEPT !.error = error]]
  BY DEF TypeOK
<1> QED
  BY <1>1, <1>2, <1>3, NoFlightAssumption DEF TypeOK, Flights

LEMMA FenceShape ==
    ASSUME TypeOK, NEW o \in Callers, flight[o] # None
    PROVE  /\ FenceError(o) \in Errors
           /\ FenceError(o) = "none" <=> flight[o].error = "none" /\ ~disabled
           /\ flight[o].error # "none" => FenceError(o) = flight[o].error
BY FlightShape DEF FenceError, Errors, TypeOK

LEMMA DisabledShape ==
    ASSUME NEW f \in Flights
    PROVE  /\ DisabledFlight(f) \in Flights
           /\ DisabledFlight(f).gen = f.gen /\ DisabledFlight(f).force = f.force
           /\ DisabledFlight(f).result = f.result /\ DisabledFlight(f).committed = f.committed
           /\ f.error # "none" => DisabledFlight(f).error # "none"
           /\ DisabledFlight(f).done
           /\ DisabledFlight(f).error = "none" => f.committed \/ (f.done /\ f.error = "none")
BY DEF DisabledFlight, Flights, Errors

(* What a commit keeps in a cache is of the current generation if the      *)
(* owner ran the probe itself.                                             *)
LEMMA PutShape ==
    ASSUME IInv, NEW c \in Callers, pc[c] = "commit",
           NEW which \in {"version", "auth"}, NEW ttl \in Nat,
           NEW cache \in [Identities -> Entries \cup {None}], Cacheable(c, which)
    PROVE  /\ Put(cache, c, which, ttl) \in [Identities -> Entries \cup {None}]
           /\ \A i \in Identities : i # call[c].identity => Put(cache, c, which, ttl)[i] = cache[i]
           /\ Put(cache, c, which, ttl)[call[c].identity].own =>
                Put(cache, c, which, ttl)[call[c].identity].probe.gen = generation
<1> DEFINE own == which \in call[c].need
           probe == IF own THEN [call[c][which] EXCEPT !.since = clock] ELSE call[c][which]
           entry == [probe |-> probe, expires |-> clock + ttl, own |-> own]
<1>1. /\ call[c] \in Locals /\ clock \in Nat /\ generation \in Nat
      /\ call[c].identity \in Identities
  BY CallShape, VerifyAssumption DEF IInv, TypeOK
<1>2. call[c][which] \in Probed /\ call[c].gen = generation
  BY <1>1 DEF Cacheable, Locals, Records
<1>3. own => call[c][which].gen = generation
  <2>1. CASE which = "version"
    BY <1>1, <1>2, <2>1 DEF IInv, Fresh, OwnerPlaces, Cacheable, Probed
  <2>2. CASE which = "auth"
    BY <1>1, <1>2, <2>2 DEF IInv, Fresh, OwnerPlaces, Cacheable, Probed
  <2> QED
    BY <2>1, <2>2
<1>4. probe \in Probed /\ probe.gen = call[c][which].gen
  BY <1>1, <1>2 DEF Probed
<1>5. Put(cache, c, which, ttl) = [cache EXCEPT ![call[c].identity] = entry]
  BY DEF Put
<1> HIDE DEF own, probe
<1>6. own \in BOOLEAN
  BY DEF own
<1>7. entry \in Entries /\ (entry.own <=> own) /\ entry.probe = probe
  BY <1>1, <1>4, <1>6 DEF Entries
<1> HIDE DEF entry
<1> QED
  BY <1>1, <1>3, <1>4, <1>5, <1>7

LEMMA CallIInv ==
    ASSUME IInv, NEW c \in Callers, NEW force \in BOOLEAN, Call(c, force)
    PROVE  IInv'
<1> USE DEF IInv
<1>1. /\ pc[c] = "idle" /\ pc' = [pc EXCEPT ![c] = "begin"]
      /\ call' = [call EXCEPT ![c].force = force]
      /\ UNCHANGED <<clock, binary, events, seen, generation, versionCache, authCache, disabled,
                     registry, flight, outcome>>
  BY DEF Call, Goto, world, caches
<1>2. /\ call' \in [Callers -> Locals] /\ \A d \in Callers : d # c => call'[d] = call[d]
      /\ call'[c].force = force
      /\ call'[c].identity = call[c].identity
      /\ call'[c].found = call[c].found
      /\ call'[c].version = call[c].version
      /\ call'[c].auth = call[c].auth
      /\ call'[c].need = call[c].need
      /\ call'[c].gen = call[c].gen
      /\ call'[c].target = call[c].target
  <2>1. call[c] \in Locals
    BY DEF TypeOK
  <2>2. call'[c] \in Locals
    BY <1>1, <2>1 DEF Locals, Records, Probed, TypeOK
  <2> QED
    BY <1>1, <2>1, <2>2 DEF TypeOK, Locals
<1>3. /\ Caches' /\ generation \in Nat /\ (generation' = generation \/ generation' = generation + 1)
      /\ \A i \in Identities : {versionCache'[i], authCache'[i]} \subseteq Entries \cup {None}
  BY <1>1, DropShape, KeepShape DEF DisabledRetainsNothing, Caches
<1>4. TypeOK /\ TypeOK'
  BY <1>1, <1>2, <1>3, CallShape DEF TypeOK, Places, Errors
<1>5. OneOwner'
  BY <1>1, <1>2, <1>3, <1>4, CallShape, FlightShape DEF TypeOK, OneOwner, OwnerPlaces
<1>6. Waiters'
  BY <1>1, <1>2, <1>3, <1>4, CallShape, FlightShape DEF TypeOK, Waiters, OwnerPlaces
<1>7. Settled'
  BY <1>1, <1>2, <1>3, <1>4, CallShape, FlightShape DEF TypeOK, Settled, OwnerPlaces
<1>8. Fresh'
  BY <1>1, <1>2, <1>3, <1>4, CallShape, FlightShape DEF TypeOK, Fresh, OwnerPlaces, Probing
<1> QED
  BY <1>1, <1>2, <1>3, <1>4, <1>5, <1>6, <1>7, <1>8

LEMMA IdentifyIInv ==
    ASSUME IInv, NEW c \in Callers, Identify(c) /\ ~disabled
    PROVE  IInv'
<1> USE DEF IInv
<1>1. /\ pc[c] = "begin" /\ pc' = [pc EXCEPT ![c] = "probed"]
      /\ call' = [call EXCEPT ![c].identity = binary, ![c].found = binary]
      /\ UNCHANGED <<clock, binary, events, seen, generation, versionCache, authCache, disabled,
                     registry, flight, outcome>>
      /\ binary \in Identities
  BY DEF Identify, Goto, world, caches, TypeOK
<1>2. /\ call' \in [Callers -> Locals] /\ \A d \in Callers : d # c => call'[d] = call[d]
      /\ call'[c].force = call[c].force
      /\ call'[c].version = call[c].version
      /\ call'[c].auth = call[c].auth
      /\ call'[c].need = call[c].need
      /\ call'[c].gen = call[c].gen
      /\ call'[c].target = call[c].target
  <2>1. call[c] \in Locals
    BY DEF TypeOK
  <2>2. call'[c] \in Locals
    BY <1>1, <2>1 DEF Locals, Records, Probed, TypeOK
  <2> QED
    BY <1>1, <2>1, <2>2 DEF TypeOK, Locals
<1>3. /\ Caches' /\ generation \in Nat /\ (generation' = generation \/ generation' = generation + 1)
      /\ \A i \in Identities : {versionCache'[i], authCache'[i]} \subseteq Entries \cup {None}
  BY <1>1, DropShape, KeepShape DEF DisabledRetainsNothing, Caches
<1>4. TypeOK /\ TypeOK'
  BY <1>1, <1>2, <1>3, CallShape DEF TypeOK, Places, Errors
<1>5. OneOwner'
  BY <1>1, <1>2, <1>3, <1>4, CallShape, FlightShape DEF TypeOK, OneOwner, OwnerPlaces
<1>6. Waiters'
  BY <1>1, <1>2, <1>3, <1>4, CallShape, FlightShape DEF TypeOK, Waiters, OwnerPlaces
<1>7. Settled'
  BY <1>1, <1>2, <1>3, <1>4, CallShape, FlightShape DEF TypeOK, Settled, OwnerPlaces
<1>8. Fresh'
  BY <1>1, <1>2, <1>3, <1>4, CallShape, FlightShape DEF TypeOK, Fresh, OwnerPlaces, Probing
<1> QED
  BY <1>1, <1>2, <1>3, <1>4, <1>5, <1>6, <1>7, <1>8

LEMMA ObserveIInv ==
    ASSUME IInv, NEW c \in Callers, Observe(c)
    PROVE  IInv'
<1> USE DEF IInv
<1>1. /\ pc[c] = "probed" /\ pc' = [pc EXCEPT ![c] = "observed"]
      /\ seen' \in Identities \cup {Unseen}
      /\ \/ UNCHANGED <<generation, versionCache, authCache>>
         \/ ~disabled /\ DropResults
      /\ UNCHANGED <<clock, binary, events, disabled, registry, flight, call, outcome>>
  BY DEF Observe, ObserveBinary, Goto, world, caches, TypeOK, Locals
<1>2. /\ Caches' /\ generation \in Nat /\ (generation' = generation \/ generation' = generation + 1)
      /\ \A i \in Identities : {versionCache'[i], authCache'[i]} \subseteq Entries \cup {None}
  BY <1>1, DropShape, KeepShape DEF DisabledRetainsNothing, Caches
<1>3. TypeOK /\ TypeOK'
  BY <1>1, <1>2, CallShape DEF TypeOK, Places, Errors
<1>4. OneOwner'
  BY <1>1, <1>2, <1>3, CallShape, FlightShape DEF TypeOK, OneOwner, OwnerPlaces
<1>5. Waiters'
  BY <1>1, <1>2, <1>3, CallShape, FlightShape DEF TypeOK, Waiters, OwnerPlaces
<1>6. Settled'
  BY <1>1, <1>2, <1>3, CallShape, FlightShape DEF TypeOK, Settled, OwnerPlaces
<1>7. Fresh'
  BY <1>1, <1>2, <1>3, CallShape, FlightShape DEF TypeOK, Fresh, OwnerPlaces, Probing
<1> QED
  BY <1>1, <1>2, <1>3, <1>4, <1>5, <1>6, <1>7

LEMMA CheckCurrentIInv ==
    ASSUME IInv, NEW c \in Callers, CheckCurrent(c)
    PROVE  IInv'
<1> USE DEF IInv
<1>1. /\ pc[c] = "observed"
      /\ \/ pc' = [pc EXCEPT ![c] = "lookup"] /\ ~call[c].force
         \/ pc' = [pc EXCEPT ![c] = "choose"]
      /\ call' = [call EXCEPT ![c].version = None, ![c].auth = None]
      /\ UNCHANGED <<clock, binary, events, seen, generation, versionCache, authCache, disabled,
                     registry, flight, outcome>>
  BY DEF CheckCurrent, Goto, world, caches
<1>2. /\ call' \in [Callers -> Locals] /\ \A d \in Callers : d # c => call'[d] = call[d]
      /\ call'[c].version = None
      /\ call'[c].auth = None
      /\ call'[c].force = call[c].force
      /\ call'[c].identity = call[c].identity
      /\ call'[c].found = call[c].found
      /\ call'[c].need = call[c].need
      /\ call'[c].gen = call[c].gen
      /\ call'[c].target = call[c].target
  <2>1. call[c] \in Locals
    BY DEF TypeOK
  <2>2. call'[c] \in Locals
    BY <1>1, <2>1 DEF Locals, Records, Probed, TypeOK
  <2> QED
    BY <1>1, <2>1, <2>2 DEF TypeOK, Locals
<1>3. /\ Caches' /\ generation \in Nat /\ (generation' = generation \/ generation' = generation + 1)
      /\ \A i \in Identities : {versionCache'[i], authCache'[i]} \subseteq Entries \cup {None}
  BY <1>1, DropShape, KeepShape DEF DisabledRetainsNothing, Caches
<1>4. TypeOK /\ TypeOK'
  BY <1>1, <1>2, <1>3, CallShape DEF TypeOK, Places, Errors
<1>5. OneOwner'
  BY <1>1, <1>2, <1>3, <1>4, CallShape, FlightShape DEF TypeOK, OneOwner, OwnerPlaces
<1>6. Waiters'
  BY <1>1, <1>2, <1>3, <1>4, CallShape, FlightShape DEF TypeOK, Waiters, OwnerPlaces
<1>7. Settled'
  BY <1>1, <1>2, <1>3, <1>4, CallShape, FlightShape DEF TypeOK, Settled, OwnerPlaces
<1>8. Fresh'
  BY <1>1, <1>2, <1>3, <1>4, CallShape, FlightShape DEF TypeOK, Fresh, OwnerPlaces, Probing
<1> QED
  BY <1>1, <1>2, <1>3, <1>4, <1>5, <1>6, <1>7, <1>8

LEMMA BlockIInv ==
    ASSUME IInv, NEW c \in Callers, NEW o \in registry, NEW place \in {"joined", "waiting"},
           pc[c] = "choose", Block(c, o, place), place = "joined" => Joinable(c, o)
    PROVE  IInv'
<1> USE DEF IInv
<1>1. /\ pc[c] = "choose" /\ pc' = [pc EXCEPT ![c] = place]
      /\ call' = [call EXCEPT ![c].target = o]
      /\ UNCHANGED <<clock, binary, events, seen, generation, versionCache, authCache, disabled,
                     registry, flight, outcome>>
      /\ o \in Callers /\ pc[o] \in OwnerPlaces /\ flight[o] # None
      /\ place = "joined" /\ call[c].force => flight[o].force
  BY DEF Block, Joinable, Goto, world, caches, OneOwner, TypeOK
<1>2. /\ call' \in [Callers -> Locals] /\ \A d \in Callers : d # c => call'[d] = call[d]
      /\ call'[c].target = o
      /\ call'[c].force = call[c].force
      /\ call'[c].identity = call[c].identity
      /\ call'[c].found = call[c].found
      /\ call'[c].version = call[c].version
      /\ call'[c].auth = call[c].auth
      /\ call'[c].need = call[c].need
      /\ call'[c].gen = call[c].gen
  <2>1. call[c] \in Locals
    BY DEF TypeOK
  <2>2. call'[c] \in Locals
    BY <1>1, <2>1 DEF Locals, Records, Probed, TypeOK
  <2> QED
    BY <1>1, <2>1, <2>2 DEF TypeOK, Locals
<1>3. /\ Caches' /\ generation \in Nat /\ (generation' = generation \/ generation' = generation + 1)
      /\ \A i \in Identities : {versionCache'[i], authCache'[i]} \subseteq Entries \cup {None}
  BY <1>1, DropShape, KeepShape DEF DisabledRetainsNothing, Caches
<1>4. TypeOK /\ TypeOK'
  BY <1>1, <1>2, <1>3, CallShape DEF TypeOK, Places, Errors
<1>5. OneOwner'
  BY <1>1, <1>2, <1>3, <1>4, CallShape, FlightShape DEF TypeOK, OneOwner, OwnerPlaces
<1>6. Waiters'
  BY <1>1, <1>2, <1>3, <1>4, CallShape, FlightShape DEF TypeOK, Waiters, OwnerPlaces
<1>7. Settled'
  BY <1>1, <1>2, <1>3, <1>4, CallShape, FlightShape DEF TypeOK, Settled, OwnerPlaces
<1>8. Fresh'
  BY <1>1, <1>2, <1>3, <1>4, CallShape, FlightShape DEF TypeOK, Fresh, OwnerPlaces, Probing
<1> QED
  BY <1>1, <1>2, <1>3, <1>4, <1>5, <1>6, <1>7, <1>8

LEMMA RecheckIInv ==
    ASSUME IInv, NEW c \in Callers, Recheck(c)
    PROVE  IInv'
<1> USE DEF IInv
<1>1. /\ pc[c] = "recheck" /\ pc' = [pc EXCEPT ![c] = "compare"]
      /\ call' = [call EXCEPT ![c].found = binary]
      /\ UNCHANGED <<clock, binary, events, seen, generation, versionCache, authCache, disabled,
                     registry, flight, outcome>>
      /\ binary \in Identities
  BY DEF Recheck, Goto, world, caches, TypeOK
<1>2. /\ call' \in [Callers -> Locals] /\ \A d \in Callers : d # c => call'[d] = call[d]
      /\ call'[c].force = call[c].force
      /\ call'[c].identity = call[c].identity
      /\ call'[c].version = call[c].version
      /\ call'[c].auth = call[c].auth
      /\ call'[c].need = call[c].need
      /\ call'[c].gen = call[c].gen
      /\ call'[c].target = call[c].target
  <2>1. call[c] \in Locals
    BY DEF TypeOK
  <2>2. call'[c] \in Locals
    BY <1>1, <2>1 DEF Locals, Records, Probed, TypeOK
  <2> QED
    BY <1>1, <2>1, <2>2 DEF TypeOK, Locals
<1>3. /\ Caches' /\ generation \in Nat /\ (generation' = generation \/ generation' = generation + 1)
      /\ \A i \in Identities : {versionCache'[i], authCache'[i]} \subseteq Entries \cup {None}
  BY <1>1, DropShape, KeepShape DEF DisabledRetainsNothing, Caches
<1>4. TypeOK /\ TypeOK'
  BY <1>1, <1>2, <1>3, CallShape DEF TypeOK, Places, Errors
<1>5. OneOwner'
  BY <1>1, <1>2, <1>3, <1>4, CallShape, FlightShape DEF TypeOK, OneOwner, OwnerPlaces
<1>6. Waiters'
  BY <1>1, <1>2, <1>3, <1>4, CallShape, FlightShape DEF TypeOK, Waiters, OwnerPlaces
<1>7. Settled'
  BY <1>1, <1>2, <1>3, <1>4, CallShape, FlightShape DEF TypeOK, Settled, OwnerPlaces
<1>8. Fresh'
  BY <1>1, <1>2, <1>3, <1>4, CallShape, FlightShape DEF TypeOK, Fresh, OwnerPlaces, Probing
<1> QED
  BY <1>1, <1>2, <1>3, <1>4, <1>5, <1>6, <1>7, <1>8

LEMMA CompareIInv ==
    ASSUME IInv, NEW c \in Callers, Compare(c)
    PROVE  IInv'
<1> USE DEF IInv
<1>1. /\ pc[c] = "compare"
      /\ pc' = [pc EXCEPT ![c] = "changed"] \/ pc' = [pc EXCEPT ![c] = "commit"]
      /\ UNCHANGED <<clock, binary, events, seen, generation, versionCache, authCache, disabled,
                     registry, flight, call, outcome>>
  BY DEF Compare, Goto, world, caches
<1>2. /\ Caches' /\ generation \in Nat /\ (generation' = generation \/ generation' = generation + 1)
      /\ \A i \in Identities : {versionCache'[i], authCache'[i]} \subseteq Entries \cup {None}
  BY <1>1, DropShape, KeepShape DEF DisabledRetainsNothing, Caches
<1>3. TypeOK /\ TypeOK'
  BY <1>1, <1>2, CallShape DEF TypeOK, Places, Errors
<1>4. OneOwner'
  BY <1>1, <1>2, <1>3, CallShape, FlightShape DEF TypeOK, OneOwner, OwnerPlaces
<1>5. Waiters'
  BY <1>1, <1>2, <1>3, CallShape, FlightShape DEF TypeOK, Waiters, OwnerPlaces
<1>6. Settled'
  BY <1>1, <1>2, <1>3, CallShape, FlightShape DEF TypeOK, Settled, OwnerPlaces
<1>7. Fresh'
  BY <1>1, <1>2, <1>3, CallShape, FlightShape DEF TypeOK, Fresh, OwnerPlaces, Probing
<1> QED
  BY <1>1, <1>2, <1>3, <1>4, <1>5, <1>6, <1>7

(* A call that raises before it has anything to do with a flight.      *)
LEMMA EndsIInv ==
    ASSUME IInv, NEW c \in Callers, NEW how \in Errors, pc[c] \in {"begin", "choose"}, End(c,
    how), UNCHANGED <<clock, binary, events, seen, generation, versionCache, authCache,
    disabled, registry, flight>>
    PROVE  IInv'
<1> USE DEF IInv
<1>1. /\ pc[c] \in {"begin", "choose"}
      /\ pc' = [pc EXCEPT ![c] = "done"]
      /\ call' \in [Callers -> Locals] /\ call'[c].target = None
      /\ call'[c].force = call[c].force
      /\ \A d \in Callers : d # c => call'[d] = call[d]
      /\ UNCHANGED <<clock, binary, events, seen, generation, versionCache, authCache, disabled,
                     registry, flight>>
      /\ outcome' = [outcome EXCEPT ![c] = how]
  BY EndShape
<1>2. /\ Caches' /\ generation \in Nat /\ (generation' = generation \/ generation' = generation + 1)
      /\ \A i \in Identities : {versionCache'[i], authCache'[i]} \subseteq Entries \cup {None}
  BY <1>1, DropShape, KeepShape DEF DisabledRetainsNothing, Caches
<1>3. TypeOK /\ TypeOK'
  BY <1>1, <1>2, CallShape DEF TypeOK, Places, Errors
<1>4. OneOwner'
  BY <1>1, <1>2, <1>3, CallShape, FlightShape DEF TypeOK, OneOwner, OwnerPlaces
<1>5. Waiters'
  BY <1>1, <1>2, <1>3, CallShape, FlightShape DEF TypeOK, Waiters, OwnerPlaces
<1>6. Settled'
  BY <1>1, <1>2, <1>3, CallShape, FlightShape DEF TypeOK, Settled, OwnerPlaces
<1>7. Fresh'
  BY <1>1, <1>2, <1>3, CallShape, FlightShape DEF TypeOK, Fresh, OwnerPlaces, Probing
<1> QED
  BY <1>1, <1>2, <1>3, <1>4, <1>5, <1>6, <1>7

LEMMA TickIInv ==
    ASSUME IInv, Tick \/ \E b \in Identities : ReplaceBinary(b)
    PROVE  IInv'
<1> USE DEF IInv
<1>1. /\ UNCHANGED <<seen, generation, versionCache, authCache, disabled, registry, flight, call,
                     pc, outcome>>
      /\ clock' \in 0 .. MaxClock /\ binary' \in Identities /\ events' \in 0 .. MaxEvents
  BY VerifyAssumption DEF Tick, ReplaceBinary, world, caches, TypeOK
<1>2. /\ Caches' /\ generation \in Nat /\ (generation' = generation \/ generation' = generation + 1)
      /\ \A i \in Identities : {versionCache'[i], authCache'[i]} \subseteq Entries \cup {None}
  BY <1>1, DropShape, KeepShape DEF DisabledRetainsNothing, Caches
<1>3. TypeOK /\ TypeOK'
  BY <1>1, <1>2, CallShape DEF TypeOK, Places, Errors
<1>4. OneOwner'
  BY <1>1, <1>2, <1>3, CallShape, FlightShape DEF TypeOK, OneOwner, OwnerPlaces
<1>5. Waiters'
  BY <1>1, <1>2, <1>3, CallShape, FlightShape DEF TypeOK, Waiters, OwnerPlaces
<1>6. Settled'
  BY <1>1, <1>2, <1>3, CallShape, FlightShape DEF TypeOK, Settled, OwnerPlaces
<1>7. Fresh'
  BY <1>1, <1>2, <1>3, CallShape, FlightShape DEF TypeOK, Fresh, OwnerPlaces, Probing
<1> QED
  BY <1>1, <1>2, <1>3, <1>4, <1>5, <1>6, <1>7

LEMMA InvalidateIInv ==
    ASSUME IInv, Invalidate
    PROVE  IInv'
<1> USE DEF IInv
<1>1. /\ UNCHANGED <<clock, binary, disabled, registry, flight, call, pc, outcome>>
      /\ DropResults
      /\ seen' = Unseen /\ events' \in 0 .. MaxEvents
  BY VerifyAssumption DEF Invalidate, TypeOK
<1>2. /\ Caches' /\ generation \in Nat /\ (generation' = generation \/ generation' = generation + 1)
      /\ \A i \in Identities : {versionCache'[i], authCache'[i]} \subseteq Entries \cup {None}
  BY <1>1, DropShape, KeepShape DEF DisabledRetainsNothing, Caches
<1>3. TypeOK /\ TypeOK'
  BY <1>1, <1>2, CallShape DEF TypeOK, Places, Errors
<1>4. OneOwner'
  BY <1>1, <1>2, <1>3, CallShape, FlightShape DEF TypeOK, OneOwner, OwnerPlaces
<1>5. Waiters'
  BY <1>1, <1>2, <1>3, CallShape, FlightShape DEF TypeOK, Waiters, OwnerPlaces
<1>6. Settled'
  BY <1>1, <1>2, <1>3, CallShape, FlightShape DEF TypeOK, Settled, OwnerPlaces
<1>7. Fresh'
  BY <1>1, <1>2, <1>3, CallShape, FlightShape DEF TypeOK, Fresh, OwnerPlaces, Probing
<1> QED
  BY <1>1, <1>2, <1>3, <1>4, <1>5, <1>6, <1>7

LEMMA LookupEndsIInv ==
    ASSUME IInv, NEW c \in Callers, Lookup(c), pc'[c] = "done"
    PROVE  IInv'
<1> USE DEF IInv
<1>1. /\ pc[c] = "lookup" /\ call[c].identity \in Identities
      /\ \/ UNCHANGED <<versionCache, authCache>>
         \/ /\ ~disabled /\ versionCache' = Swept(versionCache, call[c].identity)
            /\ authCache' = Swept(authCache, call[c].identity) \/ authCache' = authCache
      /\ \E how \in {"manage_disabled", "verified"} : End(c, how)
      /\ UNCHANGED <<clock, binary, events, seen, generation, disabled, registry, flight>>
  BY CallShape DEF Lookup, Goto, world, caches, TypeOK
<1>2. /\ pc' = [pc EXCEPT ![c] = "done"]
      /\ call' \in [Callers -> Locals] /\ call'[c].target = None
      /\ call'[c].force = call[c].force
      /\ \A d \in Callers : d # c => call'[d] = call[d]
      /\ outcome' \in [Callers -> Errors \cup {"verified"}]
  BY <1>1, EndShape DEF TypeOK, Errors
<1>3. /\ Caches' /\ generation \in Nat /\ (generation' = generation \/ generation' = generation + 1)
      /\ \A i \in Identities : {versionCache'[i], authCache'[i]} \subseteq Entries \cup {None}
  BY <1>1, SweptShape, KeepShape DEF DisabledRetainsNothing, Caches
<1>4. TypeOK /\ TypeOK'
  BY <1>1, <1>2, <1>3, CallShape DEF TypeOK, Places, Errors
<1>5. OneOwner'
  BY <1>1, <1>2, <1>3, <1>4, CallShape, FlightShape DEF TypeOK, OneOwner, OwnerPlaces
<1>6. Waiters'
  BY <1>1, <1>2, <1>3, <1>4, CallShape, FlightShape DEF TypeOK, Waiters, OwnerPlaces
<1>7. Settled'
  BY <1>1, <1>2, <1>3, <1>4, CallShape, FlightShape DEF TypeOK, Settled, OwnerPlaces
<1>8. Fresh'
  BY <1>1, <1>2, <1>3, <1>4, CallShape, FlightShape DEF TypeOK, Fresh, OwnerPlaces, Probing
<1> QED
  BY <1>1, <1>2, <1>3, <1>4, <1>5, <1>6, <1>7, <1>8

LEMMA LookupMissesIInv ==
    ASSUME IInv, NEW c \in Callers, Lookup(c), pc'[c] # "done"
    PROVE  IInv'
<1> USE DEF IInv
<1>1. /\ pc[c] = "lookup" /\ call[c].identity \in Identities
      /\ pc' = [pc EXCEPT ![c] = "choose"]
      /\ ~disabled /\ versionCache' = Swept(versionCache, call[c].identity)
      /\ authCache' = Swept(authCache, call[c].identity) \/ authCache' = authCache
      /\ \E version, auth \in Records : call' = [call EXCEPT ![c].version = version, ![c].auth = auth]
      /\ UNCHANGED <<clock, binary, events, seen, generation, disabled, registry, flight,
                     outcome>>
  <2>1. /\ call[c].identity \in Identities /\ Caches
        /\ pc[c] = "lookup" /\ pc \in [Callers -> Places]
    BY CallShape DEF TypeOK, Lookup
  <2>2. /\ Cached(versionCache[call[c].identity]) \in Records
        /\ Cached(authCache[call[c].identity]) \in Records
        /\ None \in Records
    BY <2>1, CachedShape DEF Caches, Records
  <2> QED
    BY <2>1, <2>2 DEF Lookup, End, Goto, world, caches
<1>2. /\ call' \in [Callers -> Locals] /\ \A d \in Callers : d # c => call'[d] = call[d]
      /\ call'[c].force = call[c].force
      /\ call'[c].identity = call[c].identity
      /\ call'[c].found = call[c].found
      /\ call'[c].need = call[c].need
      /\ call'[c].gen = call[c].gen
      /\ call'[c].target = call[c].target
  <2>1. call[c] \in Locals
    BY DEF TypeOK
  <2>2. call'[c] \in Locals
    <3>1. PICK version, auth \in Records : call' = [call EXCEPT ![c].version = version, ![c].auth = auth]
      BY <1>1
    <3> QED
      BY <2>1, <3>1 DEF Locals, TypeOK
  <2> QED
    BY <1>1, <2>1, <2>2 DEF TypeOK, Locals
<1>3. /\ Caches' /\ generation \in Nat /\ (generation' = generation \/ generation' = generation + 1)
      /\ \A i \in Identities : {versionCache'[i], authCache'[i]} \subseteq Entries \cup {None}
  BY <1>1, SweptShape, KeepShape DEF DisabledRetainsNothing, Caches
<1>4. TypeOK /\ TypeOK'
  BY <1>1, <1>2, <1>3, CallShape DEF TypeOK, Places, Errors
<1>5. OneOwner'
  BY <1>1, <1>2, <1>3, <1>4, CallShape, FlightShape DEF TypeOK, OneOwner, OwnerPlaces
<1>6. Waiters'
  BY <1>1, <1>2, <1>3, <1>4, CallShape, FlightShape DEF TypeOK, Waiters, OwnerPlaces
<1>7. Settled'
  BY <1>1, <1>2, <1>3, <1>4, CallShape, FlightShape DEF TypeOK, Settled, OwnerPlaces
<1>8. Fresh'
  BY <1>1, <1>2, <1>3, <1>4, CallShape, FlightShape DEF TypeOK, Fresh, OwnerPlaces, Probing
<1> QED
  BY <1>1, <1>2, <1>3, <1>4, <1>5, <1>6, <1>7, <1>8

LEMMA OwnIInv ==
    ASSUME IInv, NEW c \in Callers, Own(c)
    PROVE  IInv'
<1> USE DEF IInv
<1>1. /\ pc[c] = "choose" /\ ~disabled /\ registry = {} /\ registry' = registry \cup {c}
      /\ \/ call[c].force /\ DropResults
         \/ ~call[c].force /\ UNCHANGED <<generation, versionCache, authCache>>
      /\ \E need \in SUBSET {"version", "auth"} :
           /\ call[c].force => "version" \in need
           /\ "version" \in need => call[c].force \/ call[c].version = None
           /\ "auth" \in need => call[c].force \/ call[c].auth = None
           /\ call' = [call EXCEPT ![c].gen = generation', ![c].need = need]
           /\ pc' = [pc EXCEPT ![c] = IF "version" \in need THEN "version" ELSE "auth"]
      /\ flight' = [flight EXCEPT ![c] =
                      [gen |-> generation', context |-> call[c].identity, force |-> call[c].force,
                       done |-> FALSE, error |-> "none", result |-> None, committed |-> FALSE]]
      /\ UNCHANGED <<clock, binary, events, seen, disabled, outcome>>
  <2>1. generation' = IF call[c].force THEN generation + 1 ELSE generation
    BY DEF Own, DropResults
  <2> DEFINE need == {n \in {"version", "auth"} :
                        /\ call[c].force \/ call[c][n] = None
                        /\ n = "auth" => HasAuth}
  <2>2. /\ need \in SUBSET {"version", "auth"}
        /\ call[c].force => "version" \in need
        /\ "version" \in need => call[c].force \/ call[c].version = None
        /\ "auth" \in need => call[c].force \/ call[c].auth = None
    OBVIOUS
  <2>3. /\ call' = [call EXCEPT ![c].gen = generation', ![c].need = need]
        /\ pc' = [pc EXCEPT ![c] = IF "version" \in need THEN "version" ELSE "auth"]
    BY <2>1 DEF Own, Goto
  <2>4. /\ pc[c] = "choose" /\ ~disabled /\ registry = {} /\ registry' = registry \cup {c}
        /\ \/ call[c].force /\ DropResults
           \/ ~call[c].force /\ UNCHANGED <<generation, versionCache, authCache>>
        /\ UNCHANGED <<clock, binary, events, seen, disabled, outcome>>
    BY DEF Own, Open, NoActive, world, caches
  <2>5. flight' = [flight EXCEPT ![c] =
                     [gen |-> generation', context |-> call[c].identity, force |-> call[c].force,
                      done |-> FALSE, error |-> "none", result |-> None, committed |-> FALSE]]
    BY <2>1 DEF Own
  <2> HIDE DEF need
  <2> QED
    BY <2>2, <2>3, <2>4, <2>5
<1>2. /\ call' \in [Callers -> Locals] /\ \A d \in Callers : d # c => call'[d] = call[d]
      /\ call'[c].gen = generation'
      /\ "version" \in call'[c].need => call'[c].force \/ call'[c].version = None
      /\ "auth" \in call'[c].need => call'[c].force \/ call'[c].auth = None
      /\ pc' = [pc EXCEPT ![c] = IF "version" \in call'[c].need THEN "version" ELSE "auth"]
      /\ call'[c].force => "version" \in call'[c].need
      /\ call'[c].force = call[c].force
      /\ call'[c].identity = call[c].identity
      /\ call'[c].found = call[c].found
      /\ call'[c].version = call[c].version
      /\ call'[c].auth = call[c].auth
      /\ call'[c].target = call[c].target
  <2>1. call[c] \in Locals /\ generation' \in Nat
    BY <1>1 DEF TypeOK, DropResults
  <2>2. PICK need \in SUBSET {"version", "auth"} :
          /\ call[c].force => "version" \in need
          /\ "version" \in need => call[c].force \/ call[c].version = None
          /\ "auth" \in need => call[c].force \/ call[c].auth = None
          /\ call' = [call EXCEPT ![c].gen = generation', ![c].need = need]
          /\ pc' = [pc EXCEPT ![c] = IF "version" \in need THEN "version" ELSE "auth"]
    BY <1>1
  <2>3. call'[c] \in Locals
    BY <2>1, <2>2 DEF Locals, TypeOK
  <2> QED
    BY <2>1, <2>2, <2>3 DEF TypeOK, Locals
<1>3. /\ flight' \in [Callers -> Flights \cup {None}] /\ \A d \in Callers : d # c => flight'[d] = flight[d]
      /\ flight'[c] # None /\ flight'[c].gen = generation' /\ flight'[c].force = call[c].force
      /\ ~flight'[c].done /\ ~flight'[c].committed /\ flight'[c].error = "none"
  <2>1. generation' \in Nat /\ call[c].identity \in Identities /\ call[c].force \in BOOLEAN
    BY <1>1, CallShape DEF DropResults, TypeOK
  <2>2. [gen |-> generation', context |-> call[c].identity, force |-> call[c].force,
         done |-> FALSE, error |-> "none", result |-> None, committed |-> FALSE] \in Flights
    BY <2>1 DEF Flights, Errors
  <2> QED
    BY <1>1, <2>2, NoFlightAssumption DEF TypeOK
<1>4. /\ Caches' /\ generation \in Nat /\ (generation' = generation \/ generation' = generation + 1)
      /\ \A i \in Identities : {versionCache'[i], authCache'[i]} \subseteq Entries \cup {None}
  BY <1>1, DropShape, KeepShape DEF DisabledRetainsNothing, Caches
<1>5. TypeOK /\ TypeOK'
  BY <1>1, <1>2, <1>3, <1>4, CallShape DEF TypeOK, Places, Errors
<1>6. OneOwner'
  BY <1>1, <1>2, <1>3, <1>4, <1>5 DEF TypeOK, OneOwner, OwnerPlaces
<1>7. Waiters'
  BY <1>1, <1>2, <1>3, <1>4, <1>5, CallShape, FlightShape DEF TypeOK, Waiters, OwnerPlaces
<1>8. Settled'
  BY <1>1, <1>2, <1>3, <1>4, <1>5, CallShape, FlightShape DEF TypeOK, Settled, OwnerPlaces
<1>9. Fresh'
  BY <1>1, <1>2, <1>3, <1>4, <1>5, CallShape, FlightShape DEF TypeOK, Fresh, OwnerPlaces, Probing
<1> QED
  BY <1>1, <1>2, <1>3, <1>4, <1>5, <1>6, <1>7, <1>8, <1>9

LEMMA TakeResultIInv ==
    ASSUME IInv, NEW c \in Callers, TakeResult(c)
    PROVE  IInv'
<1> USE DEF IInv
<1>1. /\ pc[c] = "joined" /\ call[c].target \in Callers /\ flight[call[c].target] # None
      /\ flight' = LetGo(flight, c, call[c].target)
      /\ \E how \in Errors \cup {"verified"} : End(c, how)
      /\ UNCHANGED <<clock, binary, events, seen, generation, versionCache, authCache, disabled,
                     registry>>
  BY FlightShape DEF TakeResult, Waiters, world, caches, TypeOK
<1>2. /\ pc' = [pc EXCEPT ![c] = "done"]
      /\ call' \in [Callers -> Locals] /\ call'[c].target = None
      /\ call'[c].force = call[c].force
      /\ \A d \in Callers : d # c => call'[d] = call[d]
      /\ outcome' \in [Callers -> Errors \cup {"verified"}]
  BY <1>1, EndShape DEF TypeOK, Errors
<1>3. /\ flight' \in [Callers -> Flights \cup {None}]
      /\ \A d \in Callers : flight'[d] = flight[d] \/ flight'[d] = None
      /\ \A d \in Callers : flight'[d] # flight[d] =>
            pc[d] = "done" /\ d \notin registry /\ \A e \in Callers \ {c} : call[e].target # d
  BY <1>1, LetGoShape DEF TypeOK
<1>4. /\ Caches' /\ generation \in Nat /\ (generation' = generation \/ generation' = generation + 1)
      /\ \A i \in Identities : {versionCache'[i], authCache'[i]} \subseteq Entries \cup {None}
  BY <1>1, DropShape, KeepShape DEF DisabledRetainsNothing, Caches
<1>5. TypeOK /\ TypeOK'
  BY <1>1, <1>2, <1>3, <1>4, CallShape DEF TypeOK, Places, Errors
<1>6. OneOwner'
  BY <1>1, <1>2, <1>3, <1>4, <1>5, CallShape, FlightShape DEF TypeOK, OneOwner, OwnerPlaces
<1>7. Waiters'
  BY <1>1, <1>2, <1>3, <1>4, <1>5, CallShape, FlightShape DEF TypeOK, Waiters, OwnerPlaces
<1>8. Settled'
  BY <1>1, <1>2, <1>3, <1>4, <1>5, CallShape, FlightShape DEF TypeOK, Settled, OwnerPlaces
<1>9. Fresh'
  BY <1>1, <1>2, <1>3, <1>4, <1>5, CallShape, FlightShape DEF TypeOK, Fresh, OwnerPlaces, Probing
<1> QED
  BY <1>1, <1>2, <1>3, <1>4, <1>5, <1>6, <1>7, <1>8, <1>9

LEMMA StartsOverIInv ==
    ASSUME IInv, NEW c \in Callers, StartOver(c) /\ ~disabled
    PROVE  IInv'
<1> USE DEF IInv
<1>1. /\ pc[c] = "waiting" /\ call[c].target \in Callers /\ flight[call[c].target] # None
      /\ flight' = LetGo(flight, c, call[c].target)
      /\ pc' = [pc EXCEPT ![c] = "begin"] /\ call' = [call EXCEPT ![c].target = None]
      /\ UNCHANGED <<clock, binary, events, seen, generation, versionCache, authCache, disabled,
                     registry, outcome>>
  BY DEF StartOver, Goto, Waiters, world, caches, TypeOK
<1>2. /\ call' \in [Callers -> Locals] /\ \A d \in Callers : d # c => call'[d] = call[d]
      /\ call'[c].target = None
      /\ call'[c].force = call[c].force
      /\ call'[c].identity = call[c].identity
      /\ call'[c].found = call[c].found
      /\ call'[c].version = call[c].version
      /\ call'[c].auth = call[c].auth
      /\ call'[c].need = call[c].need
      /\ call'[c].gen = call[c].gen
  <2>1. call[c] \in Locals
    BY DEF TypeOK
  <2>2. call'[c] \in Locals
    BY <1>1, <2>1 DEF Locals, Records, Probed, TypeOK
  <2> QED
    BY <1>1, <2>1, <2>2 DEF TypeOK, Locals
<1>3. /\ flight' \in [Callers -> Flights \cup {None}]
      /\ \A d \in Callers : flight'[d] = flight[d] \/ flight'[d] = None
      /\ \A d \in Callers : flight'[d] # flight[d] =>
            pc[d] = "done" /\ d \notin registry /\ \A e \in Callers \ {c} : call[e].target # d
  BY <1>1, LetGoShape DEF TypeOK
<1>4. /\ Caches' /\ generation \in Nat /\ (generation' = generation \/ generation' = generation + 1)
      /\ \A i \in Identities : {versionCache'[i], authCache'[i]} \subseteq Entries \cup {None}
  BY <1>1, DropShape, KeepShape DEF DisabledRetainsNothing, Caches
<1>5. TypeOK /\ TypeOK'
  BY <1>1, <1>2, <1>3, <1>4, CallShape DEF TypeOK, Places, Errors
<1>6. OneOwner'
  BY <1>1, <1>2, <1>3, <1>4, <1>5, CallShape, FlightShape DEF TypeOK, OneOwner, OwnerPlaces
<1>7. Waiters'
  BY <1>1, <1>2, <1>3, <1>4, <1>5, CallShape, FlightShape DEF TypeOK, Waiters, OwnerPlaces
<1>8. Settled'
  BY <1>1, <1>2, <1>3, <1>4, <1>5, CallShape, FlightShape DEF TypeOK, Settled, OwnerPlaces
<1>9. Fresh'
  BY <1>1, <1>2, <1>3, <1>4, <1>5, CallShape, FlightShape DEF TypeOK, Fresh, OwnerPlaces, Probing
<1> QED
  BY <1>1, <1>2, <1>3, <1>4, <1>5, <1>6, <1>7, <1>8, <1>9

LEMMA EndsDisabledIInv ==
    ASSUME IInv, NEW c \in Callers, NEW o \in Callers, StartOver(c), disabled, o = call[c].target
    PROVE  IInv'
<1> USE DEF IInv
<1>1. /\ pc[c] = "waiting" /\ disabled /\ flight[o] # None /\ call[c].target = o
      /\ flight' = LetGo([flight EXCEPT ![o].error = FenceError(o)], c, o)
      /\ FenceError(o) \in Errors /\ FenceError(o) # "none" /\ End(c, FenceError(o))
      /\ UNCHANGED <<clock, binary, events, seen, generation, versionCache, authCache, disabled,
                     registry>>
  BY FenceShape DEF StartOver, Waiters, world, caches, TypeOK
<1>2. /\ pc' = [pc EXCEPT ![c] = "done"]
      /\ call' \in [Callers -> Locals] /\ call'[c].target = None
      /\ call'[c].force = call[c].force
      /\ \A d \in Callers : d # c => call'[d] = call[d]
      /\ outcome' \in [Callers -> Errors \cup {"verified"}]
  BY <1>1, EndShape DEF TypeOK, Errors
<1>3. /\ flight' \in [Callers -> Flights \cup {None}]
      /\ \A d \in Callers : d # o => flight'[d] = flight[d]
      /\ \/ /\ flight'[o] = None /\ pc[o] = "done" /\ o \notin registry
            /\ \A e \in Callers \ {c} : call[e].target # o
         \/ /\ flight'[o] # None /\ flight'[o].error # "none" /\ flight'[o].gen = flight[o].gen
            /\ flight'[o].force = flight[o].force /\ flight'[o].result = flight[o].result
            /\ flight'[o].committed = flight[o].committed
  <2> DEFINE new == [flight EXCEPT ![o].error = FenceError(o)]
  <2>1. /\ new \in [Callers -> Flights \cup {None}] /\ \A d \in Callers : d # o => new[d] = flight[d]
        /\ new[o] # None /\ new[o].error # "none"
        /\ new[o].gen = flight[o].gen /\ new[o].force = flight[o].force
        /\ new[o].result = flight[o].result /\ new[o].committed = flight[o].committed
    BY <1>1, ErrorShape
  <2>2. flight' = LetGo(new, c, o)
    BY <1>1
  <2> HIDE DEF new
  <2> QED
    BY <2>1, <2>2, LetGoShape
<1>4. /\ Caches' /\ generation \in Nat /\ (generation' = generation \/ generation' = generation + 1)
      /\ \A i \in Identities : {versionCache'[i], authCache'[i]} \subseteq Entries \cup {None}
  BY <1>1, DropShape, KeepShape DEF DisabledRetainsNothing, Caches
<1>5. /\ pc[c] = "waiting" /\ disabled /\ flight[o] # None /\ call[c].target = o
      /\ UNCHANGED <<clock, binary, events, seen, generation, versionCache, authCache, disabled,
                     registry>>
  BY <1>1
<1>6. TypeOK /\ TypeOK'
  BY <1>2, <1>3, <1>4, <1>5, CallShape DEF TypeOK, Places, Errors
<1>7. OneOwner'
  BY <1>2, <1>3, <1>4, <1>5, <1>6, CallShape, FlightShape DEF TypeOK, OneOwner, OwnerPlaces
<1>8. Waiters'
  BY <1>2, <1>3, <1>4, <1>5, <1>6, CallShape, FlightShape DEF TypeOK, Waiters, OwnerPlaces
<1>9. Settled'
  BY <1>2, <1>3, <1>4, <1>5, <1>6, CallShape, FlightShape DEF TypeOK, Settled, OwnerPlaces
<1>10. Fresh'
  BY <1>2, <1>3, <1>4, <1>5, <1>6, CallShape, FlightShape DEF TypeOK, Fresh, OwnerPlaces, Probing
<1> QED
  BY <1>2, <1>3, <1>4, <1>5, <1>6, <1>7, <1>8, <1>9, <1>10

(* The owner raises: its flight keeps the first error.                   *)
LEMMA FailIInv ==
    ASSUME IInv, NEW c \in Callers, NEW error \in Errors \ {"none"},
           pc[c] \in {"version", "auth", "recheck", "commit"}, Fail(c, error),
           UNCHANGED <<clock, binary, events, seen, generation, versionCache, authCache, disabled,
                     registry, call>>
    PROVE  IInv'
<1> USE DEF IInv
<1>1. /\ pc[c] \in {"version", "auth", "recheck", "commit"}
      /\ pc' = [pc EXCEPT ![c] = "finish"] /\ flight[c] # None /\ ~flight[c].committed
      /\ UNCHANGED <<clock, binary, events, seen, generation, versionCache, authCache, disabled,
                     registry, call>>
  BY DEF Fail, Goto, OneOwner, Settled, OwnerPlaces
<1>2. /\ flight' \in [Callers -> Flights \cup {None}] /\ \A d \in Callers : d # c => flight'[d] = flight[d]
      /\ flight'[c] # None /\ flight'[c].error # "none" /\ flight'[c].gen = flight[c].gen
      /\ flight'[c].force = flight[c].force /\ ~flight'[c].committed
      /\ outcome' \in [Callers -> Errors \cup {"verified"}]
  <2> DEFINE public == IF flight[c].error = "none" THEN error ELSE flight[c].error
  <2>1. public \in Errors /\ public # "none"
    BY <1>1, FlightShape
  <2>2. flight' = [flight EXCEPT ![c].error = public] /\ outcome' = [outcome EXCEPT ![c] = public]
    BY DEF Fail
  <2> HIDE DEF public
  <2> QED
    BY <1>1, <2>1, <2>2, ErrorShape DEF TypeOK
<1>3. /\ Caches' /\ generation \in Nat /\ (generation' = generation \/ generation' = generation + 1)
      /\ \A i \in Identities : {versionCache'[i], authCache'[i]} \subseteq Entries \cup {None}
  BY <1>1, DropShape, KeepShape DEF DisabledRetainsNothing, Caches
<1>4. TypeOK /\ TypeOK'
  BY <1>1, <1>2, <1>3, CallShape DEF TypeOK, Places, Errors
<1>5. OneOwner'
  BY <1>1, <1>2, <1>3, <1>4, CallShape, FlightShape DEF TypeOK, OneOwner, OwnerPlaces
<1>6. Waiters'
  BY <1>1, <1>2, <1>3, <1>4, CallShape, FlightShape DEF TypeOK, Waiters, OwnerPlaces
<1>7. Settled'
  BY <1>1, <1>2, <1>3, <1>4, CallShape, FlightShape DEF TypeOK, Settled, OwnerPlaces
<1>8. Fresh'
  BY <1>1, <1>2, <1>3, <1>4, CallShape, FlightShape DEF TypeOK, Fresh, OwnerPlaces, Probing
<1> QED
  BY <1>1, <1>2, <1>3, <1>4, <1>5, <1>6, <1>7, <1>8

LEMMA VersionRunsIInv ==
    ASSUME IInv, NEW c \in Callers, ProbeVersion(c), FenceError(c) = "none"
    PROVE  IInv'
<1> USE DEF IInv
<1>1. /\ pc[c] = "version" /\ pc[c] \in OwnerPlaces /\ pc[c] # "finish"
      /\ pc' = [pc EXCEPT ![c] = "recheck"] \/ pc' = [pc EXCEPT ![c] = "auth"]
      /\ \E code \in Outcomes : call' = [call EXCEPT ![c].version =
                                       [code |-> code, gen |-> generation, since |-> clock]]
      /\ UNCHANGED <<clock, binary, events, seen, generation, versionCache, authCache, disabled,
                     registry, flight, outcome>>
  BY DEF ProbeVersion, Probe, Goto, Outcomes, OwnerPlaces, world, caches
<1>2. /\ call' \in [Callers -> Locals] /\ \A d \in Callers : d # c => call'[d] = call[d]
      /\ call'[c].version \in Probed /\ call'[c].version.gen = generation
      /\ call'[c].force = call[c].force
      /\ call'[c].identity = call[c].identity
      /\ call'[c].found = call[c].found
      /\ call'[c].auth = call[c].auth
      /\ call'[c].need = call[c].need
      /\ call'[c].gen = call[c].gen
      /\ call'[c].target = call[c].target
  <2>1. call[c] \in Locals /\ generation \in Nat /\ clock \in Nat
    BY VerifyAssumption DEF TypeOK
  <2>2. PICK code \in Outcomes : call' = [call EXCEPT ![c].version =
                                            [code |-> code, gen |-> generation, since |-> clock]]
    BY <1>1
  <2>3. [code |-> code, gen |-> generation, since |-> clock] \in Probed
    BY <2>1 DEF Probed
  <2> HIDE DEF Probed
  <2>4. call'[c] \in Locals
    BY <2>1, <2>2, <2>3 DEF Locals, Records, TypeOK
  <2> QED
    BY <2>1, <2>2, <2>3, <2>4 DEF TypeOK, Locals
<1>3. /\ Caches' /\ generation \in Nat /\ (generation' = generation \/ generation' = generation + 1)
      /\ \A i \in Identities : {versionCache'[i], authCache'[i]} \subseteq Entries \cup {None}
  BY <1>1, DropShape, KeepShape DEF DisabledRetainsNothing, Caches
<1>4. TypeOK /\ TypeOK'
  BY <1>1, <1>2, <1>3, CallShape DEF TypeOK, Places, Errors
<1>5. OneOwner'
  BY <1>1, <1>2, <1>3, <1>4, CallShape, FlightShape DEF TypeOK, OneOwner, OwnerPlaces
<1>6. Waiters'
  BY <1>1, <1>2, <1>3, <1>4, CallShape, FlightShape DEF TypeOK, Waiters, OwnerPlaces
<1>7. Settled'
  BY <1>1, <1>2, <1>3, <1>4, CallShape, FlightShape DEF TypeOK, Settled, OwnerPlaces
<1>8. Fresh'
  BY <1>1, <1>2, <1>3, <1>4, CallShape, FlightShape DEF TypeOK, Fresh, OwnerPlaces, Probing
<1> QED
  BY <1>1, <1>2, <1>3, <1>4, <1>5, <1>6, <1>7, <1>8

LEMMA AuthRunsIInv ==
    ASSUME IInv, NEW c \in Callers, ProbeAuth(c), FenceError(c) = "none"
    PROVE  IInv'
<1> USE DEF IInv
<1>1. /\ pc[c] = "auth" /\ pc[c] \in OwnerPlaces /\ pc[c] # "finish"
      /\ pc' = [pc EXCEPT ![c] = "recheck"]
      /\ \E code \in Outcomes : call' = [call EXCEPT ![c].auth =
                                       [code |-> code, gen |-> generation, since |-> clock]]
      /\ UNCHANGED <<clock, binary, events, seen, generation, versionCache, authCache, disabled,
                     registry, flight, outcome>>
  BY DEF ProbeAuth, Probe, Goto, Outcomes, OwnerPlaces, world, caches
<1>2. /\ call' \in [Callers -> Locals] /\ \A d \in Callers : d # c => call'[d] = call[d]
      /\ call'[c].auth \in Probed /\ call'[c].auth.gen = generation
      /\ call'[c].force = call[c].force
      /\ call'[c].identity = call[c].identity
      /\ call'[c].found = call[c].found
      /\ call'[c].version = call[c].version
      /\ call'[c].need = call[c].need
      /\ call'[c].gen = call[c].gen
      /\ call'[c].target = call[c].target
  <2>1. call[c] \in Locals /\ generation \in Nat /\ clock \in Nat
    BY VerifyAssumption DEF TypeOK
  <2>2. PICK code \in Outcomes : call' = [call EXCEPT ![c].auth =
                                            [code |-> code, gen |-> generation, since |-> clock]]
    BY <1>1
  <2>3. [code |-> code, gen |-> generation, since |-> clock] \in Probed
    BY <2>1 DEF Probed
  <2> HIDE DEF Probed
  <2>4. call'[c] \in Locals
    BY <2>1, <2>2, <2>3 DEF Locals, Records, TypeOK
  <2> QED
    BY <2>1, <2>2, <2>3, <2>4 DEF TypeOK, Locals
<1>3. /\ Caches' /\ generation \in Nat /\ (generation' = generation \/ generation' = generation + 1)
      /\ \A i \in Identities : {versionCache'[i], authCache'[i]} \subseteq Entries \cup {None}
  BY <1>1, DropShape, KeepShape DEF DisabledRetainsNothing, Caches
<1>4. TypeOK /\ TypeOK'
  BY <1>1, <1>2, <1>3, CallShape DEF TypeOK, Places, Errors
<1>5. OneOwner'
  BY <1>1, <1>2, <1>3, <1>4, CallShape, FlightShape DEF TypeOK, OneOwner, OwnerPlaces
<1>6. Waiters'
  BY <1>1, <1>2, <1>3, <1>4, CallShape, FlightShape DEF TypeOK, Waiters, OwnerPlaces
<1>7. Settled'
  BY <1>1, <1>2, <1>3, <1>4, CallShape, FlightShape DEF TypeOK, Settled, OwnerPlaces
<1>8. Fresh'
  BY <1>1, <1>2, <1>3, <1>4, CallShape, FlightShape DEF TypeOK, Fresh, OwnerPlaces, Probing
<1> QED
  BY <1>1, <1>2, <1>3, <1>4, <1>5, <1>6, <1>7, <1>8

LEMMA DiscardProbesIInv ==
    ASSUME IInv, NEW c \in Callers, DiscardProbes(c)
    PROVE  IInv'
<1> USE DEF IInv
<1>1. /\ pc[c] = "changed" /\ pc' = [pc EXCEPT ![c] = "commit"]
      /\ seen' \in Identities \cup {Unseen}
      /\ \/ UNCHANGED <<generation, versionCache, authCache>>
         \/ ~disabled /\ DropResults
      /\ call' = [call EXCEPT ![c].version = [code |-> "binary_changed", gen |-> generation,
                                              since |-> clock],
                              ![c].auth = None]
      /\ UNCHANGED <<clock, binary, events, disabled, registry, flight, outcome>>
  BY CallShape DEF DiscardProbes, ObserveBinary, Goto, world, caches, TypeOK
<1>2. /\ call' \in [Callers -> Locals] /\ \A d \in Callers : d # c => call'[d] = call[d]
      /\ call'[c].version \in Probed /\ call'[c].version.gen = generation
      /\ call'[c].auth = None
      /\ call'[c].force = call[c].force
      /\ call'[c].identity = call[c].identity
      /\ call'[c].found = call[c].found
      /\ call'[c].need = call[c].need
      /\ call'[c].gen = call[c].gen
      /\ call'[c].target = call[c].target
  <2>1. call[c] \in Locals /\ generation \in Nat /\ clock \in Nat
    BY VerifyAssumption DEF TypeOK
  <2>2. [code |-> "binary_changed", gen |-> generation, since |-> clock] \in Probed
    BY <2>1 DEF Probed, Outcomes
  <2> HIDE DEF Probed
  <2>3. call'[c] \in Locals
    BY <1>1, <2>1, <2>2 DEF Locals, Records, TypeOK
  <2> QED
    BY <1>1, <2>1, <2>2, <2>3 DEF TypeOK, Locals
<1>3. /\ Caches' /\ generation \in Nat /\ (generation' = generation \/ generation' = generation + 1)
      /\ \A i \in Identities : {versionCache'[i], authCache'[i]} \subseteq Entries \cup {None}
  BY <1>1, DropShape, KeepShape DEF DisabledRetainsNothing, Caches
<1>4. TypeOK /\ TypeOK'
  BY <1>1, <1>2, <1>3, CallShape DEF TypeOK, Places, Errors
<1>5. OneOwner'
  BY <1>1, <1>2, <1>3, <1>4, CallShape, FlightShape DEF TypeOK, OneOwner, OwnerPlaces
<1>6. Waiters'
  BY <1>1, <1>2, <1>3, <1>4, CallShape, FlightShape DEF TypeOK, Waiters, OwnerPlaces
<1>7. Settled'
  BY <1>1, <1>2, <1>3, <1>4, CallShape, FlightShape DEF TypeOK, Settled, OwnerPlaces
<1>8. Fresh'
  BY <1>1, <1>2, <1>3, <1>4, CallShape, FlightShape DEF TypeOK, Fresh, OwnerPlaces, Probing
<1> QED
  BY <1>1, <1>2, <1>3, <1>4, <1>5, <1>6, <1>7, <1>8

(* The owner's result is kept if no other generation has begun.           *)
LEMMA CommitIInv ==
    ASSUME IInv, NEW c \in Callers, Commit(c), ~CommitFence(c)
    PROVE  IInv'
<1> USE DEF IInv
<1>1. /\ pc[c] = "commit" /\ pc' = [pc EXCEPT ![c] = "finish"] /\ flight[c] # None
      /\ ~disabled /\ flight[c].error = "none"
      /\ versionCache' = IF Cacheable(c, "version") THEN Put(versionCache, c, "version", VersionTTL)
                         ELSE versionCache
      /\ authCache' = IF Cacheable(c, "auth") THEN Put(authCache, c, "auth", AuthTTL) ELSE authCache
      /\ flight' = [flight EXCEPT ![c].result = [version |-> call[c].version, auth |-> call[c].auth],
                                  ![c].committed = TRUE]
      /\ outcome' = [outcome EXCEPT ![c] = "verified"]
      /\ UNCHANGED <<clock, binary, events, seen, generation, disabled, registry, call>>
  BY FenceShape DEF Commit, CommitFence, OneOwner, OwnerPlaces, Goto, world, caches
<1>2. /\ flight' \in [Callers -> Flights \cup {None}] /\ \A d \in Callers : d # c => flight'[d] = flight[d]
      /\ flight'[c] # None /\ flight'[c].error = "none" /\ flight'[c].gen = flight[c].gen
      /\ flight'[c].force = flight[c].force /\ flight'[c].committed
      /\ flight'[c].result.version = call[c].version
      /\ outcome' \in [Callers -> Errors \cup {"verified"}]
  <2> DEFINE result == [version |-> call[c].version, auth |-> call[c].auth]
             new == [flight[c] EXCEPT !.result = result, !.committed = TRUE]
  <2>1. flight[c] \in Flights
    BY <1>1 DEF TypeOK
  <2>2. result \in Results /\ result.version = call[c].version
    BY CallShape DEF Results
  <2> HIDE DEF result
  <2>3. /\ new \in Flights /\ new.error = flight[c].error /\ new.gen = flight[c].gen
        /\ new.force = flight[c].force /\ new.committed /\ new.result = result
    BY <2>1, <2>2 DEF Flights
  <2>4. flight' = [flight EXCEPT ![c] = new]
    BY <1>1 DEF TypeOK, result
  <2>5. outcome' \in [Callers -> Errors \cup {"verified"}] /\ flight[c].error = "none"
    BY <1>1 DEF TypeOK
  <2> HIDE DEF new
  <2>6. /\ flight' \in [Callers -> Flights \cup {None}] /\ flight'[c] = new
        /\ \A d \in Callers : d # c => flight'[d] = flight[d]
    BY <2>3, <2>4 DEF TypeOK
  <2> QED
    BY <2>2, <2>3, <2>5, <2>6, NoFlightAssumption
<1>3. /\ versionCache' \in [Identities -> Entries \cup {None}]
      /\ \A i \in Identities : LET entry == versionCache'[i]
                               IN  entry # None /\ entry.own => entry.probe.gen = generation
  BY <1>1, VerifyAssumption, PutShape DEF Caches, OvertakenProbesNotCached
<1>4. flight[c].force => flight[c].gen <= call[c].version.gen
  BY <1>1, CallShape, FlightShape DEF Fresh, OwnerPlaces, Probing
<1>5. /\ authCache' \in [Identities -> Entries \cup {None}]
      /\ \A i \in Identities : LET entry == authCache'[i]
                               IN  entry # None /\ entry.own => entry.probe.gen = generation
  BY <1>1, VerifyAssumption, PutShape DEF Caches, OvertakenProbesNotCached
<1>6. /\ Caches' /\ generation \in Nat /\ (generation' = generation \/ generation' = generation + 1)
      /\ \A i \in Identities : {versionCache'[i], authCache'[i]} \subseteq Entries \cup {None}
  <2>1. generation \in Nat /\ generation' = generation
    BY <1>1 DEF TypeOK
  <2>2. OvertakenProbesNotCached'
    BY <1>1, <1>3, <1>5 DEF OvertakenProbesNotCached
  <2>3. DisabledRetainsNothing'
    BY <1>1 DEF DisabledRetainsNothing
  <2> QED
    BY <1>3, <1>5, <2>1, <2>2, <2>3 DEF Caches
<1>7. /\ pc[c] = "commit" /\ pc' = [pc EXCEPT ![c] = "finish"] /\ flight[c] # None
      /\ ~disabled /\ flight[c].error = "none"
      /\ UNCHANGED <<clock, binary, events, seen, generation, disabled, registry, call>>
  BY <1>1
<1>8. TypeOK /\ TypeOK'
  BY <1>2, <1>3, <1>4, <1>5, <1>6, <1>7, CallShape DEF TypeOK, Places, Errors
<1>9. OneOwner'
  BY <1>2, <1>3, <1>4, <1>5, <1>6, <1>7, <1>8, CallShape, FlightShape DEF TypeOK, OneOwner,
     OwnerPlaces
<1>10. Waiters'
  BY <1>2, <1>3, <1>4, <1>5, <1>6, <1>7, <1>8, CallShape, FlightShape DEF TypeOK, Waiters,
     OwnerPlaces
<1>11. Settled'
  BY <1>2, <1>3, <1>4, <1>5, <1>6, <1>7, <1>8, CallShape, FlightShape DEF TypeOK, Settled,
     OwnerPlaces
<1>12. Fresh'
  BY <1>2, <1>3, <1>4, <1>5, <1>6, <1>7, <1>8, CallShape, FlightShape DEF TypeOK, Fresh,
     OwnerPlaces, Probing
<1> QED
  BY <1>2, <1>3, <1>4, <1>5, <1>6, <1>7, <1>8, <1>9, <1>10, <1>11, <1>12

LEMMA FinishIInv ==
    ASSUME IInv, NEW c \in Callers, Finish(c)
    PROVE  IInv'
<1> USE DEF IInv
<1>1. /\ pc[c] = "finish" /\ flight[c] # None /\ registry' = registry \ {c}
      /\ \/ flight' = [flight EXCEPT ![c].done = TRUE]
         \/ /\ flight' = [flight EXCEPT ![c] = None]
            /\ \A d \in Callers : call[d].target # c
      /\ End(c, outcome[c])
      /\ UNCHANGED <<clock, binary, events, seen, generation, versionCache, authCache, disabled>>
  <2>1. pc[c] = "finish" /\ flight[c] # None /\ registry' = registry \ {c}
    BY DEF Finish, Retired, OneOwner, OwnerPlaces
  <2>2. Awaited(c) <=> \E d \in Callers : call[d].target = c
    BY <2>1 DEF Awaited
  <2>3. flight' = [flight EXCEPT ![c] = IF Awaited(c) THEN [flight[c] EXCEPT !.done = TRUE] ELSE None]
    BY DEF Finish, TypeOK
  <2>4. /\ End(c, outcome[c])
        /\ UNCHANGED <<clock, binary, events, seen, generation, versionCache, authCache, disabled>>
    BY DEF Finish, world, caches
  <2> QED
    BY <2>1, <2>2, <2>3, <2>4 DEF TypeOK
<1>2. /\ pc' = [pc EXCEPT ![c] = "done"]
      /\ call' \in [Callers -> Locals] /\ call'[c].target = None
      /\ call'[c].force = call[c].force
      /\ \A d \in Callers : d # c => call'[d] = call[d]
      /\ outcome' \in [Callers -> Errors \cup {"verified"}]
  BY <1>1, EndShape DEF TypeOK, Errors
<1>3. /\ flight' \in [Callers -> Flights \cup {None}] /\ \A d \in Callers : d # c => flight'[d] = flight[d]
      /\ \/ flight'[c] = None /\ \A d \in Callers : call[d].target # c
         \/ /\ flight'[c] # None /\ flight'[c].error = flight[c].error
            /\ flight'[c].gen = flight[c].gen /\ flight'[c].force = flight[c].force
            /\ flight'[c].committed = flight[c].committed /\ flight'[c].result = flight[c].result
  <2> DEFINE new == [flight[c] EXCEPT !.done = TRUE]
  <2>1. flight[c] \in Flights
    BY <1>1 DEF TypeOK
  <2>2. /\ new \in Flights /\ new.error = flight[c].error /\ new.gen = flight[c].gen
        /\ new.force = flight[c].force /\ new.committed = flight[c].committed
        /\ new.result = flight[c].result
    BY <2>1 DEF Flights
  <2>3. \/ flight' = [flight EXCEPT ![c] = new]
        \/ flight' = [flight EXCEPT ![c] = None] /\ \A d \in Callers : call[d].target # c
    BY <1>1 DEF TypeOK
  <2> HIDE DEF new
  <2> QED
    BY <1>1, <2>2, <2>3, NoFlightAssumption DEF TypeOK
<1>4. /\ Caches' /\ generation \in Nat /\ (generation' = generation \/ generation' = generation + 1)
      /\ \A i \in Identities : {versionCache'[i], authCache'[i]} \subseteq Entries \cup {None}
  BY <1>1, DropShape, KeepShape DEF DisabledRetainsNothing, Caches
<1>5. TypeOK /\ TypeOK'
  BY <1>1, <1>2, <1>3, <1>4, CallShape DEF TypeOK, Places, Errors
<1>6. OneOwner'
  BY <1>1, <1>2, <1>3, <1>4, <1>5, CallShape, FlightShape DEF TypeOK, OneOwner, OwnerPlaces
<1>7. Waiters'
  BY <1>1, <1>2, <1>3, <1>4, <1>5, CallShape, FlightShape DEF TypeOK, Waiters, OwnerPlaces
<1>8. Settled'
  BY <1>1, <1>2, <1>3, <1>4, <1>5, CallShape, FlightShape DEF TypeOK, Settled, OwnerPlaces
<1>9. Fresh'
  BY <1>1, <1>2, <1>3, <1>4, <1>5, CallShape, FlightShape DEF TypeOK, Fresh, OwnerPlaces, Probing
<1> QED
  BY <1>1, <1>2, <1>3, <1>4, <1>5, <1>6, <1>7, <1>8, <1>9

LEMMA DisableIInv ==
    ASSUME IInv, Disable
    PROVE  IInv'
<1> USE DEF IInv
<1>1. /\ disabled' /\ DropResults /\ seen' = Unseen /\ registry' = {}
      /\ flight' = [d \in Callers |-> IF d \in registry THEN DisabledFlight(flight[d]) ELSE flight[d]]
      /\ UNCHANGED <<clock, binary, events, call, pc, outcome>>
  BY DEF Disable, world
<1>2. \A d \in registry : flight[d] \in Flights
  BY DEF OneOwner, TypeOK
<1>3. flight' \in [Callers -> Flights \cup {None}]
  BY <1>1, <1>2, DisabledShape DEF TypeOK
<1>4. \A d \in Callers : flight[d] # None =>
         /\ flight'[d] # None /\ flight'[d].gen = flight[d].gen /\ flight'[d].force = flight[d].force
         /\ flight'[d].result = flight[d].result /\ flight'[d].committed = flight[d].committed
         /\ flight[d].error # "none" => flight'[d].error # "none"
         /\ flight'[d].done /\ flight'[d].error = "none" =>
              flight'[d].committed \/ (flight[d].done /\ flight[d].error = "none")
  BY <1>1, <1>2, DisabledShape, NoFlightAssumption DEF TypeOK
<1>5. \A d \in Callers : flight'[d] # None => flight[d] # None
  BY <1>1, <1>2, NoFlightAssumption DEF TypeOK
<1>6. /\ Caches' /\ generation \in Nat /\ (generation' = generation \/ generation' = generation + 1)
      /\ \A i \in Identities : {versionCache'[i], authCache'[i]} \subseteq Entries \cup {None}
  BY <1>1, DropShape, KeepShape DEF DisabledRetainsNothing, Caches
<1>7. TypeOK /\ TypeOK'
  BY <1>1, <1>2, <1>3, <1>4, <1>5, <1>6, CallShape DEF TypeOK, Places, Errors
<1>8. OneOwner'
  BY <1>1, <1>2, <1>3, <1>4, <1>5, <1>6, <1>7, CallShape, FlightShape DEF TypeOK, OneOwner,
     OwnerPlaces
<1>9. Waiters'
  BY <1>1, <1>2, <1>3, <1>4, <1>5, <1>6, <1>7, CallShape, FlightShape DEF TypeOK, Waiters,
     OwnerPlaces
<1>10. Settled'
  BY <1>1, <1>2, <1>3, <1>4, <1>5, <1>6, <1>7, CallShape, FlightShape DEF TypeOK, Settled,
     OwnerPlaces
<1>11. Fresh'
  BY <1>1, <1>2, <1>3, <1>4, <1>5, <1>6, <1>7, CallShape, FlightShape DEF TypeOK, Fresh,
     OwnerPlaces, Probing
<1> QED
  BY <1>1, <1>2, <1>3, <1>4, <1>5, <1>6, <1>7, <1>8, <1>9, <1>10, <1>11

-----------------------------------------------------------------------------
(* The invariant. *)

LEMMA InitIInv == Init => IInv
<1> SUFFICES ASSUME Init PROVE IInv
  OBVIOUS
<1>1. NoCall \in Locals /\ NoCall.target = None
  BY DEF NoCall, Locals, Records, Identities
<1>2. Empty \in [Identities -> Entries \cup {None}] /\ \A i \in Identities : Empty[i] = None
  BY DEF Empty
<1>3. TypeOK
  <2>1. /\ 0 \in 0 .. MaxClock /\ 0 \in 0 .. MaxEvents
        /\ {None} \subseteq Entries \cup {None} /\ {} \in SUBSET Callers
    BY VerifyAssumption
  <2>2. /\ [c \in Callers |-> None] \in [Callers -> Flights \cup {None}]
        /\ [c \in Callers |-> NoCall] \in [Callers -> Locals]
    BY <1>1
  <2>3. /\ [c \in Callers |-> "idle"] \in [Callers -> Places]
        /\ [c \in Callers |-> "none"] \in [Callers -> Errors \cup {"verified"}]
    BY DEF Places, Errors
  <2> QED
    BY <1>2, <2>1, <2>2, <2>3 DEF Init, TypeOK
<1>4. Caches
  BY <1>2 DEF Init, Caches, OvertakenProbesNotCached, DisabledRetainsNothing
<1>5. \A c \in Callers : pc[c] = "idle" /\ call[c] = NoCall /\ flight[c] = None
  BY DEF Init
<1>6. OneOwner
  BY <1>5 DEF Init, OneOwner, OwnerPlaces
<1>7. Waiters
  BY <1>1, <1>5 DEF Waiters
<1>8. Settled
  BY <1>5 DEF Settled
<1>9. Fresh
  BY <1>5 DEF Fresh, OwnerPlaces, Probing
<1> QED
  BY <1>3, <1>4, <1>6, <1>7, <1>8, <1>9 DEF IInv

LEMMA CallStepIInv ==
    ASSUME IInv, NEW c \in Callers, CallStep(c)
    PROVE  IInv'
<1>1. CASE Identify(c)
  <2>1. CASE disabled
    BY <1>1, <2>1, EndsIInv DEF Identify, Errors, world, caches
  <2>2. CASE ~disabled
    BY <1>1, <2>2, IdentifyIInv
  <2> QED
    BY <2>1, <2>2
<1>2. CASE Refused(c) \/ Busy(c)
  BY <1>2, EndsIInv DEF Refused, Busy, Errors, world, caches
<1>3. CASE Lookup(c)
  BY <1>3, LookupEndsIInv, LookupMissesIInv
<1>4. CASE Join(c)
  <2>1. PICK o \in registry : Joinable(c, o) /\ Block(c, o, "joined")
    BY <1>4 DEF Join
  <2> QED
    BY <1>4, <2>1, BlockIInv DEF Join
<1>5. CASE Wait(c)
  <2>1. PICK o \in registry : Block(c, o, "waiting")
    BY <1>5 DEF Wait
  <2> QED
    BY <1>5, <2>1, BlockIInv DEF Wait
<1>6. CASE StartOver(c)
  <2>1. pc[c] = "waiting" /\ call[c].target \in Callers
    BY <1>6 DEF StartOver, IInv, Waiters
  <2> QED
    BY <1>6, <2>1, StartsOverIInv, EndsDisabledIInv
<1>7. CASE ProbeVersion(c) \/ ProbeAuth(c)
  <2>1. pc[c] \in {"version", "auth"} /\ flight[c] # None
    BY <1>7 DEF ProbeVersion, ProbeAuth, Probe, IInv, OneOwner, OwnerPlaces
  <2>2. CASE FenceError(c) = "none"
    BY <1>7, <2>2, VersionRunsIInv, AuthRunsIInv
  <2>3. CASE FenceError(c) # "none"
    <3>1. FenceError(c) \in Errors \ {"none"}
      BY <2>1, <2>3, FenceShape DEF IInv
    <3>2. /\ Fail(c, FenceError(c))
          /\ UNCHANGED <<clock, binary, events, seen, generation, versionCache, authCache, disabled,
                         registry, call>>
      BY <1>7, <2>3 DEF ProbeVersion, ProbeAuth, Probe, world, caches
    <3> QED
      BY <2>1, <3>1, <3>2, FailIInv
  <2> QED
    BY <2>2, <2>3
<1>8. CASE ProbeRaises(c)
  BY <1>8, FailIInv DEF ProbeRaises, Errors, world, caches
<1>9. CASE Commit(c)
  <2>1. pc[c] = "commit" /\ flight[c] # None
    BY <1>9 DEF Commit, IInv, OneOwner, OwnerPlaces
  <2>2. CASE CommitFence(c)
    <3>1. FenceError(c) \in Errors \ {"none"}
      BY <2>1, <2>2, FenceShape DEF IInv, CommitFence
    <3>2. /\ Fail(c, FenceError(c))
          /\ UNCHANGED <<clock, binary, events, seen, generation, versionCache, authCache, disabled,
                         registry, call>>
      BY <1>9, <2>2 DEF Commit, world, caches
    <3> QED
      BY <2>1, <3>1, <3>2, FailIInv
  <2> QED
    BY <1>9, <2>2, CommitIInv
<1>10. CASE Observe(c) \/ CheckCurrent(c) \/ Own(c) \/ TakeResult(c)
  BY <1>10, ObserveIInv, CheckCurrentIInv, OwnIInv, TakeResultIInv
<1>11. CASE Recheck(c) \/ Compare(c) \/ DiscardProbes(c) \/ Finish(c)
  BY <1>11, RecheckIInv, CompareIInv, DiscardProbesIInv, FinishIInv
<1> QED
  BY <1>1, <1>2, <1>3, <1>4, <1>5, <1>6, <1>7, <1>8, <1>9, <1>10, <1>11 DEF CallStep

LEMMA StepIInv == IInv /\ [Next]_vars => IInv'
<1> SUFFICES ASSUME IInv, [Next]_vars PROVE IInv'
  OBVIOUS
<1>1. CASE UNCHANGED vars
  BY <1>1 DEF vars, IInv, TypeOK, Caches, OvertakenProbesNotCached, DisabledRetainsNothing,
     OneOwner, Waiters, Settled, Fresh, Empty
<1>2. CASE \E c \in Callers, force \in BOOLEAN : Call(c, force)
  BY <1>2, CallIInv
<1>3. CASE \E c \in Callers : CallStep(c)
  BY <1>3, CallStepIInv
<1>4. CASE Tick \/ \E b \in Identities : ReplaceBinary(b)
  BY <1>4, TickIInv
<1>5. CASE Invalidate \/ Disable
  BY <1>5, InvalidateIInv, DisableIInv
<1> QED
  BY <1>1, <1>2, <1>3, <1>4, <1>5 DEF Next, AllAnswered

(* The inductive invariant holds in every state the runtime reaches. *)
THEOREM Invariance == Spec => []IInv
<1>1. Init => IInv
  BY InitIInv
<1>2. IInv /\ [Next]_vars => IInv'
  BY StepIInv
<1> QED
  BY <1>1, <1>2, PTL DEF Spec

-----------------------------------------------------------------------------
(* The properties. *)

(* Every variable keeps its type, for any number of callers. *)
THEOREM TypeCorrect == Spec => []TypeOK
<1>1. IInv => TypeOK
  BY DEF IInv
<1> QED
  BY <1>1, Invariance, PTL

(* A set with one element at most is finite and counts one at most. *)
LEMMA AtMostOne ==
    ASSUME NEW S, \A x, y \in S : x = y
    PROVE  Cardinality(S) <= 1
<1>1. CASE S = {}
  BY <1>1, FS_EmptySet
<1>2. CASE S # {}
  <2>1. PICK x : S = {x}
    BY <1>2
  <2> QED
    BY <2>1, FS_Singleton
<1> QED
  BY <1>1, <1>2

(* Two calls never verify the provider at the same time, for any number of *)
(* callers.                                                                *)
THEOREM Serial == Spec => []VerificationSerial
<1>1. IInv => VerificationSerial
  <2> SUFFICES ASSUME IInv PROVE VerificationSerial
    OBVIOUS
  <2>1. \A c, d \in Callers : pc[c] \in OwnerPlaces /\ pc[d] \in OwnerPlaces => c = d
    BY DEF IInv, OneOwner
  <2>2. Cardinality({c \in Callers : pc[c] \in {"version", "auth"}}) <= 1
    <3> DEFINE S == {c \in Callers : pc[c] \in {"version", "auth"}}
    <3>1. \A x, y \in S : x = y
      BY <2>1 DEF OwnerPlaces
    <3> HIDE DEF S
    <3>2. Cardinality(S) <= 1
      BY <3>1, AtMostOne
    <3> QED
      BY <3>2 DEF S
  <2>3. registry \subseteq Callers /\ \A c \in registry : pc[c] \in OwnerPlaces
    BY DEF IInv, OneOwner, TypeOK
  <2>4. \A x, y \in registry : x = y
    BY <2>1, <2>3
  <2>5. Cardinality(registry) <= 1
    BY <2>4, AtMostOne
  <2> QED
    BY <2>2, <2>5 DEF VerificationSerial
<1> QED
  BY <1>1, Invariance, PTL

(* What an owner probed in a generation that is over stays out of the      *)
(* caches.                                                                 *)
THEOREM Overtaken == Spec => []OvertakenProbesNotCached
<1>1. IInv => OvertakenProbesNotCached
  BY DEF IInv, Caches
<1> QED
  BY <1>1, Invariance, PTL

(* A disabled runtime keeps neither flights nor results. *)
THEOREM DisabledIsEmpty == Spec => []DisabledRetainsNothing
<1>1. IInv => DisabledRetainsNothing
  BY DEF IInv, Caches
<1> QED
  BY <1>1, Invariance, PTL

-----------------------------------------------------------------------------
(* What a step may do to a flight and to its waiters. *)

(* A step of a call moves that call. *)
LEMMA MovesOwn ==
    ASSUME NEW d \in Callers, CallStep(d)
    PROVE  \E place \in Places : pc' = [pc EXCEPT ![d] = place]
<1>1. CASE Identify(d) \/ Observe(d) \/ CheckCurrent(d) \/ Lookup(d) \/ Refused(d) \/ Busy(d)
  BY <1>1 DEF Identify, Observe, CheckCurrent, Lookup, Refused, Busy, End, Goto, Places
<1>2. CASE Join(d) \/ Wait(d) \/ Own(d) \/ TakeResult(d) \/ StartOver(d)
  BY <1>2 DEF Join, Wait, Block, Own, TakeResult, StartOver, End, Goto, Places
<1>3. CASE ProbeVersion(d) \/ ProbeAuth(d) \/ ProbeRaises(d)
  BY <1>3 DEF ProbeVersion, ProbeAuth, ProbeRaises, Probe, Fail, Goto, Places
<1>4. CASE Recheck(d) \/ Compare(d) \/ DiscardProbes(d) \/ Commit(d) \/ Finish(d)
  BY <1>4 DEF Recheck, Compare, DiscardProbes, Commit, Finish, Fail, End, Goto, Places
<1> QED
  BY <1>1, <1>2, <1>3, <1>4 DEF CallStep

(* A call moves by its own steps only. *)
LEMMA OwnSteps ==
    ASSUME TypeOK, [Next]_vars, NEW c \in Callers, pc'[c] # pc[c], pc[c] # "idle"
    PROVE  CallStep(c)
<1>1. Next
  BY DEF vars
<1>2. CASE \E d \in Callers, force \in BOOLEAN : Call(d, force)
  BY <1>2 DEF Call, Goto, TypeOK
<1>3. CASE \E d \in Callers : CallStep(d)
  <2>1. PICK d \in Callers : CallStep(d)
    BY <1>3
  <2>2. \E place \in Places : pc' = [pc EXCEPT ![d] = place]
    BY <2>1, MovesOwn
  <2>3. d = c
    BY <2>2 DEF TypeOK
  <2> QED
    BY <2>1, <2>3
<1>4. CASE (\E b \in Identities : ReplaceBinary(b)) \/ Invalidate \/ Disable \/ Tick \/ AllAnswered
  BY <1>4 DEF ReplaceBinary, Invalidate, Disable, Tick, AllAnswered, vars
<1> QED
  BY <1>1, <1>2, <1>3, <1>4 DEF Next

(* A call that has not begun does not end. *)
LEMMA IdleStays ==
    ASSUME TypeOK, [Next]_vars, NEW c \in Callers, pc[c] = "idle"
    PROVE  pc'[c] # "done"
<1>1. CASE pc'[c] = pc[c]
  BY <1>1
<1>2. CASE \E d \in Callers, force \in BOOLEAN : Call(d, force)
  BY <1>2 DEF Call, Goto, TypeOK
<1>3. CASE \E d \in Callers : CallStep(d)
  <2>1. PICK d \in Callers : CallStep(d)
    BY <1>3
  <2>2. d # c
    BY <2>1 DEF CallStep, Identify, Observe, CheckCurrent, Lookup, Refused, Join, Busy, Wait, Own,
       TakeResult, StartOver, ProbeVersion, ProbeAuth, Probe, ProbeRaises, Recheck, Compare,
       DiscardProbes, Commit, Finish
  <2>3. \E place \in Places : pc' = [pc EXCEPT ![d] = place]
    BY <2>1, MovesOwn
  <2> QED
    BY <2>2, <2>3 DEF TypeOK
<1>4. CASE (\E b \in Identities : ReplaceBinary(b)) \/ Invalidate \/ Disable \/ Tick \/ AllAnswered
  BY <1>4 DEF ReplaceBinary, Invalidate, Disable, Tick, AllAnswered, vars
<1> QED
  BY <1>1, <1>2, <1>3, <1>4 DEF Next, vars

(* The waiters of a flight end by taking what it came to. *)
LEMMA Taken ==
    ASSUME IInv, [Next]_vars, NEW c \in Callers, pc[c] = "joined", pc'[c] = "done"
    PROVE  LET f == flight[call[c].target]
           IN  /\ call[c].target \in Callers /\ f # None /\ f.done
               /\ outcome'[c] = IF f.error # "none" THEN f.error ELSE "verified"
<1>1. CallStep(c)
  BY OwnSteps DEF IInv
<1>2. TakeResult(c)
  BY <1>1 DEF CallStep, Identify, Observe, CheckCurrent, Lookup, Refused, Join, Busy, Wait,
     Own, StartOver, ProbeVersion, ProbeAuth, Probe, ProbeRaises, Recheck, Compare,
     DiscardProbes, Commit, Finish
<1> QED
  BY <1>2 DEF TakeResult, End, IInv, TypeOK, Waiters

(* In a disabled runtime no flight commits. *)
LEMMA CommittedBefore ==
    ASSUME IInv, [Next]_vars, disabled, NEW c \in Callers, flight'[c] # None, flight'[c].committed
    PROVE  flight[c].committed
<1> USE DEF IInv
<1>1. CASE UNCHANGED flight
  BY <1>1
<1>2. ASSUME NEW d \in Callers, NEW error \in Errors, Fail(d, error), pc[d] \in OwnerPlaces
      PROVE  flight[c].committed
  <2>1. flight[d] # None
    BY <1>2 DEF OneOwner
  <2>2. PICK public \in Errors : flight' = [flight EXCEPT ![d].error = public]
    BY <1>2, <2>1, FlightShape DEF Fail
  <2> QED
    BY <2>1, <2>2, ErrorShape
<1>3. ASSUME NEW d \in Callers, TakeResult(d) \/ StartOver(d)
      PROVE  flight[c].committed
  <2>1. pc[d] \in {"joined", "waiting"}
    BY <1>3 DEF TakeResult, StartOver
  <2>2. PICK o \in Callers : o = call[d].target /\ flight[o] # None
    BY <2>1 DEF Waiters
  <2>3. CASE flight' = LetGo(flight, d, o)
    BY <2>2, <2>3, LetGoShape DEF TypeOK
  <2>4. CASE flight' = LetGo([flight EXCEPT ![o].error = FenceError(o)], d, o)
    <3> DEFINE new == [flight EXCEPT ![o].error = FenceError(o)]
    <3>1. /\ new \in [Callers -> Flights \cup {None}] /\ \A e \in Callers : e # o => new[e] = flight[e]
          /\ new[o].committed = flight[o].committed
      BY <2>2, ErrorShape, FenceShape
    <3>2. flight' = LetGo(new, d, o)
      BY <2>4
    <3> HIDE DEF new
    <3> QED
      BY <3>1, <3>2, LetGoShape
  <2> QED
    BY <1>3, <2>2, <2>3, <2>4 DEF TakeResult, StartOver
<1>4. ASSUME NEW d \in Callers, Finish(d)
      PROVE  flight[c].committed
  <2>1. flight[d] # None
    BY <1>4 DEF Finish, OneOwner, OwnerPlaces
  <2>2. flight[d] \in Flights
    BY <2>1, FlightShape
  <2>3. [flight[d] EXCEPT !.done = TRUE].committed = flight[d].committed
    BY <2>2 DEF Flights
  <2> QED
    BY <1>4, <2>3 DEF Finish, TypeOK
<1>5. ASSUME NEW d \in Callers, CallStep(d)
      PROVE  flight[c].committed
  <2>1. CASE ProbeVersion(d) \/ ProbeAuth(d) \/ ProbeRaises(d) \/ Commit(d)
    <3>1. pc[d] \in OwnerPlaces
      BY <2>1 DEF ProbeVersion, ProbeAuth, Probe, ProbeRaises, Commit, OwnerPlaces
    <3>2. FenceError(d) \in Errors /\ FenceError(d) # "none"
      BY <3>1, FenceShape DEF OneOwner
    <3> QED
      BY <1>2, <2>1, <3>1, <3>2 DEF ProbeVersion, ProbeAuth, Probe, ProbeRaises, Commit,
         CommitFence, Errors
  <2>2. CASE TakeResult(d) \/ StartOver(d) \/ Finish(d)
    BY <1>3, <1>4, <2>2
  <2>3. CASE Identify(d) \/ Observe(d) \/ CheckCurrent(d) \/ Lookup(d) \/ Refused(d)
    BY <1>1, <2>3 DEF Identify, Observe, CheckCurrent, Lookup, Refused
  <2>4. CASE Join(d) \/ Busy(d) \/ Wait(d) \/ Own(d)
    BY <1>1, <2>4 DEF Join, Busy, Wait, Own, Open
  <2>5. CASE Recheck(d) \/ Compare(d) \/ DiscardProbes(d)
    BY <1>1, <2>5 DEF Recheck, Compare, DiscardProbes
  <2> QED
    BY <1>5, <2>1, <2>2, <2>3, <2>4, <2>5 DEF CallStep
<1> QED
  BY <1>1, <1>5 DEF Next, Call, ReplaceBinary, Invalidate, Disable, Tick, AllAnswered, vars

(* A flight comes to one result, whoever waits for it. *)
THEOREM SettleOnce == Spec => FlightsSettleOnce
<1> DEFINE Once ==
      \A c \in Callers :
        /\ disabled /\ flight'[c] # None /\ flight'[c].committed => flight[c].committed
        /\ pc[c] = "joined" /\ pc'[c] = "done" =>
             LET f == flight[call[c].target]
             IN  IF outcome'[c] = "verified" THEN f.committed
                 ELSE f.error # "none" /\ (f.committed => disabled)
<1>1. IInv /\ [Next]_vars => Once
  <2> SUFFICES ASSUME IInv, [Next]_vars, NEW c \in Callers
               PROVE  /\ disabled /\ flight'[c] # None /\ flight'[c].committed => flight[c].committed
                      /\ pc[c] = "joined" /\ pc'[c] = "done" =>
                           LET f == flight[call[c].target]
                           IN  IF outcome'[c] = "verified" THEN f.committed
                               ELSE f.error # "none" /\ (f.committed => disabled)
    OBVIOUS
  <2>1. disabled /\ flight'[c] # None /\ flight'[c].committed => flight[c].committed
    BY CommittedBefore
  <2>2. ASSUME pc[c] = "joined", pc'[c] = "done"
        PROVE  LET f == flight[call[c].target]
               IN  IF outcome'[c] = "verified" THEN f.committed
                   ELSE f.error # "none" /\ (f.committed => disabled)
    <3>1. PICK o \in Callers :
            /\ o = call[c].target /\ flight[o] # None /\ flight[o].done
            /\ outcome'[c] = IF flight[o].error # "none" THEN flight[o].error ELSE "verified"
      BY <2>2, Taken
    <3>2. flight[o].error \in Errors /\ "verified" \notin Errors
      BY <3>1, FlightShape DEF IInv, Errors
    <3>3. /\ flight[o].error = "none" => flight[o].committed
          /\ flight[o].committed /\ flight[o].error # "none" => disabled
      BY <3>1 DEF IInv, Settled
    <3> QED
      BY <3>1, <3>2, <3>3
  <2> QED
    BY <2>1, <2>2
<1>2. Spec => [][Once]_vars
  BY <1>1, Invariance, PTL DEF Spec
<1> QED
  BY <1>2 DEF FlightsSettleOnce

(* A forced caller that waited is answered by a forced flight's own probe. *)
THEOREM Forced == Spec => ForcedAnswersAreForced
<1> DEFINE ByForce ==
      \A c \in Callers :
         call[c].force /\ pc[c] \notin {"finish", "done"} /\ pc'[c] = "done" /\ outcome'[c] = "verified" =>
           LET f == flight[call[c].target]
           IN  /\ pc[c] = "joined" /\ f.force
               /\ f.result.version.gen >= f.gen
<1>1. IInv /\ [Next]_vars => ByForce
  <2> SUFFICES ASSUME IInv, [Next]_vars, NEW c \in Callers, call[c].force,
                      pc[c] \notin {"finish", "done"}, pc'[c] = "done", outcome'[c] = "verified"
               PROVE  LET f == flight[call[c].target]
                      IN  /\ pc[c] = "joined" /\ f.force
                          /\ f.result.version.gen >= f.gen
    OBVIOUS
  <2> USE DEF IInv
  <2>1. pc[c] = "joined"
    <3>1. pc[c] # "idle"
      <4> SUFFICES ASSUME pc[c] = "idle" PROVE FALSE
        OBVIOUS
      <4> QED
        BY IdleStays
    <3>2. CallStep(c)
      BY <3>1, OwnSteps
    <3>3. "verified" \notin Errors /\ pc \in [Callers -> Places] /\ outcome \in [Callers -> Errors \cup {"verified"}]
      BY DEF TypeOK, Errors
    <3>4. ~Lookup(c)
      BY DEF Lookup, Fresh
    <3>5. ~Identify(c) /\ ~Refused(c) /\ ~Busy(c)
      BY <3>3 DEF Identify, Refused, Busy, End, Goto
    <3>6. ~StartOver(c)
      <4> SUFFICES ASSUME StartOver(c) PROVE FALSE
        OBVIOUS
      <4>1. FenceError(call[c].target) \in Errors
        BY FenceShape DEF StartOver, Waiters
      <4> QED
        BY <3>3, <4>1 DEF StartOver, End, Goto, Errors
    <3>7. ~Observe(c) /\ ~CheckCurrent(c) /\ ~Join(c) /\ ~Wait(c) /\ ~Own(c)
      BY <3>3 DEF Observe, CheckCurrent, Join, Wait, Block, Own, Goto
    <3>8. ~ProbeVersion(c) /\ ~ProbeAuth(c) /\ ~ProbeRaises(c)
      BY <3>3 DEF ProbeVersion, ProbeAuth, Probe, ProbeRaises, Fail, Goto
    <3>9. ~Recheck(c) /\ ~Compare(c) /\ ~DiscardProbes(c) /\ ~Commit(c) /\ ~Finish(c)
      BY <3>3 DEF Recheck, Compare, DiscardProbes, Commit, Fail, Goto, Finish
    <3> QED
      BY <3>2, <3>4, <3>5, <3>6, <3>7, <3>8, <3>9 DEF CallStep, TakeResult
  <2>2. PICK o \in Callers :
          /\ o = call[c].target /\ flight[o] # None /\ flight[o].done
          /\ outcome'[c] = IF flight[o].error # "none" THEN flight[o].error ELSE "verified"
    BY <2>1, Taken
  <2>3. flight[o].error = "none"
    BY <2>2, FlightShape DEF Errors
  <2>4. flight[o].force
    BY <2>1, <2>2 DEF Waiters
  <2>5. flight[o].gen <= flight[o].result.version.gen
    BY <2>2, <2>3, <2>4 DEF Settled
  <2> QED
    BY <2>1, <2>2, <2>4, <2>5
<1>2. Spec => [][ByForce]_vars
  BY <1>1, Invariance, PTL DEF Spec
<1> QED
  BY <1>2 DEF ForcedAnswersAreForced


-----------------------------------------------------------------------------
(* Refinement. *)

(* An owner about to leave has as its outcome what its flight came to. *)
Honest == \A c \in Callers : pc[c] = "finish" => (outcome[c] = "verified" <=> flight[c].committed)

LEMMA InitHonest == Init => Honest
BY DEF Init, Honest

(* A call keeps what was asked, and changes what can be seen of no other. *)
LEMMA StepsAlone ==
    ASSUME IInv, NEW c \in Callers, CallStep(c)
    PROVE  /\ \A d \in Callers : d # c => call'[d] = call[d] /\ outcome'[d] = outcome[d]
           /\ call'[c].force = call[c].force
           /\ pc[c] # "idle" /\ pc'[c] # "idle" /\ pc[c] # "done"
           /\ UNCHANGED disabled
<1>0. TypeOK /\ call[c] \in Locals /\ outcome \in [Callers -> Errors \cup {"verified"}]
  BY DEF IInv, TypeOK
<1>1. CASE Identify(c)
  <2>1. CASE disabled
    BY <1>0, <1>1, <2>1, EndShape DEF Identify, End, Goto, TypeOK
  <2>2. CASE ~disabled
    BY <1>0, <1>1, <2>2 DEF Identify, Goto, TypeOK, Locals
  <2> QED
    BY <2>1, <2>2
<1>2. CASE Refused(c) \/ Busy(c)
  BY <1>0, <1>2, EndShape DEF Refused, Busy, Open, End, Goto, TypeOK
<1>3. CASE Observe(c) \/ CheckCurrent(c)
  BY <1>0, <1>3 DEF Observe, CheckCurrent, Goto, TypeOK, Locals
<1>4. CASE Lookup(c)
  <2>1. CASE \E how : End(c, how)
    BY <1>0, <1>4, <2>1, EndShape DEF Lookup, End, Goto, TypeOK
  <2>2. CASE ~\E how : End(c, how)
    <3>1. /\ \E version, auth : call' = [call EXCEPT ![c].version = version, ![c].auth = auth]
          /\ Goto(c, "choose") /\ UNCHANGED <<outcome, disabled>> /\ pc[c] = "lookup"
      BY <1>4, <2>2 DEF Lookup
    <3> QED
      BY <1>0, <3>1 DEF Goto, TypeOK, Locals
  <2> QED
    BY <2>1, <2>2
<1>5. CASE Join(c) \/ Wait(c)
  BY <1>0, <1>5 DEF Join, Wait, Block, Goto, TypeOK, Locals
<1>6. CASE Own(c)
  BY <1>0, <1>6 DEF Own, Goto, TypeOK, Locals
<1>7. CASE TakeResult(c)
  BY <1>0, <1>7, EndShape DEF TakeResult, End, Goto, TypeOK
<1>8. CASE StartOver(c)
  <2>1. CASE disabled
    BY <1>0, <1>8, <2>1, EndShape DEF StartOver, End, Goto, TypeOK
  <2>2. CASE ~disabled
    BY <1>0, <1>8, <2>2 DEF StartOver, Goto, TypeOK, Locals
  <2> QED
    BY <2>1, <2>2
<1>9. CASE ProbeVersion(c) \/ ProbeAuth(c)
  <2>1. PICK which \in {"version", "auth"}, next \in {"auth", "recheck"} : Probe(c, which, next)
    BY <1>9 DEF ProbeVersion, ProbeAuth
  <2>2. CASE FenceError(c) # "none"
    BY <1>0, <2>1, <2>2 DEF Probe, Fail, Goto, TypeOK
  <2>3. CASE FenceError(c) = "none"
    BY <1>0, <2>1, <2>3 DEF Probe, Goto, TypeOK, Locals
  <2> QED
    BY <2>2, <2>3
<1>10. CASE ProbeRaises(c) \/ Commit(c)
  BY <1>0, <1>10 DEF ProbeRaises, Commit, Fail, Goto, TypeOK
<1>11. CASE Recheck(c) \/ Compare(c) \/ DiscardProbes(c)
  BY <1>0, <1>11 DEF Recheck, Compare, DiscardProbes, Goto, TypeOK, Locals
<1>12. CASE Finish(c)
  BY <1>0, <1>12, EndShape DEF Finish, End, Goto, TypeOK
<1> QED
  BY <1>1, <1>2, <1>3, <1>4, <1>5, <1>6, <1>7, <1>8, <1>9, <1>10, <1>11, <1>12 DEF CallStep

(* A caller that owns no flight leaves those that are owned or shared as   *)
(* good, or as bad, as they were.                                          *)
LEMMA Bystander ==
    ASSUME IInv, NEW c \in Callers, CallStep(c), pc[c] \notin OwnerPlaces, NEW o \in Callers,
           \/ pc[o] \in OwnerPlaces
           \/ \E d \in Callers \ {c} : pc[d] = "joined" /\ call[d].target = o
    PROVE  /\ flight[o] # None /\ flight'[o] # None
           /\ flight'[o].committed = flight[o].committed
           /\ flight[o].committed \/ flight'[o].error = flight[o].error
<1> USE DEF IInv
<1>0. flight[o] # None /\ pc[o] \in OwnerPlaces \cup {"done"}
  BY DEF OneOwner, Waiters
<1>1. CASE UNCHANGED flight
  BY <1>0, <1>1
<1>2. CASE Own(c)
  <2>1. o # c
    BY <1>0, <1>2 DEF Own, OwnerPlaces
  <2> QED
    BY <1>0, <1>2, <2>1 DEF Own, TypeOK
<1>3. CASE TakeResult(c) \/ StartOver(c)
  <2>1. pc[c] \in {"joined", "waiting"}
    BY <1>3 DEF TakeResult, StartOver
  <2>2. PICK p \in Callers : p = call[c].target /\ flight[p] # None
    BY <2>1 DEF Waiters
  <2>3. flight[p].done
    BY <1>3, <2>2 DEF TakeResult, StartOver
  <2>4. PICK flights \in [Callers -> Flights \cup {None}] :
          /\ flight' = LetGo(flights, c, p)
          /\ \A e \in Callers : e # p => flights[e] = flight[e]
          /\ flights[p] # None /\ flights[p].committed = flight[p].committed
          /\ flight[p].committed \/ flights[p].error = flight[p].error
    <3>1. CASE flight' = LetGo(flight, c, p)
      BY <2>2, <3>1 DEF TypeOK
    <3>2. CASE flight' = LetGo([flight EXCEPT ![p].error = FenceError(p)], c, p)
      <4> DEFINE new == [flight EXCEPT ![p].error = FenceError(p)]
      <4>1. /\ new \in [Callers -> Flights \cup {None}]
            /\ \A e \in Callers : e # p => new[e] = flight[e]
            /\ new[p] # None /\ new[p].error = FenceError(p)
            /\ new[p].committed = flight[p].committed
        BY <2>2, ErrorShape, FenceShape
      <4>2. flight[p].committed \/ new[p].error = flight[p].error
        BY <2>2, <2>3, <4>1, FenceShape DEF Settled
      <4> HIDE DEF new
      <4> QED
        BY <3>2, <4>1, <4>2 DEF new
    <3> QED
      BY <1>3, <2>2, <3>1, <3>2 DEF TakeResult, StartOver
  <2>5. flight'[o] = flights[o]
    <3>1. pc[o] # "done" \/ \E d \in Callers \ {c} : call[d].target = o
      BY DEF OwnerPlaces
    <3> QED
      BY <2>2, <2>4, <3>1, LetGoShape
  <2> QED
    BY <1>0, <2>4, <2>5
<1>4. UNCHANGED flight \/ Own(c) \/ TakeResult(c) \/ StartOver(c)
  <2>1. ~ProbeVersion(c) /\ ~ProbeAuth(c) /\ ~ProbeRaises(c)
    BY DEF ProbeVersion, ProbeAuth, Probe, ProbeRaises, OwnerPlaces
  <2>2. ~Recheck(c) /\ ~Compare(c) /\ ~DiscardProbes(c) /\ ~Commit(c) /\ ~Finish(c)
    BY DEF Recheck, Compare, DiscardProbes, Commit, Finish, OwnerPlaces
  <2>3. Identify(c) \/ Observe(c) \/ CheckCurrent(c) \/ Lookup(c) \/ Refused(c) => UNCHANGED flight
    BY DEF Identify, Observe, CheckCurrent, Lookup, Refused
  <2>4. Join(c) \/ Busy(c) \/ Wait(c) => UNCHANGED flight
    BY DEF Join, Busy, Wait, Block
  <2> QED
    BY <2>1, <2>2, <2>3, <2>4 DEF CallStep
<1> QED
  BY <1>1, <1>2, <1>3, <1>4

(* So the owner of a flight does what is done to it. *)
LEMMA NextHonest == IInv /\ Honest /\ [Next]_vars => Honest'
<1> SUFFICES ASSUME IInv, Honest, [Next]_vars, NEW c \in Callers, pc'[c] = "finish"
             PROVE  outcome'[c] = "verified" <=> flight'[c].committed
  BY DEF Honest
<1>0. TypeOK /\ pc \in [Callers -> Places] /\ outcome \in [Callers -> Errors \cup {"verified"}]
  BY DEF IInv, TypeOK
<1>1. CASE pc[c] = "finish"
  <2>1. /\ outcome[c] = "verified" <=> flight[c].committed
        /\ flight[c] # None /\ flight[c] \in Flights /\ pc[c] \in OwnerPlaces
    BY <1>0, <1>1, FlightShape DEF Honest, IInv, OneOwner, OwnerPlaces
  <2>2. CASE \E d \in Callers : CallStep(d)
    <3>1. PICK d \in Callers : CallStep(d)
      BY <2>2
    <3>2. d # c
      <4> SUFFICES ASSUME CallStep(c) PROVE FALSE
        BY <3>1
      <4>1. Finish(c)
        BY <1>1 DEF CallStep, Identify, Observe, CheckCurrent, Lookup, Refused, Join, Busy,
           Wait, Own, TakeResult, StartOver, ProbeVersion, ProbeAuth, Probe, ProbeRaises,
           Recheck, Compare, DiscardProbes, Commit
      <4> QED
        BY <1>0, <4>1 DEF Finish, End, Goto
    <3>3. pc[d] \notin OwnerPlaces
      BY <2>1, <3>2 DEF IInv, OneOwner
    <3>4. outcome'[c] = outcome[c] /\ flight'[c].committed = flight[c].committed
      BY <2>1, <3>1, <3>2, <3>3, Bystander, StepsAlone
    <3> QED
      BY <2>1, <3>4
  <2>3. CASE Disable
    BY <2>1, <2>3, DisabledShape DEF Disable
  <2>4. CASE \/ \E d \in Callers, force \in BOOLEAN : Call(d, force)
             \/ \E b \in Identities : ReplaceBinary(b)
             \/ Invalidate \/ Tick \/ AllAnswered \/ UNCHANGED vars
    BY <2>1, <2>4 DEF Call, ReplaceBinary, Invalidate, Tick, AllAnswered, vars
  <2> QED
    BY <2>2, <2>3, <2>4 DEF Next
<1>2. CASE pc[c] # "finish"
  <2>1. pc[c] # "idle"
    <3> SUFFICES ASSUME pc[c] = "idle" PROVE FALSE
      OBVIOUS
    <3>1. CASE \E d \in Callers, force \in BOOLEAN : Call(d, force)
      BY <1>0, <3>1 DEF Call, Goto
    <3>2. CASE \E d \in Callers : CallStep(d)
      <4>1. PICK d \in Callers : CallStep(d)
        BY <3>2
      <4>2. d # c
        BY <4>1, StepsAlone
      <4> QED
        BY <1>0, <4>1, <4>2, MovesOwn
    <3>3. CASE \/ \E b \in Identities : ReplaceBinary(b)
               \/ Invalidate \/ Disable \/ Tick \/ AllAnswered \/ UNCHANGED vars
      BY <1>2, <3>3 DEF ReplaceBinary, Invalidate, Disable, Tick, AllAnswered, vars
    <3> QED
      BY <3>1, <3>2, <3>3 DEF Next
  <2>2. CallStep(c)
    BY <1>0, <1>2, <2>1, OwnSteps
  <2>3. ASSUME NEW error \in Errors \ {"none"}, Fail(c, error), pc[c] \in OwnerPlaces \ {"finish"}
        PROVE  outcome'[c] = "verified" <=> flight'[c].committed
    <3>1. flight[c] # None /\ ~flight[c].committed /\ flight[c].error \in Errors
      BY <2>3, FlightShape DEF IInv, OneOwner, Settled
    <3>2. PICK public \in Errors : flight' = [flight EXCEPT ![c].error = public] /\ outcome'[c] = public
      BY <1>0, <2>3, <3>1 DEF Fail
    <3>3. ~flight'[c].committed
      BY <1>0, <3>1, <3>2, ErrorShape
    <3> QED
      BY <3>2, <3>3 DEF Errors
  <2>4. CASE ProbeVersion(c) \/ ProbeAuth(c) \/ ProbeRaises(c)
    <3>1. pc[c] \in OwnerPlaces \ {"finish"} /\ flight[c] # None
      BY <2>4 DEF ProbeVersion, ProbeAuth, Probe, ProbeRaises, OwnerPlaces, IInv, OneOwner
    <3>2. Fail(c, FenceError(c)) \/ Fail(c, "verify_failed")
      BY <1>0, <2>4 DEF ProbeVersion, ProbeAuth, Probe, ProbeRaises, Goto
    <3>3. (Fail(c, FenceError(c)) /\ FenceError(c) # "none") \/ Fail(c, "verify_failed")
      BY <1>0, <2>4, <3>2 DEF ProbeVersion, ProbeAuth, Probe, ProbeRaises, Goto
    <3>4. FenceError(c) \in Errors /\ "verify_failed" \in Errors \ {"none"}
      BY <1>0, <3>1, FenceShape DEF Errors
    <3> QED
      BY <2>3, <3>1, <3>3, <3>4
  <2>5. CASE Commit(c)
    <3>1. pc[c] \in OwnerPlaces \ {"finish"} /\ flight[c] # None
      BY <2>5 DEF Commit, OwnerPlaces, IInv, OneOwner
    <3>2. CASE CommitFence(c)
      BY <1>0, <2>3, <2>5, <3>1, <3>2, FenceShape DEF Commit, CommitFence
    <3>3. CASE ~CommitFence(c)
      BY <1>0, <2>5, <3>1, <3>3, FlightShape DEF Commit, Flights, TypeOK
    <3> QED
      BY <3>2, <3>3
  <2>6. \/ ProbeVersion(c) \/ ProbeAuth(c) \/ ProbeRaises(c) \/ Commit(c)
    <3>1. ~Identify(c) /\ ~Observe(c) /\ ~CheckCurrent(c) /\ ~Lookup(c) /\ ~Refused(c) /\ ~Busy(c)
      BY <1>0 DEF Identify, Observe, CheckCurrent, Lookup, Refused, Busy, End, Goto
    <3>2. ~Join(c) /\ ~Wait(c) /\ ~Own(c) /\ ~TakeResult(c) /\ ~StartOver(c)
      BY <1>0 DEF Join, Wait, Block, Own, TakeResult, StartOver, End, Goto
    <3>3. ~Recheck(c) /\ ~Compare(c) /\ ~DiscardProbes(c) /\ ~Finish(c)
      BY <1>0 DEF Recheck, Compare, DiscardProbes, Finish, End, Goto
    <3> QED
      BY <2>2, <3>1, <3>2, <3>3 DEF CallStep
  <2> QED
    BY <2>4, <2>5, <2>6
<1> QED
  BY <1>1, <1>2

(* The owner is whoever stands where a flight is owned. *)
LEMMA OwnerIs ==
    ASSUME IInv
    PROVE  Owner \in Callers \cup {None} /\ \A c \in Callers : Owner = c <=> pc[c] \in OwnerPlaces
<1>1. \A c, d \in Callers : pc[c] \in OwnerPlaces /\ pc[d] \in OwnerPlaces => c = d
  BY DEF IInv, OneOwner
<1>2. CASE \E c \in Callers : pc[c] \in OwnerPlaces
  <2>1. Owner \in Callers /\ pc[Owner] \in OwnerPlaces
    BY <1>2 DEF Owner
  <2> QED
    BY <1>1, <2>1
<1>3. CASE ~\E c \in Callers : pc[c] \in OwnerPlaces
  BY <1>3, VerifyAssumption DEF Owner
<1> QED
  BY <1>2, <1>3

(* The same after a step. *)
LEMMA OwnerWillBe ==
    ASSUME IInv'
    PROVE  Owner' \in Callers \cup {None} /\ \A c \in Callers : Owner' = c <=> pc'[c] \in OwnerPlaces
<1>1. \A c, d \in Callers : pc'[c] \in OwnerPlaces /\ pc'[d] \in OwnerPlaces => c = d
  BY DEF IInv, OneOwner, OwnerPlaces
<1>2. CASE \E c \in Callers : pc'[c] \in OwnerPlaces
  <2>1. Owner' \in Callers /\ pc'[Owner'] \in OwnerPlaces
    BY <1>2 DEF Owner, OwnerPlaces
  <2> QED
    BY <1>1, <2>1
<1>3. CASE ~\E c \in Callers : pc'[c] \in OwnerPlaces
  <2>1. Owner' = None
    BY <1>3 DEF Owner, OwnerPlaces
  <2> QED
    BY <1>3, <2>1, VerifyAssumption
<1> QED
  BY <1>2, <1>3

(* A step of a call shows in what its own caller sees alone. *)
LEMMA SeenAlone ==
    ASSUME IInv, NEW c \in Callers, CallStep(c)
    PROVE  /\ UNCHANGED <<Asked, disabled>>
           /\ Answers' = [Answers EXCEPT ![c] = Answers'[c]]
           /\ Sharing' = [Sharing EXCEPT ![c] = Sharing'[c]]
           /\ Asked[c] # "no" /\ Answers[c] = "none"
           /\ \A d \in Callers : d # c => pc'[d] = pc[d] /\ call'[d] = call[d]
           /\ pc'[c] \in Places
<1>1. \A d \in Callers : d # c => pc'[d] = pc[d]
  BY MovesOwn DEF IInv, TypeOK
<1>2. pc'[c] \in Places
  BY MovesOwn DEF IInv, TypeOK
<1>3. Asked' = Asked
  BY <1>1, StepsAlone DEF Asked
<1>4. Answers' = [Answers EXCEPT ![c] = Answers'[c]] /\ Sharing' = [Sharing EXCEPT ![c] = Sharing'[c]]
  <2>1. \A d \in Callers : d # c => Answers'[d] = Answers[d] /\ Sharing'[d] = Sharing[d]
    BY <1>1, StepsAlone DEF Answers, Sharing
  <2>2. \A f, g : f = [d \in Callers |-> f[d]] /\ g = [d \in Callers |-> g[d]]
                  /\ (\A d \in Callers : d # c => g[d] = f[d]) => g = [f EXCEPT ![c] = g[c]]
    OBVIOUS
  <2>3. /\ Answers = [d \in Callers |-> Answers[d]] /\ Answers' = [d \in Callers |-> Answers'[d]]
        /\ Sharing = [d \in Callers |-> Sharing[d]] /\ Sharing' = [d \in Callers |-> Sharing'[d]]
    BY DEF Answers, Sharing
  <2> QED
    BY <2>1, <2>2, <2>3
<1>5. Asked[c] # "no" /\ Answers[c] = "none"
  BY StepsAlone DEF Asked, Answers
<1> QED
  BY <1>1, <1>2, <1>3, <1>4, <1>5, StepsAlone

(* A caller that neither owns nor shares a flight, before or after. *)
LEMMA Apart ==
    ASSUME IInv, IInv', NEW c \in Callers, CallStep(c),
           pc[c] \notin OwnerPlaces \cup {"joined"}, pc'[c] \notin OwnerPlaces \cup {"joined"}
    PROVE  /\ UNCHANGED <<Asked, Owner, HasProbed, Sharing, CameTo, disabled>>
           /\ Owner # c /\ Sharing[c] = None /\ Answers[c] = "none" /\ Asked[c] # "no"
           /\ pc'[c] # "done" => UNCHANGED Answers
<1>1. /\ \A d \in Callers : d # c => pc'[d] = pc[d] /\ call'[d] = call[d]
      /\ UNCHANGED <<Asked, disabled>> /\ Answers[c] = "none" /\ Asked[c] # "no"
      /\ Answers' = [Answers EXCEPT ![c] = Answers'[c]]
  BY SeenAlone
<1>2. Owner' = Owner /\ Owner # c
  BY <1>1, OwnerIs, OwnerWillBe
<1>3. HasProbed' <=> HasProbed
  BY <1>1, <1>2, OwnerIs DEF HasProbed
<1>4. HasProbed' = HasProbed
  BY <1>3 DEF HasProbed
<1>5. Sharing' = Sharing /\ Sharing[c] = None
  BY <1>1 DEF Sharing
<1>6. CameTo' = CameTo
  <2> SUFFICES ASSUME NEW o \in Callers, Shared(o)
               PROVE  /\ flight'[o].committed = flight[o].committed
                      /\ flight[o].committed \/ flight'[o].error = flight[o].error
    BY <1>2, <1>5 DEF CameTo, Shared
  <2>1. pc[o] \in OwnerPlaces \/ \E d \in Callers \ {c} : pc[d] = "joined" /\ call[d].target = o
    BY <1>5, OwnerIs, VerifyAssumption DEF Shared, Sharing
  <2> QED
    BY <2>1, Bystander
<1>7. pc'[c] # "done" => Answers' = Answers
  BY <1>1 DEF Answers
<1> QED
  BY <1>1, <1>2, <1>4, <1>5, <1>6, <1>7

(* The owner before and after a step of its own. *)
LEMMA Owning ==
    ASSUME IInv, IInv', NEW c \in Callers, CallStep(c), pc[c] \in OwnerPlaces, pc'[c] \in OwnerPlaces
    PROVE  /\ UNCHANGED <<Asked, Answers, Owner, Sharing, disabled>> /\ Owner = c
           /\ Asked[c] = "forced" <=> call[c].force
           /\ HasProbed <=> "version" \in call[c].need /\ call[c].version # None
           /\ HasProbed' <=> "version" \in call'[c].need /\ call'[c].version # None
           /\ \A o \in Callers : o # c /\ flight'[o] = flight[o] => CameTo'[o] = CameTo[o]
           /\ CameTo[c] = IF flight[c].committed THEN "good"
                          ELSE IF flight[c].error # "none" THEN "error" ELSE "none"
           /\ CameTo'[c] = IF flight'[c].committed THEN "good"
                           ELSE IF flight'[c].error # "none" THEN "error" ELSE "none"
<1>1. /\ \A d \in Callers : d # c => pc'[d] = pc[d] /\ call'[d] = call[d]
      /\ UNCHANGED <<Asked, disabled>> /\ Answers' = [Answers EXCEPT ![c] = Answers'[c]]
  BY SeenAlone
<1>2. Owner = c /\ Owner' = c /\ c # None
  BY OwnerIs, OwnerWillBe, VerifyAssumption
<1>3. Sharing' = Sharing
  BY <1>1 DEF Sharing, OwnerPlaces
<1>4. Answers' = Answers
  BY <1>1 DEF Answers, OwnerPlaces
<1>5. Asked[c] = "forced" <=> call[c].force
  BY DEF Asked, OwnerPlaces
<1>6. /\ HasProbed <=> "version" \in call[c].need /\ call[c].version # None
      /\ HasProbed' <=> "version" \in call'[c].need /\ call'[c].version # None
  BY <1>2 DEF HasProbed
<1>7. \A o \in Callers : o # c /\ flight'[o] = flight[o] => CameTo'[o] = CameTo[o]
  BY <1>2, <1>3 DEF CameTo, Shared
<1>8. /\ CameTo[c] = IF flight[c].committed THEN "good"
                     ELSE IF flight[c].error # "none" THEN "error" ELSE "none"
      /\ CameTo'[c] = IF flight'[c].committed THEN "good"
                      ELSE IF flight'[c].error # "none" THEN "error" ELSE "none"
  BY <1>2 DEF CameTo, Shared
<1> QED
  BY <1>1, <1>2, <1>3, <1>4, <1>5, <1>6, <1>7, <1>8

(* A step of which nothing is seen, but perhaps that a result is forgotten. *)
LEMMA UnseenRefines ==
    ASSUME UNCHANGED <<Asked, Answers, Owner, HasProbed, Sharing, CameTo, disabled>>,
           Known' => Known
    PROVE  Abstract!Next \/ UNCHANGED Abstract!verification
<1>1. CASE Known' <=> Known
  <2>1. Known' = Known
    BY <1>1 DEF Known
  <2> QED
    BY <2>1 DEF Abstract!verification
<1>2. CASE ~Known'
  <2>1. Known' = FALSE
    BY <1>2 DEF Known
  <2>2. Abstract!Forget
    BY <2>1 DEF Abstract!Forget
  <2> QED
    BY <2>2 DEF Abstract!Next
<1> QED
  BY <1>1, <1>2

(* Sweeping the expired results remembers nothing new. *)
LEMMA NothingNewKnown ==
    ASSUME IInv, NEW i \in Identities,
           versionCache' \in {versionCache, Empty, Swept(versionCache, i)}
    PROVE  Known' => Known
<1>1. Swept(Empty, i) = Empty
  BY DEF Swept, Empty, Cached
<1>2. Known' <=> versionCache' # Empty
  BY DEF Known, Empty
<1> QED
  BY <1>1, <1>2 DEF Known

(* A call that is told the runtime's, or another flight's, error. *)
LEMMA RefusalRefines ==
    ASSUME IInv, IInv', NEW c \in Callers, CallStep(c), pc[c] \notin OwnerPlaces \cup {"joined"},
           pc'[c] = "done", outcome'[c] # "verified", UNCHANGED versionCache,
           disabled \/ (~call[c].force /\ registry # {})
    PROVE  Abstract!Next
<1>1. /\ UNCHANGED <<Asked, Owner, HasProbed, Sharing, CameTo, disabled>>
      /\ Owner # c /\ Sharing[c] = None /\ Answers[c] = "none" /\ Asked[c] # "no"
  BY Apart DEF OwnerPlaces
<1>2. Answers' = [Answers EXCEPT ![c] = "error"]
  BY SeenAlone DEF Answers
<1>3. disabled \/ (Asked[c] = "ordinary" /\ Owner # None)
  <2>1. ASSUME ~call[c].force, registry # {}
        PROVE  Asked[c] = "ordinary" /\ Owner # None
    <3>1. PICK o \in Callers : pc[o] \in OwnerPlaces
      BY <2>1 DEF IInv, OneOwner, TypeOK
    <3>2. Owner # None
      BY <3>1, OwnerIs, VerifyAssumption
    <3> QED
      BY <1>1, <2>1, <3>2 DEF Asked
  <2> QED
    BY <2>1
<1>4. Known' = Known
  BY DEF Known, Empty
<1>5. Abstract!Refuse(c)
  BY <1>1, <1>2, <1>3, <1>4 DEF Abstract!Refuse, Abstract!Free
<1> QED
  BY <1>5 DEF Abstract!Next

(* A call alone, up to its turn to choose. *)
LEMMA AloneRefines ==
    ASSUME IInv, IInv', NEW c \in Callers, Identify(c) \/ Observe(c) \/ CheckCurrent(c) \/ Wait(c)
    PROVE  Abstract!Next \/ UNCHANGED Abstract!verification
<1>0. TypeOK /\ CallStep(c) /\ pc \in [Callers -> Places] /\ outcome \in [Callers -> Errors \cup {"verified"}]
  BY DEF CallStep, IInv, TypeOK
<1>1. ASSUME pc[c] \notin OwnerPlaces \cup {"joined"},
pc'[c] \notin OwnerPlaces \cup {"joined", "done"}, versionCache' \in {versionCache, Empty}
      PROVE  Abstract!Next \/ UNCHANGED Abstract!verification
  BY <1>0, <1>1, Apart, UnseenRefines, NothingNewKnown DEF Identities
<1>2. CASE Identify(c)
  <2>1. CASE disabled
    <3>1. /\ pc[c] = "begin" /\ pc'[c] = "done" /\ outcome'[c] = "manage_disabled"
          /\ UNCHANGED versionCache
      BY <1>0, <1>2, <2>1 DEF Identify, End, Goto, caches
    <3> QED
      BY <1>0, <2>1, <3>1, RefusalRefines DEF OwnerPlaces
  <2>2. CASE ~disabled
    <3>1. pc[c] = "begin" /\ pc'[c] = "probed" /\ UNCHANGED versionCache
      BY <1>0, <1>2, <2>2 DEF Identify, Goto, caches
    <3> QED
      BY <1>1, <3>1 DEF OwnerPlaces
  <2> QED
    BY <2>1, <2>2
<1>3. CASE Observe(c)
  <2>1. pc[c] = "probed" /\ pc'[c] = "observed" /\ versionCache' \in {versionCache, Empty}
    BY <1>0, <1>3 DEF Observe, ObserveBinary, DropResults, Goto, caches
  <2> QED
    BY <1>1, <2>1 DEF OwnerPlaces
<1>4. CASE CheckCurrent(c)
  <2>1. pc[c] = "observed" /\ pc'[c] \in {"lookup", "choose"} /\ UNCHANGED versionCache
    BY <1>0, <1>4 DEF CheckCurrent, Goto, caches
  <2> QED
    BY <1>1, <2>1 DEF OwnerPlaces
<1>5. CASE Wait(c)
  <2>1. pc[c] = "choose" /\ pc'[c] = "waiting" /\ UNCHANGED versionCache
    BY <1>0, <1>5 DEF Wait, Block, Goto, caches
  <2> QED
    BY <1>1, <2>1 DEF OwnerPlaces
<1> QED
  BY <1>2, <1>3, <1>4, <1>5

(* The caches answer an ordinary call, or forget what they had. *)
LEMMA LookupRefines ==
    ASSUME IInv, IInv', NEW c \in Callers, Lookup(c)
    PROVE  Abstract!Next \/ UNCHANGED Abstract!verification
<1> DEFINE i == call[c].identity
           version == Cached(versionCache[i])
           auth == IF HasAuth THEN Cached(authCache[i]) ELSE None
<1>0. /\ CallStep(c) /\ pc \in [Callers -> Places] /\ outcome \in [Callers -> Errors \cup {"verified"}]
      /\ i \in Identities /\ pc[c] = "lookup" /\ pc[c] \notin OwnerPlaces \cup {"joined"}
  BY CallShape DEF CallStep, IInv, TypeOK, Lookup, OwnerPlaces
<1>1. CASE disabled
  <2>1. pc'[c] = "done" /\ outcome'[c] = "manage_disabled" /\ UNCHANGED versionCache
    BY <1>0, <1>1 DEF Lookup, End, Goto, caches
  <2> QED
    BY <1>0, <1>1, <2>1, RefusalRefines
<1>2. CASE ~disabled /\ version # None /\ (HasAuth => auth # None)
  <2>1. pc'[c] = "done" /\ outcome'[c] = "verified" /\ versionCache' = Swept(versionCache, i)
    BY <1>0, <1>2 DEF Lookup, End, Goto
  <2>2. versionCache[i] # None /\ versionCache' = versionCache
    <3>1. versionCache \in [Identities -> Entries \cup {None}]
      BY DEF IInv, Caches
    <3> QED
      BY <1>0, <1>2, <2>1, <3>1 DEF Swept, Cached
  <2>3. Known /\ Known' = Known
    BY <1>0, <2>2 DEF Known, Empty
  <2>4. /\ UNCHANGED <<Asked, Owner, HasProbed, Sharing, CameTo, disabled>>
        /\ Owner # c /\ Sharing[c] = None /\ Answers[c] = "none" /\ Asked[c] # "no"
    BY <1>0, <2>1, Apart DEF OwnerPlaces
  <2>5. Asked[c] = "ordinary"
    BY <1>0, <2>4 DEF Asked, IInv, Fresh
  <2>6. Answers' = [Answers EXCEPT ![c] = "verified"]
    BY <1>0, <2>1, SeenAlone DEF Answers
  <2>7. Abstract!Recall(c)
    BY <2>3, <2>4, <2>5, <2>6 DEF Abstract!Recall, Abstract!Free
  <2> QED
    BY <2>7 DEF Abstract!Next
<1>3. CASE ~disabled /\ ~(version # None /\ (HasAuth => auth # None))
  <2>1. pc'[c] = "choose" /\ versionCache' = Swept(versionCache, i)
    BY <1>0, <1>3 DEF Lookup, Goto
  <2> HIDE DEF i
  <2>2. Known' => Known
    BY <1>0, <2>1, NothingNewKnown
  <2> QED
    BY <1>0, <2>1, <2>2, Apart, UnseenRefines DEF OwnerPlaces
<1> QED
  BY <1>1, <1>2, <1>3

(* Choosing between an answer, a flight to share and one to own. *)
LEMMA ChoiceRefines ==
    ASSUME IInv, IInv', NEW c \in Callers, Refused(c) \/ Busy(c) \/ Join(c) \/ Own(c)
    PROVE  Abstract!Next
<1>0. /\ TypeOK /\ CallStep(c) /\ pc \in [Callers -> Places] /\ outcome \in [Callers -> Errors \cup {"verified"}]
      /\ pc[c] = "choose" /\ pc[c] \notin OwnerPlaces \cup {"joined"} /\ registry \subseteq Callers
  BY DEF CallStep, IInv, TypeOK, Refused, Busy, Join, Own, OwnerPlaces
<1>1. CASE Refused(c) \/ Busy(c)
  <2>1. /\ pc'[c] = "done" /\ outcome'[c] \in {"manage_disabled", "verify_busy"} /\ UNCHANGED versionCache
        /\ disabled \/ (~call[c].force /\ registry # {})
    BY <1>0, <1>1 DEF Refused, Busy, Open, End, Goto, caches
  <2> QED
    BY <1>0, <2>1, RefusalRefines
<1>2. /\ Owner # c /\ Sharing[c] = None /\ Answers[c] = "none" /\ Asked[c] # "no"
      /\ UNCHANGED <<Asked, disabled>>
      /\ Asked[c] = "forced" <=> call[c].force
      /\ \A d \in Callers : d # c => pc'[d] = pc[d] /\ call'[d] = call[d]
      /\ Sharing' = [Sharing EXCEPT ![c] = Sharing'[c]]
  BY <1>0, SeenAlone, OwnerIs DEF Sharing, Asked
<1>3. CASE Join(c)
  <2>1. PICK o \in registry : Joinable(c, o) /\ Block(c, o, "joined")
    BY <1>3 DEF Join
  <2>2. /\ pc' = [pc EXCEPT ![c] = "joined"] /\ call'[c].target = o /\ o \in Callers
        /\ UNCHANGED <<versionCache, flight, outcome>> /\ pc[o] \in OwnerPlaces /\ o # c
    BY <1>0, <2>1 DEF Block, Goto, caches, TypeOK, Locals, IInv, OneOwner
  <2>3. Owner = o /\ Owner' = o /\ o # None
    BY <1>0, <2>2, OwnerIs, OwnerWillBe, VerifyAssumption
  <2>4. HasProbed' = HasProbed
    BY <1>2, <2>2, <2>3 DEF HasProbed
  <2>5. Answers' = Answers
    BY <1>0, <2>2 DEF Answers
  <2>6. Sharing' = [Sharing EXCEPT ![c] = o]
    BY <1>0, <1>2, <2>2 DEF Sharing
  <2>7. CameTo' = CameTo
    <3>1. \A p \in Callers : Shared(p)' <=> Shared(p)
      BY <1>2, <2>3, <2>6, VerifyAssumption DEF Shared, Sharing
    <3> QED
      BY <2>2, <3>1 DEF CameTo
  <2>8. call[c].force => Asked[o] = "forced"
    BY <2>1, <2>2 DEF Joinable, IInv, Fresh, Asked, OwnerPlaces
  <2>9. Known' = Known
    BY <2>2 DEF Known, Empty
  <2>10. Abstract!Share(c)
    BY <1>2, <2>3, <2>4, <2>5, <2>6, <2>7, <2>8, <2>9 DEF Abstract!Share, Abstract!Free
  <2> QED
    BY <2>10 DEF Abstract!Next
<1>4. CASE Own(c)
  <2>1. /\ ~disabled /\ registry = {} /\ pc' = [pc EXCEPT ![c] = pc'[c]]
        /\ pc'[c] \in {"version", "auth"} /\ UNCHANGED outcome
        /\ versionCache' \in {versionCache, Empty}
    BY <1>0, <1>4 DEF Own, Open, NoActive, Goto, DropResults, caches
  <2>2. Owner = None /\ Owner' = c /\ c # None
    BY <1>0, <2>1, OwnerIs, OwnerWillBe, VerifyAssumption DEF IInv, OneOwner, OwnerPlaces
  <2>3. ~HasProbed'
    <3>1. /\ call'[c].version = call[c].version
          /\ "version" \in call'[c].need => call[c].force \/ call[c].version = None
      BY <1>0, <1>4 DEF Own, TypeOK, Locals
    <3>2. call[c].force => call[c].version = None
      BY <1>0 DEF IInv, Fresh
    <3> QED
      BY <2>2, <3>1, <3>2 DEF HasProbed
  <2>4. ~HasProbed /\ HasProbed' = HasProbed
    BY <2>2, <2>3 DEF HasProbed
  <2>5. Answers' = Answers
    BY <1>0, <2>1 DEF Answers
  <2>6. Sharing' = Sharing
    BY <1>0, <1>2, <2>1 DEF Sharing
  <2>7. CameTo' = CameTo
    <3>1. \A d \in Callers : Sharing[d] # c
      BY <1>0, <2>2 DEF Sharing, IInv, Waiters
    <3>2. flight'[c].committed = FALSE /\ flight'[c].error = "none"
      BY <1>0, <1>4 DEF Own, TypeOK
    <3>3. \A o \in Callers : o # c => flight'[o] = flight[o]
      BY <1>0, <1>4 DEF Own, TypeOK
    <3>4. ~Shared(c) /\ Shared(c)' /\ \A o \in Callers : o # c => (Shared(o)' <=> Shared(o))
      BY <2>2, <2>6, <3>1, VerifyAssumption DEF Shared
    <3>5. \A o \in Callers : CameTo'[o] = CameTo[o]
      BY <3>2, <3>3, <3>4 DEF CameTo
    <3> QED
      BY <3>5 DEF CameTo
  <2>8. Known' \in {Known, FALSE}
    BY <2>1 DEF Known, Empty
  <2>9. Abstract!Begin(c)
    BY <1>2, <2>1, <2>2, <2>4, <2>5, <2>6, <2>7, <2>8 DEF Abstract!Begin, Abstract!Free
  <2> QED
    BY <2>9 DEF Abstract!Next
<1> QED
  BY <1>1, <1>3, <1>4

(* Taking what a shared flight came to. *)
LEMMA TakeRefines ==
    ASSUME IInv, IInv', NEW c \in Callers, TakeResult(c)
    PROVE  Abstract!Next
<1> DEFINE o == call[c].target
           how == IF flight[o].error # "none" THEN "error" ELSE "verified"
<1>0. /\ TypeOK /\ CallStep(c) /\ pc \in [Callers -> Places] /\ outcome \in [Callers -> Errors \cup {"verified"}]
      /\ pc[c] = "joined" /\ pc[c] \notin OwnerPlaces /\ pc' = [pc EXCEPT ![c] = "done"]
      /\ o \in Callers /\ flight[o] # None /\ flight[o].done /\ UNCHANGED versionCache
  BY DEF CallStep, IInv, TypeOK, TakeResult, End, Goto, caches, OwnerPlaces, Waiters
<1>1. /\ \A d \in Callers : d # c => pc'[d] = pc[d] /\ call'[d] = call[d]
      /\ UNCHANGED <<Asked, disabled>>
      /\ Answers' = [Answers EXCEPT ![c] = Answers'[c]]
      /\ Sharing' = [Sharing EXCEPT ![c] = Sharing'[c]]
  BY <1>0, SeenAlone
<1>2. Owner' = Owner
  BY <1>0, OwnerIs, OwnerWillBe DEF OwnerPlaces
<1>3. HasProbed' = HasProbed
  <2>1. HasProbed' <=> HasProbed
    BY <1>0, <1>1, <1>2, OwnerIs DEF HasProbed
  <2> QED
    BY <2>1 DEF HasProbed
<1>4. Answers' = [Answers EXCEPT ![c] = how]
  <2>1. flight[o].error \in Errors
    BY <1>0, FlightShape
  <2>2. outcome'[c] = "verified" <=> flight[o].error = "none"
    BY <1>0, <2>1 DEF TakeResult, End, Errors
  <2>3. Answers'[c] = how
    BY <1>0, <2>2 DEF Answers
  <2> HIDE DEF how
  <2> QED
    BY <1>1, <2>3
<1>5. Sharing[c] = o /\ o # None /\ Sharing' = [Sharing EXCEPT ![c] = None]
  BY <1>0, <1>1, VerifyAssumption DEF Sharing
<1>6. CameTo[o] = IF flight[o].committed THEN "good" ELSE IF flight[o].error # "none" THEN "error" ELSE "none"
  BY <1>0, <1>5 DEF CameTo, Shared
<1>7. /\ flight[o].error = "none" => flight[o].committed
      /\ flight[o].committed /\ flight[o].error # "none" => disabled
  BY <1>0 DEF IInv, Settled
<1>8. CameTo' = [p \in Callers |->
                   IF p = Owner' \/ \E d \in Callers : Sharing'[d] = p THEN CameTo[p] ELSE "none"]
  <2> SUFFICES ASSUME NEW p \in Callers, Shared(p)'
               PROVE  /\ Shared(p) /\ flight'[p].committed = flight[p].committed
                      /\ flight[p].committed \/ flight'[p].error = flight[p].error
    BY DEF CameTo, Shared
  <2>1. pc[p] \in OwnerPlaces \/ \E d \in Callers \ {c} : pc[d] = "joined" /\ call[d].target = p
    BY <1>0, <1>1, <1>2, OwnerIs, VerifyAssumption DEF Shared, Sharing
  <2>2. Shared(p)
    BY <2>1, OwnerIs DEF Shared, Sharing
  <2> QED
    BY <1>0, <2>1, <2>2, Bystander
<1>9. Known' = Known
  BY <1>0 DEF Known, Empty
<1> HIDE DEF o
<1>10. \/ how = "verified" /\ CameTo[o] = "good"
       \/ how = "error" /\ (CameTo[o] = "error" \/ disabled)
  BY <1>6, <1>7
<1>11. CameTo[o] # "none"
  BY <1>6, <1>7
<1> HIDE DEF how
<1>12. how \in {"verified", "error"}
  BY <1>10
<1>13. Abstract!Take(c, how)
  BY <1>1, <1>2, <1>3, <1>4, <1>5, <1>8, <1>9, <1>10, <1>11 DEF Abstract!Take, Abstract!Kept
<1> QED
  BY <1>12, <1>13 DEF Abstract!Next

(* Having waited for a flight to end. *)
LEMMA StartOverRefines ==
    ASSUME IInv, IInv', NEW c \in Callers, StartOver(c)
    PROVE  Abstract!Next \/ UNCHANGED Abstract!verification
<1> DEFINE o == call[c].target
<1>0. /\ TypeOK /\ CallStep(c) /\ pc \in [Callers -> Places] /\ outcome \in [Callers -> Errors \cup {"verified"}]
      /\ pc[c] = "waiting" /\ pc[c] \notin OwnerPlaces \cup {"joined"}
      /\ o \in Callers /\ flight[o] # None /\ UNCHANGED versionCache
  BY DEF CallStep, IInv, TypeOK, StartOver, caches, OwnerPlaces, Waiters
<1>1. CASE disabled
  <2>1. FenceError(o) \in Errors
    BY <1>0, FenceShape
  <2>2. pc'[c] = "done" /\ outcome'[c] # "verified"
    BY <1>0, <1>1, <2>1 DEF StartOver, End, Goto, Errors
  <2> QED
    BY <1>0, <1>1, <2>2, RefusalRefines
<1>2. CASE ~disabled
  <2>1. pc'[c] = "begin"
    BY <1>0, <1>2 DEF StartOver, Goto
  <2>2. Known' => Known
    BY <1>0 DEF Known, Empty
  <2> QED
    BY <1>0, <2>1, <2>2, Apart, UnseenRefines DEF OwnerPlaces
<1> QED
  BY <1>1, <1>2

(* A step of the owner that changes neither its flight nor what it has     *)
(* probed of the version.                                                  *)
LEMMA OwnerUnseen ==
    ASSUME IInv, IInv', NEW c \in Callers, CallStep(c), pc[c] \in OwnerPlaces,
    pc'[c] \in OwnerPlaces, \/ flight' = flight
           \/ /\ \A o \in Callers : o # c => flight'[o] = flight[o]
              /\ flight'[c].committed = flight[c].committed /\ flight'[c].error = flight[c].error,
           "version" \in call'[c].need /\ call'[c].version # None <=>
             "version" \in call[c].need /\ call[c].version # None,
           versionCache' \in {versionCache, Empty}
    PROVE  Abstract!Next \/ UNCHANGED Abstract!verification
<1>1. HasProbed' = HasProbed
  <2>1. HasProbed' <=> HasProbed
    BY Owning
  <2> QED
    BY <2>1 DEF HasProbed
<1>2. CameTo' = CameTo
  <2>1. \A o \in Callers : CameTo'[o] = CameTo[o]
    BY Owning
  <2> QED
    BY <2>1 DEF CameTo
<1>3. Known' => Known
  BY DEF Known, Empty
<1> QED
  BY <1>1, <1>2, <1>3, Owning, UnseenRefines

(* The verification fails, unless it had already. *)
LEMMA FailRefines ==
    ASSUME IInv, IInv', NEW c \in Callers, CallStep(c), NEW error \in Errors \ {"none"},
    Fail(c, error), pc[c] \in OwnerPlaces \ {"finish"}, UNCHANGED <<call, versionCache>>
    PROVE  Abstract!Next \/ UNCHANGED Abstract!verification
<1> DEFINE public == IF flight[c].error = "none" THEN error ELSE flight[c].error
<1>0. /\ pc \in [Callers -> Places] /\ flight[c] # None /\ ~flight[c].committed
      /\ flight[c].error \in Errors /\ TypeOK
  BY FlightShape DEF IInv, TypeOK, OneOwner, Settled
<1>1. /\ public \in Errors \ {"none"} /\ flight' = [flight EXCEPT ![c].error = public]
      /\ pc' = [pc EXCEPT ![c] = "finish"]
  BY <1>0 DEF Fail, Goto
<1>2. /\ pc'[c] = "finish" /\ pc'[c] \in OwnerPlaces
  BY <1>0, <1>1 DEF OwnerPlaces
<1>3. /\ \A o \in Callers : o # c => flight'[o] = flight[o]
      /\ flight'[c].committed = flight[c].committed /\ flight'[c].error = public
  <2> HIDE DEF public
  <2> QED
    BY <1>0, <1>1, ErrorShape
<1>4. CASE flight[c].error # "none"
  BY <1>2, <1>3, <1>4, OwnerUnseen
<1>5. CASE flight[c].error = "none"
  <2>1. /\ UNCHANGED <<Asked, Answers, Owner, Sharing, disabled>> /\ Owner = c
        /\ HasProbed' <=> HasProbed
        /\ \A o \in Callers : o # c => CameTo'[o] = CameTo[o]
        /\ CameTo[c] = "none" /\ CameTo'[c] = "error"
    BY <1>0, <1>1, <1>2, <1>3, <1>5, Owning
  <2>2. CameTo' = [CameTo EXCEPT ![Owner] = "error"]
    BY <2>1 DEF CameTo
  <2>3. HasProbed' = HasProbed /\ Known' = Known
    BY <2>1 DEF HasProbed, Known, Empty
  <2>4. Owner # None
    BY <2>1, VerifyAssumption
  <2>5. Abstract!Fail
    BY <2>1, <2>2, <2>3, <2>4 DEF Abstract!Fail
  <2> QED
    BY <2>5 DEF Abstract!Next
<1> QED
  BY <1>4, <1>5

(* A probe runs, or does not and the verification fails. *)
LEMMA ProbeRefines ==
    ASSUME IInv, IInv', NEW c \in Callers, ProbeVersion(c) \/ ProbeAuth(c) \/ ProbeRaises(c)
    PROVE  Abstract!Next \/ UNCHANGED Abstract!verification
<1>0. /\ TypeOK /\ CallStep(c) /\ pc \in [Callers -> Places] /\ call \in [Callers -> Locals]
      /\ pc[c] \in OwnerPlaces \ {"finish"} /\ flight[c] # None /\ UNCHANGED versionCache
  BY DEF CallStep, IInv, TypeOK, ProbeVersion, ProbeAuth, ProbeRaises, Probe, OwnerPlaces,
     OneOwner, caches
<1>1. CASE ProbeRaises(c)
  <2>1. Fail(c, "verify_failed") /\ UNCHANGED call /\ "verify_failed" \in Errors \ {"none"}
    BY <1>1 DEF ProbeRaises, Errors
  <2> QED
    BY <1>0, <2>1, FailRefines
<1>2. ASSUME NEW which \in {"version", "auth"}, NEW next \in {"auth", "recheck"}, Probe(c, which, next)
      PROVE  Abstract!Next \/ UNCHANGED Abstract!verification
  <2>1. CASE FenceError(c) # "none"
    <3>1. Fail(c, FenceError(c)) /\ UNCHANGED call /\ FenceError(c) \in Errors \ {"none"}
      BY <1>0, <1>2, <2>1, FenceShape DEF Probe
    <3> QED
      BY <1>0, <3>1, FailRefines
  <2>2. CASE FenceError(c) = "none"
    <3>1. PICK code \in Outcomes :
            /\ call' = [call EXCEPT ![c][which] = [code |-> code, gen |-> generation, since |-> clock]]
            /\ Goto(c, IF code = "missing_binary" THEN "recheck" ELSE next)
      BY <1>2, <2>2 DEF Probe, Outcomes
    <3>2. pc'[c] \in OwnerPlaces /\ flight' = flight
      BY <1>0, <1>2, <2>2, <3>1 DEF Probe, Goto, OwnerPlaces
    <3>3. call'[c].need = call[c].need
      BY <1>0, <3>1 DEF Locals
    <3>4. CASE which = "auth" \/ "version" \notin call[c].need
      <4>1. which = "auth" => call'[c].version = call[c].version
        BY <1>0, <3>1 DEF Locals
      <4> QED
        BY <1>0, <3>2, <3>3, <3>4, <4>1, OwnerUnseen
    <3>5. CASE which = "version" /\ "version" \in call[c].need
      <4>1. call'[c].version = [code |-> code, gen |-> generation, since |-> clock]
        BY <1>0, <3>1, <3>5 DEF Locals
      <4>2. call'[c].version \in Probed
        BY <1>0, <4>1, VerifyAssumption DEF Probed, TypeOK
      <4>3. call'[c].version # None
        BY <4>2, NoFlightAssumption
      <4>4. /\ UNCHANGED <<Asked, Answers, Owner, Sharing, disabled>> /\ Owner = c
            /\ HasProbed' /\ \A o \in Callers : o # c => CameTo'[o] = CameTo[o]
        BY <1>0, <3>2, <3>3, <3>5, <4>3, Owning
      <4>5. CameTo[c] = "none" /\ CameTo'[c] = CameTo[c]
        BY <1>0, <2>2, <3>2, Owning, FenceShape DEF IInv, Settled
      <4>6. CameTo' = CameTo
        BY <4>4, <4>5 DEF CameTo
      <4>7. HasProbed' = TRUE /\ Known' = Known /\ Owner # None
        BY <1>0, <4>4, VerifyAssumption DEF HasProbed, Known, Empty
      <4>8. Abstract!Probe
        BY <4>4, <4>5, <4>6, <4>7 DEF Abstract!Probe
      <4> QED
        BY <4>8 DEF Abstract!Next
    <3> QED
      BY <3>4, <3>5
  <2> QED
    BY <2>1, <2>2
<1> QED
  BY <1>1, <1>2 DEF ProbeVersion, ProbeAuth

(* The binary is looked at again, and what was probed perhaps replaced. *)
LEMMA RecheckRefines ==
    ASSUME IInv, IInv', NEW c \in Callers, Recheck(c) \/ Compare(c) \/ DiscardProbes(c)
    PROVE  Abstract!Next \/ UNCHANGED Abstract!verification
<1>0. /\ TypeOK /\ CallStep(c) /\ pc \in [Callers -> Places] /\ call \in [Callers -> Locals]
      /\ pc[c] \in Probing /\ pc[c] \in OwnerPlaces /\ UNCHANGED flight
  BY DEF CallStep, IInv, TypeOK, Recheck, Compare, DiscardProbes, OwnerPlaces, Probing
<1>1. pc'[c] \in OwnerPlaces /\ versionCache' \in {versionCache, Empty}
  BY <1>0 DEF Recheck, Compare, DiscardProbes, ObserveBinary, DropResults, Goto, OwnerPlaces,
     caches
<1>2. CASE Recheck(c) \/ Compare(c)
  <2>1. call'[c].need = call[c].need /\ call'[c].version = call[c].version
    BY <1>0, <1>2 DEF Recheck, Compare, Locals
  <2> QED
    BY <1>0, <1>1, <2>1, OwnerUnseen
<1>3. CASE DiscardProbes(c)
  <2>1. /\ call'[c].need = call[c].need
        /\ call'[c].version = [code |-> "binary_changed", gen |-> generation, since |-> clock]
    BY <1>0, <1>3 DEF DiscardProbes, Locals
  <2>2. call'[c].version \in Probed
    BY <1>0, <2>1, VerifyAssumption DEF Probed, Outcomes, TypeOK
  <2>3. call'[c].version # None
    BY <2>2, NoFlightAssumption
  <2>4. "version" \in call[c].need => call[c].version # None
    BY <1>0, NoFlightAssumption DEF IInv, Fresh
  <2> QED
    BY <1>0, <1>1, <2>1, <2>3, <2>4, OwnerUnseen
<1> QED
  BY <1>2, <1>3

(* The verification comes to its result. *)
LEMMA CommitRefines ==
    ASSUME IInv, IInv', NEW c \in Callers, Commit(c)
    PROVE  Abstract!Next \/ UNCHANGED Abstract!verification
<1>0. /\ TypeOK /\ CallStep(c) /\ pc \in [Callers -> Places] /\ pc[c] = "commit"
      /\ pc[c] \in OwnerPlaces \ {"finish"} /\ flight[c] # None /\ UNCHANGED <<call, disabled>>
  BY DEF CallStep, IInv, TypeOK, Commit, OwnerPlaces, OneOwner
<1>1. CASE CommitFence(c)
  <2>1. Fail(c, FenceError(c)) /\ UNCHANGED versionCache /\ FenceError(c) \in Errors \ {"none"}
    BY <1>0, <1>1, FenceShape DEF Commit, CommitFence, caches
  <2> QED
    BY <1>0, <2>1, FailRefines
<1>2. CASE ~CommitFence(c)
  <2>1. flight[c].error = "none" /\ ~disabled /\ ~flight[c].committed
    BY <1>0, <1>2, FenceShape DEF CommitFence, IInv, Settled
  <2>2. /\ pc'[c] = "finish" /\ pc'[c] \in OwnerPlaces
        /\ \A o \in Callers : o # c => flight'[o] = flight[o]
    BY <1>0, <1>2 DEF Commit, Goto, OwnerPlaces, TypeOK
  <2>3. flight'[c].committed
    <3>1. flight[c] \in Flights
      BY <1>0, FlightShape
    <3> QED
      BY <1>0, <1>2, <3>1 DEF Commit, Flights, TypeOK
  <2>4. /\ UNCHANGED <<Asked, Answers, Owner, Sharing, disabled>> /\ Owner = c
        /\ HasProbed' <=> HasProbed
        /\ \A o \in Callers : o # c => CameTo'[o] = CameTo[o]
        /\ CameTo[c] = "none" /\ CameTo'[c] = "good"
        /\ Asked[c] = "forced" <=> call[c].force
        /\ HasProbed <=> "version" \in call[c].need /\ call[c].version # None
    BY <1>0, <2>1, <2>2, <2>3, Owning
  <2>5. call[c].force => HasProbed
    BY <1>0, <2>4, NoFlightAssumption DEF IInv, Fresh, Probing
  <2>6. CameTo' = [CameTo EXCEPT ![Owner] = "good"]
    BY <2>4 DEF CameTo
  <2>7. HasProbed' = HasProbed /\ Known' \in BOOLEAN /\ Owner # None
    BY <2>4, VerifyAssumption DEF HasProbed, Known
  <2>8. Abstract!Succeed
    BY <2>1, <2>4, <2>5, <2>6, <2>7 DEF Abstract!Succeed
  <2> QED
    BY <2>8 DEF Abstract!Next
<1> QED
  BY <1>1, <1>2

(* The owner leaves with what its flight came to. *)
LEMMA FinishRefines ==
    ASSUME IInv, IInv', Honest, NEW c \in Callers, Finish(c)
    PROVE  Abstract!Next
<1>0. /\ TypeOK /\ CallStep(c) /\ pc \in [Callers -> Places] /\ outcome \in [Callers -> Errors \cup {"verified"}]
      /\ pc[c] = "finish" /\ pc[c] \in OwnerPlaces /\ pc' = [pc EXCEPT ![c] = "done"]
      /\ flight[c] # None /\ UNCHANGED versionCache /\ outcome' = [outcome EXCEPT ![c] = outcome[c]]
  BY DEF CallStep, IInv, TypeOK, Finish, End, Goto, caches, OwnerPlaces, OneOwner
<1>1. /\ \A d \in Callers : d # c => pc'[d] = pc[d] /\ call'[d] = call[d]
      /\ UNCHANGED <<Asked, disabled>>
      /\ Answers' = [Answers EXCEPT ![c] = Answers'[c]]
      /\ Sharing' = [Sharing EXCEPT ![c] = Sharing'[c]]
  BY <1>0, SeenAlone
<1>2. Owner = c /\ Owner' = None
  <2>1. \A d \in Callers : pc'[d] \notin OwnerPlaces
    BY <1>0, <1>1, OwnerIs DEF OwnerPlaces
  <2> QED
    BY <1>0, <2>1, OwnerIs, OwnerWillBe
<1>3. HasProbed' = FALSE
  BY <1>2 DEF HasProbed
<1>4. CameTo[c] = IF flight[c].committed THEN "good" ELSE IF flight[c].error # "none" THEN "error" ELSE "none"
  BY <1>2 DEF CameTo, Shared
<1>5. CameTo[c] \in {"good", "error"} /\ (CameTo[c] = "good" <=> outcome[c] = "verified")
  BY <1>0, <1>4 DEF Honest, IInv, Settled
<1>6. Answers' = [Answers EXCEPT ![c] = IF CameTo[c] = "good" THEN "verified" ELSE "error"]
  <2>1. Answers'[c] = IF CameTo[c] = "good" THEN "verified" ELSE "error"
    BY <1>0, <1>5 DEF Answers
  <2> QED
    BY <1>1, <2>1
<1>7. Sharing' = Sharing
  BY <1>0, <1>1 DEF Sharing
<1>8. CameTo' = [p \in Callers |->
                   IF p = Owner' \/ \E d \in Callers : Sharing'[d] = p THEN CameTo[p] ELSE "none"]
  <2> SUFFICES ASSUME NEW p \in Callers, Shared(p)'
               PROVE  /\ Shared(p) /\ flight'[p].committed = flight[p].committed
                      /\ flight'[p].error = flight[p].error
    BY DEF CameTo, Shared
  <2>1. PICK d \in Callers : Sharing'[d] = p
    BY <1>2, VerifyAssumption DEF Shared
  <2>2. Shared(p)
    BY <1>7, <2>1 DEF Shared
  <2>3. CASE p # c
    BY <1>0, <2>2, <2>3 DEF Finish, TypeOK
  <2>4. CASE p = c
    <3>1. pc'[d] = "joined" /\ call'[d].target = c
      BY <2>1, <2>4, VerifyAssumption DEF Sharing
    <3>2. d # c /\ call[d].target = c
      BY <1>0, <1>1, <3>1
    <3>3. flight' = [flight EXCEPT ![c] = [flight[c] EXCEPT !.done = TRUE]]
      BY <3>2 DEF Finish, Awaited
    <3>4. flight[c] \in Flights
      BY <1>0, FlightShape
    <3> QED
      BY <1>0, <2>2, <2>4, <3>3, <3>4 DEF Flights, TypeOK
  <2> QED
    BY <2>3, <2>4
<1>9. Known' = Known
  BY <1>0 DEF Known, Empty
<1>10. Abstract!End(c)
  BY <1>1, <1>2, <1>3, <1>5, <1>6, <1>7, <1>8, <1>9 DEF Abstract!End, Abstract!Kept
<1> QED
  BY <1>10 DEF Abstract!Next

(* A call is made. *)
LEMMA CallRefines ==
    ASSUME IInv, IInv', NEW c \in Callers, NEW force \in BOOLEAN, Call(c, force)
    PROVE  Abstract!Next
<1> DEFINE kind == IF force THEN "forced" ELSE "ordinary"
<1>0. /\ pc[c] = "idle" /\ pc' = [pc EXCEPT ![c] = "begin"] /\ pc \in [Callers -> Places]
      /\ call \in [Callers -> Locals] /\ call' = [call EXCEPT ![c].force = force]
      /\ UNCHANGED <<versionCache, disabled, flight, outcome>>
  BY DEF Call, Goto, caches, IInv, TypeOK
<1>1. /\ \A d \in Callers : d # c => pc'[d] = pc[d] /\ call'[d] = call[d]
      /\ pc'[c] = "begin" /\ call'[c].force = force
  BY <1>0 DEF Locals
<1>2. Owner' = Owner /\ Owner # c
  BY <1>0, <1>1, OwnerIs, OwnerWillBe DEF OwnerPlaces
<1>3. Asked[c] = "no" /\ Asked' = [Asked EXCEPT ![c] = kind]
  BY <1>0, <1>1 DEF Asked
<1>4. HasProbed' = HasProbed
  <2>1. HasProbed' <=> HasProbed
    BY <1>1, <1>2, OwnerIs DEF HasProbed
  <2> QED
    BY <2>1 DEF HasProbed
<1>5. Answers' = Answers /\ Sharing' = Sharing
  BY <1>0, <1>1 DEF Answers, Sharing
<1>6. CameTo' = CameTo
  BY <1>0, <1>2, <1>5 DEF CameTo, Shared
<1>7. Known' = Known /\ kind \in {"ordinary", "forced"}
  BY <1>0 DEF Known, Empty
<1> HIDE DEF kind
<1>8. Abstract!Ask(c, kind)
  BY <1>0, <1>2, <1>3, <1>4, <1>5, <1>6, <1>7 DEF Abstract!Ask
<1> QED
  BY <1>7, <1>8 DEF Abstract!Next

(* The runtime is disabled, and the verification with it. *)
LEMMA DisableRefines ==
    ASSUME IInv, IInv', Disable
    PROVE  Abstract!Next
<1>0. /\ TypeOK /\ ~disabled /\ disabled' = TRUE /\ UNCHANGED <<call, pc, outcome>>
      /\ versionCache' = Empty
      /\ flight' = [c \in Callers |-> IF c \in registry THEN DisabledFlight(flight[c]) ELSE flight[c]]
  BY DEF Disable, DropResults, IInv
<1>1. Owner' = Owner
  BY <1>0, OwnerIs, OwnerWillBe
<1>2. UNCHANGED <<Asked, Answers, Sharing>>
  BY <1>0 DEF Asked, Answers, Sharing
<1>3. HasProbed' = HasProbed
  BY <1>0, <1>1 DEF HasProbed
<1>4. Known' = FALSE
  BY <1>0 DEF Known, Empty
<1>5. CameTo' = [o \in Callers |-> IF o = Owner /\ CameTo[o] = "none" THEN "error" ELSE CameTo[o]]
  <2> SUFFICES ASSUME NEW o \in Callers
               PROVE  CameTo'[o] = IF o = Owner /\ CameTo[o] = "none" THEN "error" ELSE CameTo[o]
    BY DEF CameTo
  <2>1. Shared(o)' <=> Shared(o)
    BY <1>1, <1>2 DEF Shared
  <2>2. CASE o # Owner
    <3>1. flight'[o] = flight[o]
      BY <1>0, <2>2, OwnerIs DEF IInv, OneOwner
    <3> QED
      BY <2>1, <2>2, <3>1 DEF CameTo
  <2>3. CASE o = Owner
    <3>1. pc[o] \in OwnerPlaces /\ o \in registry /\ flight[o] # None /\ flight[o] \in Flights
      BY <1>0, <2>3, OwnerIs, FlightShape DEF IInv, OneOwner
    <3>2. /\ flight'[o].committed = flight[o].committed
          /\ flight[o].error # "none" => flight'[o].error # "none"
          /\ flight'[o].error = "none" => flight[o].committed
      BY <1>0, <3>1, DisabledShape DEF IInv, Settled
    <3> QED
      BY <2>1, <2>3, <3>2 DEF CameTo, Shared
  <2> QED
    BY <2>2, <2>3
<1>6. Abstract!Close
  BY <1>0, <1>1, <1>2, <1>3, <1>4, <1>5 DEF Abstract!Close
<1> QED
  BY <1>6 DEF Abstract!Next

(* Every step is one of the abstract verification's, or unseen. *)
LEMMA NextRefines ==
    IInv /\ IInv' /\ Honest /\ [Next]_vars => [Abstract!Next]_(Abstract!verification)
<1> SUFFICES ASSUME IInv, IInv', Honest, [Next]_vars
             PROVE  Abstract!Next \/ UNCHANGED Abstract!verification
  OBVIOUS
<1>1. CASE \E c \in Callers, force \in BOOLEAN : Call(c, force)
  BY <1>1, CallRefines
<1>2. CASE \E c \in Callers : CallStep(c)
  BY <1>2, AloneRefines, LookupRefines, ChoiceRefines, TakeRefines, StartOverRefines,
     ProbeRefines, RecheckRefines, CommitRefines, FinishRefines DEF CallStep
<1>3. CASE Disable
  BY <1>3, DisableRefines
<1>4. CASE \/ \E b \in Identities : ReplaceBinary(b)
           \/ Invalidate \/ Tick \/ AllAnswered \/ UNCHANGED vars
  <2>1. UNCHANGED <<pc, call, outcome, flight, disabled>> /\ versionCache' \in {versionCache, Empty}
    BY <1>4 DEF ReplaceBinary, Invalidate, DropResults, Tick, AllAnswered, vars, caches
  <2>2. Owner' = Owner
    BY <2>1, OwnerIs, OwnerWillBe
  <2>3. UNCHANGED <<Asked, Answers, HasProbed, Sharing>>
    BY <2>1, <2>2 DEF Asked, Answers, HasProbed, Sharing
  <2>4. CameTo' = CameTo
    BY <2>1, <2>2, <2>3 DEF CameTo, Shared
  <2>5. Known' => Known
    BY <2>1 DEF Known, Empty
  <2> QED
    BY <2>1, <2>2, <2>3, <2>4, <2>5, UnseenRefines
<1> QED
  BY <1>1, <1>2, <1>3, <1>4 DEF Next

LEMMA InitRefines == Init => Abstract!Init
<1> SUFFICES ASSUME Init PROVE Abstract!Init
  OBVIOUS
<1>1. Owner = None
  BY DEF Init, Owner, OwnerPlaces
<1>2. HasProbed = FALSE /\ Known = FALSE
  BY <1>1 DEF HasProbed, Known, Init
<1>3. /\ Asked = [c \in Callers |-> "no"] /\ Answers = [c \in Callers |-> "none"]
      /\ Sharing = [c \in Callers |-> None]
  BY DEF Init, Asked, Answers, Sharing
<1>4. CameTo = [c \in Callers |-> "none"]
  BY <1>1, <1>3, VerifyAssumption DEF CameTo, Shared
<1> QED
  BY <1>1, <1>2, <1>3, <1>4 DEF Init, Abstract!Init

(* Whatever flights, generations, caches, replaced binaries and disable()  *)
(* do, and in whatever order, the callers see one verification at a time,  *)
(* shared by those it may serve, with one result for all of them.          *)
THEOREM Refinement == Spec => ImplementsSharedVerification
<1>1. Spec => [](IInv /\ Honest)
  BY Invariance, InitHonest, NextHonest, PTL DEF Spec
<1>2. IInv /\ Honest /\ IInv' /\ [Next]_vars => [Abstract!Next]_(Abstract!verification)
  BY NextRefines
<1> QED
  BY <1>1, <1>2, InitRefines, PTL DEF Spec, ImplementsSharedVerification, Abstract!Spec
=============================================================================
