----------------------------- MODULE ManageChat -----------------------------
(***************************************************************************)
(* Chats of the browser management runtime: their registration in          *)
(* ManageRuntime (manage.py), the generator that runs the provider turn on *)
(* threadpool threads (stream_chat), and the relay on the event loop that  *)
(* feeds it to the client (server.py, _async_manage_chat_stream), through  *)
(* cancellation, disconnection and disable().  The server cancels a        *)
(* response whose client is gone, runs its background task, and then drops *)
(* it: a relay that was suspended at its yield is only resumed, to be      *)
(* closed, when the interpreter collects it.                               *)
(*                                                                         *)
(* Each action is one critical section of ManageRuntime._lock, or one step *)
(* of the generator or of the relay between two of them.  A provider turn  *)
(* runs from the look at cancel_event that lets the upstream's first       *)
(* next() start the provider process until that process is gone.           *)
(***************************************************************************)
EXTENDS Naturals, FiniteSets

CONSTANTS Chats,        \* POSTs to /api/ui/v1/chat, each made once
          Providers,    \* providers with browser chats
          None,         \* the value None
          MaxActive,    \* MAX_ACTIVE_CHATS
          MaxMessages   \* MAX_STREAM_EVENTS

ASSUME ManageChatAssumption ==
    /\ IsFiniteSet(Chats)
    /\ None \notin Chats \cup Providers
    /\ MaxActive \in Nat \ {0} /\ MaxMessages \in Nat

VARIABLES
    disabled,       \* _disabled
    active,         \* _active_chats
    providerActive, \* _provider_active: provider -> chat
    provider,       \* provider[c]: the provider of chat c
    cancelled,      \* the chats whose cancel_event is set
    pending,        \* the chats whose cancel_event disable() has yet to set
    relay,          \* where the relay of each chat stands
    gen,            \* where the generator of each chat stands
    running,        \* the chats whose generator some thread is executing
    messages,       \* messages[c]: event_count of chat c
    turns,          \* the chats whose provider turn runs
    givenUp,        \* history: the chats whose relay stopped waiting for a thread
    dropped         \* history: the chats whose relay was dropped at its yield

registries == <<active, providerActive>>
left == <<givenUp, dropped>>
vars == <<disabled, active, providerActive, provider, cancelled, pending, relay, gen,
          running, messages, turns, givenUp, dropped>>

(* accepted: the response has not begun to iterate; ready: suspended at    *)
(* the yield; waiting: with a next() in flight; draining, closing,         *)
(* finishing: in the relay's finally; background: the response's           *)
(* background task is due; garbage: suspended with nobody to resume it.    *)
RelayPlaces == {"idle", "accepted", "ready", "waiting", "draining", "closing", "finishing",
                "background", "garbage", "done"}

(* fresh: not started; first: at the first yield, outside the try; checked: *)
(* about to open the upstream; open: in the loop; ending: past it; closing, *)
(* closed: in the finally, before and after upstream.close(); over.        *)
GenPlaces == {"fresh", "first", "checked", "open", "ending", "closing", "closed", "over"}

TypeOK ==
    /\ disabled \in BOOLEAN
    /\ active \in SUBSET Chats
    /\ providerActive \in [Providers -> Chats \cup {None}]
    /\ provider \in [Chats -> Providers \cup {None}]
    /\ cancelled \in SUBSET Chats /\ pending \in SUBSET Chats
    /\ relay \in [Chats -> RelayPlaces]
    /\ gen \in [Chats -> GenPlaces]
    /\ running \in SUBSET Chats
    /\ messages \in [Chats -> 0 .. MaxMessages]
    /\ turns \in SUBSET Chats
    /\ givenUp \in SUBSET Chats /\ dropped \in SUBSET Chats

Init ==
    /\ disabled = FALSE
    /\ active = {}
    /\ providerActive = [p \in Providers |-> None]
    /\ provider = [c \in Chats |-> None]
    /\ cancelled = {} /\ pending = {}
    /\ relay = [c \in Chats |-> "idle"]
    /\ gen = [c \in Chats |-> "fresh"]
    /\ running = {}
    /\ messages = [c \in Chats |-> 0]
    /\ turns = {}
    /\ givenUp = {} /\ dropped = {}

-----------------------------------------------------------------------------
(* The runtime. *)

RelayTo(c, place) == relay' = [relay EXCEPT ![c] = place]

GenTo(c, place) == gen' = [gen EXCEPT ![c] = place]

Room == Cardinality(active) < MaxActive

MayStart(p) == ~disabled /\ Room /\ providerActive[p] = None

(* start_chat's second critical section. *)
Start(c, p) ==
    /\ relay[c] = "idle" /\ MayStart(p)
    /\ active' = active \cup {c}
    /\ providerActive' = [providerActive EXCEPT ![p] = c]
    /\ provider' = [provider EXCEPT ![c] = p]
    /\ RelayTo(c, "accepted")
    /\ UNCHANGED <<disabled, cancelled, pending, gen, running, messages, turns, left>>

(* 503 manage_disabled, 429 chat_capacity or 429 provider_busy. *)
Refuse(c, p) ==
    /\ relay[c] = "idle" /\ ~MayStart(p)
    /\ RelayTo(c, "done")
    /\ UNCHANGED <<disabled, registries, provider, cancelled, pending, gen, running, messages,
                   turns, left>>

(* Mutant: finish_chat frees the provider whosever it is. *)
FinishProvider(c) ==
    /\ active' = active \ {c}
    /\ providerActive' = [providerActive EXCEPT ![provider[c]] = None]

(* finish_chat: only the registered chat gives its provider back. *)
FinishChat(c) ==
    /\ active' = active \ {c}
    /\ providerActive' = [p \in Providers |->
           IF c \in active /\ p = provider[c] /\ providerActive[p] = c THEN None
           ELSE providerActive[p]]

CancelChat(c) ==
    /\ ~disabled /\ c \in active /\ c \notin cancelled
    /\ cancelled' = cancelled \cup {c}
    /\ UNCHANGED <<disabled, registries, provider, pending, relay, gen, running, messages,
                   turns, left>>

(* Mutant: the chats are listed once the registry is clear. *)
ListedLate == {}

Listed == active

(* disable(): the registries go at once ... *)
Disable ==
    /\ ~disabled
    /\ disabled' = TRUE
    /\ active' = {}
    /\ providerActive' = [p \in Providers |-> None]
    /\ pending' = Listed
    /\ UNCHANGED <<provider, cancelled, relay, gen, running, messages, turns, left>>

(* ... and the chats are told after the lock is released. *)
Signal(c) ==
    /\ c \in pending
    /\ pending' = pending \ {c}
    /\ cancelled' = cancelled \cup {c}
    /\ UNCHANGED <<disabled, registries, provider, relay, gen, running, messages, turns,
                   left>>

-----------------------------------------------------------------------------
(* The generator, executed by whoever called next() or close(). *)

Yields(c, place) == GenTo(c, place) /\ running' = running \ {c}

GenKeeps == UNCHANGED <<disabled, provider, pending, relay, givenUp, dropped>>

(* Up to the first line; a disabled runtime or unusable options raise.     *)
GenFirst(c) ==
    /\ c \in running /\ gen[c] = "fresh"
    /\ \/ ~disabled /\ Yields(c, "first")
       \/ Yields(c, "over")
    /\ UNCHANGED <<registries, cancelled, messages, turns>> /\ GenKeeps

(* The second look at _disabled, in the try. *)
GenCheck(c) ==
    /\ c \in running /\ gen[c] = "first"
    /\ \/ disabled /\ Yields(c, "ending")
       \/ ~disabled /\ GenTo(c, "checked") /\ UNCHANGED running
    /\ UNCHANGED <<registries, cancelled, messages, turns>> /\ GenKeeps

(* The upstream's first next() starts the provider, unless its client      *)
(* cannot be made or the call is cancelled.                                *)
GenOpen(c) ==
    /\ c \in running /\ gen[c] = "checked"
    /\ \/ Yields(c, "ending") /\ UNCHANGED turns
       \/ c \notin cancelled /\ GenTo(c, "open") /\ turns' = turns \cup {c} /\ UNCHANGED running
    /\ UNCHANGED <<registries, cancelled, messages>> /\ GenKeeps

(* Mutant: one line too many. *)
AtLimit(c) == messages[c] <= MaxMessages

UnderLimit(c) == messages[c] < MaxMessages

(* A line for the client; at MAX_STREAM_EVENTS, or at the text limit, the  *)
(* chat is cancelled and the loop left, with the upstream still open.      *)
GenMessage(c) ==
    /\ c \in running /\ gen[c] = "open"
    /\ \/ /\ UnderLimit(c)
          /\ messages' = [messages EXCEPT ![c] = @ + 1]
          /\ Yields(c, "open")
          /\ UNCHANGED cancelled
       \/ /\ Yields(c, "ending")
          /\ cancelled' = cancelled \cup {c}
          /\ UNCHANGED messages
    /\ UNCHANGED <<registries, turns>> /\ GenKeeps

(* The provider is done, fails or obeys its cancel_event: its process is   *)
(* gone, and the last lines are yielded from inside the try.               *)
TurnEnds(c) ==
    /\ c \in running /\ gen[c] = "open"
    /\ turns' = turns \ {c}
    /\ Yields(c, "ending")
    /\ UNCHANGED <<registries, cancelled, messages>> /\ GenKeeps

GenEnds(c) ==
    /\ c \in running /\ gen[c] = "ending"
    /\ GenTo(c, "closing")
    /\ UNCHANGED <<registries, cancelled, running, messages, turns>> /\ GenKeeps

(* upstream.close() ends the provider process. *)
ClosesUpstream(c) == turns' = turns \ {c} /\ UNCHANGED registries

GenCloses(c) ==
    /\ c \in running /\ gen[c] = "closing"
    /\ ClosesUpstream(c)
    /\ GenTo(c, "closed")
    /\ UNCHANGED <<cancelled, running, messages>> /\ GenKeeps

GenFinishes(c) ==
    /\ c \in running /\ gen[c] = "closed"
    /\ FinishChat(c)
    /\ turns' = turns \ {c}
    /\ Yields(c, "over")
    /\ UNCHANGED <<cancelled, messages>> /\ GenKeeps

GenStep(c) ==
    \/ GenFirst(c) \/ GenCheck(c) \/ GenOpen(c) \/ GenMessage(c) \/ TurnEnds(c)
    \/ GenEnds(c) \/ GenCloses(c) \/ GenFinishes(c)

-----------------------------------------------------------------------------
(* The relay. *)

RelayKeeps == UNCHANGED <<disabled, provider, pending, messages, turns>>

RelayOnly(c, places, place) ==
    /\ relay[c] \in places
    /\ RelayTo(c, place)
    /\ UNCHANGED <<registries, cancelled, gen, running, left>> /\ RelayKeeps

(* The client is gone before the body is iterated: no code of the relay runs. *)
LeaveUnentered(c) == RelayOnly(c, {"accepted"}, "background")

NextCall(c) ==
    /\ relay[c] \in {"accepted", "ready"}
    /\ RelayTo(c, "waiting")
    /\ running' = running \cup {c}
    /\ UNCHANGED <<registries, cancelled, gen, left>> /\ RelayKeeps

Received(c) == c \notin running /\ gen[c] # "over" /\ RelayOnly(c, {"waiting"}, "ready")

(* The client left while a line was sent to it: the response is cancelled, *)
(* and the relay stays suspended at its yield.                             *)
LeaveSuspended(c) ==
    /\ relay[c] = "ready"
    /\ RelayTo(c, "background")
    /\ dropped' = dropped \cup {c}
    /\ UNCHANGED <<registries, cancelled, gen, running, givenUp>> /\ RelayKeeps

(* Mutant: the relay waits for its thread before it sets the event. *)
Waits(c) == UNCHANGED cancelled

Cancels(c) == cancelled' = cancelled \cup {c}

(* The relay enters its finally from its await: the generator is exhausted *)
(* or raised, or the client left.                                          *)
LeaveLoop(c) ==
    /\ relay[c] = "waiting"
    /\ RelayTo(c, "draining")
    /\ Cancels(c)
    /\ UNCHANGED <<registries, gen, running, left>> /\ RelayKeeps

(* The interpreter finalizes a suspended relay: a GeneratorExit at its     *)
(* yield, where no next() is in flight.                                    *)
Finalize(c) ==
    /\ relay[c] = "garbage"
    /\ RelayTo(c, "closing")
    /\ Cancels(c)
    /\ UNCHANGED <<registries, gen, running, left>> /\ RelayKeeps

Drained(c) == c \notin running /\ RelayOnly(c, {"draining"}, "closing")

(* Five seconds pass, or the task is cancelled again: the relay goes on,   *)
(* and close() raises ValueError as the generator is executing.            *)
GiveUp(c) ==
    /\ relay[c] = "draining" /\ c \in running
    /\ RelayTo(c, "finishing")
    /\ givenUp' = givenUp \cup {c}
    /\ UNCHANGED <<registries, cancelled, gen, running, dropped>> /\ RelayKeeps

(* GeneratorExit, where the generator stands: outside the try no clause of *)
(* it runs, in the try its finally does.                                   *)
Exit(c) ==
    \/ gen[c] \in {"fresh", "first"} /\ GenTo(c, "over") /\ UNCHANGED running
    \/ gen[c] \in {"open", "ending"} /\ GenTo(c, "closing") /\ running' = running \cup {c}

Close(c) ==
    /\ relay[c] = "closing" /\ c \notin running
    /\ Exit(c)
    /\ UNCHANGED <<registries, cancelled, relay, left>> /\ RelayKeeps

Closed(c) == c \notin running /\ gen[c] = "over" /\ RelayOnly(c, {"closing"}, "finishing")

RelayFinishes(c) ==
    /\ relay[c] = "finishing"
    /\ RelayTo(c, IF c \in dropped THEN "done" ELSE "background")
    /\ FinishChat(c)
    /\ UNCHANGED <<cancelled, gen, running, left>> /\ RelayKeeps

(* Mutant: no background task. *)
Forgotten(c) == UNCHANGED registries

(* BackgroundTask(runtime.finish_chat) *)
FinishedAgain(c) == FinishChat(c)

Background(c) ==
    /\ relay[c] = "background"
    /\ RelayTo(c, IF c \in dropped THEN "garbage" ELSE "done")
    /\ FinishedAgain(c)
    /\ UNCHANGED <<cancelled, gen, running, left>> /\ RelayKeeps

(* The next() that was given up on has returned, and the generator, to     *)
(* which nothing refers any more, is collected.                            *)
Collect(c) ==
    /\ relay[c] = "done" /\ c \in givenUp /\ c \notin running
    /\ Exit(c)
    /\ UNCHANGED <<registries, cancelled, relay, left>> /\ RelayKeeps

RelayStep(c) ==
    \/ LeaveUnentered(c) \/ NextCall(c) \/ Received(c) \/ LeaveLoop(c) \/ LeaveSuspended(c)
    \/ Drained(c) \/ GiveUp(c) \/ Close(c) \/ Closed(c) \/ RelayFinishes(c)
    \/ Background(c) \/ Finalize(c) \/ Collect(c)

-----------------------------------------------------------------------------
AllAnswered ==
    /\ \A c \in Chats : relay[c] = "done" /\ c \notin running
    /\ UNCHANGED vars

Next ==
    \/ \E c \in Chats, p \in Providers : Start(c, p) \/ Refuse(c, p)
    \/ \E c \in Chats : CancelChat(c) \/ Signal(c) \/ GenStep(c) \/ RelayStep(c)
    \/ Disable
    \/ AllAnswered

Spec == Init /\ [][Next]_vars

(* Threads and the event loop are scheduled, and disable() sets the events *)
(* it set out to set; a provider turn ends after its timeout at the latest.*)
FairSpec ==
    /\ Spec
    /\ \A c \in Chats : WF_vars(Signal(c)) /\ WF_vars(GenStep(c)) /\ WF_vars(RelayStep(c))

-----------------------------------------------------------------------------
(* Properties *)

(* The two registries list the same chats, one per provider, and no more   *)
(* than MAX_ACTIVE_CHATS, although three parties finish each chat and one  *)
(* of them may come after a new chat has taken its provider.               *)
RegistriesAgree ==
    /\ \A p \in Providers : \A c \in Chats :
         providerActive[p] = c <=> c \in active /\ provider[c] = p
    /\ Cardinality(active) <= MaxActive

(* Every chat gives its slot back, and its provider turn ends, however the *)
(* client leaves and however the turn goes.                                *)
SlotsReturn == \A c \in Chats : c \in active \cup turns ~> c \notin active \cup turns

(* No provider turn begins in a disabled runtime, but for a chat that      *)
(* disable() is about to tell: it does that after it gave up the lock.     *)
NoTurnOnceTold == [][turns' \subseteq turns \cup pending \/ ~disabled]_vars

(* A provider turn begins only while its chat holds the provider.  A chat  *)
(* can lose it with its generator one step from the provider's start: to a *)
(* relay that gave up, to a background task, to disable().  What the code  *)
(* cannot promise is that no earlier turn runs on then: see TurnsExclusive.*)
BegunByHolder ==
    [][disabled \/ \A c \in turns' \ turns : providerActive[provider[c]] = c]_vars

(* No two turns of a runtime that is not disabled use one provider.  The   *)
(* code does not see to that: a chat gives its slot back with its turn     *)
(* still running when its relay gives up on a thread, and when the         *)
(* background task of a dropped relay comes before its finalizer.          *)
TurnsExclusive ==
    disabled \/ \A c, d \in turns : provider[c] = provider[d] => c = d
=============================================================================
