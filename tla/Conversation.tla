---------------------------- MODULE Conversation ----------------------------
(***************************************************************************)
(* A conversation over several providers (conversation.py): which earlier  *)
(* turns each provider gets to know, through its own native session or     *)
(* through the context that is put in front of a prompt on a switch.       *)
(*                                                                         *)
(* One call runs at a time, as the class has no lock of its own: the HTTP  *)
(* server's leases (ServerLeases) exclude others, and the terminal has one *)
(* user.  A call is named by its number; so is the turn it may become.     *)
(* Clients only hold configuration and are left out.                       *)
(***************************************************************************)
EXTENDS Naturals, FiniteSets, Sequences

CONSTANTS Providers,        \* provider names
          DefaultProvider,  \* default_provider
          None,             \* the value None
          Window,           \* context_window
          MaxTurns,         \* max_turns
          MaxCalls          \* bound: calls of send, stream, asend and astream

ASSUME ConversationAssumption ==
    /\ DefaultProvider \in Providers
    /\ None \notin Providers /\ None \notin Nat
    /\ Window \in Nat \ {0} /\ MaxTurns \in Nat \ {0} /\ MaxCalls \in Nat

VARIABLES
    sticky,     \* sticky, fixed when the conversation is made
    cross,      \* cross_provider_context, fixed too
    turns,      \* turns: what has been recorded, oldest first
    sessions,   \* sessions: the native session kept for each provider
    locked,     \* _locked_provider
    call,       \* the call in progress, None between calls
    count,      \* calls so far
    knows       \* the providers' memory: session -> the calls it has seen

vars == <<sticky, cross, turns, sessions, locked, call, count, knows>>

Calls == 1 .. MaxCalls

(* Sessions are named by the call that opened them; session and turn 0 are *)
(* those of an earlier run, which a conversation may be resumed from.      *)
Sessions == 0 .. MaxCalls

(* how is history: whether the call reported a session, ended without one, *)
(* or was stopped by its consumer before it reported one.                  *)
Turns == [provider : Providers, id : Sessions, how : {"session", "none", "stopped"}]

(* streams: stream or astream, as opposed to send or asend; prefix: the    *)
(* calls shown in front of the prompt; native: the session asked for;      *)
(* actual: the one the provider uses; reported: the one it has told us.    *)
CallsInProgress == [provider : Providers, streams : BOOLEAN, prefix : SUBSET Calls,
                    native : Sessions \cup {None}, actual : Sessions,
                    reported : Sessions \cup {None}]

TypeOK ==
    /\ sticky \in BOOLEAN /\ cross \in BOOLEAN
    /\ turns \in Seq(Turns) /\ Len(turns) <= MaxTurns
    /\ sessions \in [Providers -> Sessions \cup {None}]
    /\ locked \in Providers \cup {None}
    /\ call \in CallsInProgress \cup {None}
    /\ count \in 0 .. MaxCalls
    /\ knows \in [Sessions -> SUBSET Calls]

(* A new conversation, or one resumed by way of an empty placeholder turn. *)
Init ==
    /\ sticky \in BOOLEAN /\ cross \in BOOLEAN
    /\ \/ /\ turns = <<>>
          /\ sessions = [p \in Providers |-> None]
       \/ \E p \in Providers :
             /\ turns = <<[provider |-> p, id |-> 0, how |-> "session"]>>
             /\ sessions = [q \in Providers |-> IF q = p THEN 0 ELSE None]
    /\ locked = None
    /\ call = None
    /\ count = 0
    /\ knows = [s \in Sessions |-> {}]

-----------------------------------------------------------------------------
(* The last n elements of a sequence, as a slice s[-n:] takes them. *)
Recent(s, n) == SubSeq(s, IF Len(s) > n THEN Len(s) - n + 1 ELSE 1, Len(s))

(* The turns of s without the placeholder. *)
Ids(s) == {s[i].id : i \in 1 .. Len(s)} \ {0}

LastIsOf(p) == turns # <<>> /\ turns[Len(turns)].provider = p

(* Mutant: a provider with a session is given no context. *)
PrefixWithoutSession(p) ==
    IF ~cross \/ LastIsOf(p) \/ sessions[p] # None THEN {} ELSE Ids(Recent(turns, Window))

(* Mutant: the consent to share context is not asked for. *)
PrefixAnyway(p) == IF LastIsOf(p) THEN {} ELSE Ids(Recent(turns, Window))

(* _context_prefix_if_switch: the turns it shows to provider p. *)
Prefix(p) == IF ~cross \/ LastIsOf(p) THEN {} ELSE Ids(Recent(turns, Window))

(* _use_native_session *)
Native(p) == IF LastIsOf(p) THEN sessions[p] ELSE None

(* provider or self._locked_provider or self.default_provider *)
Chosen(asked) ==
    IF asked # None THEN asked ELSE IF locked # None THEN locked ELSE DefaultProvider

Memory(s) == IF s = None THEN {} ELSE knows[s]

(* _resolve locks a sticky conversation before the client is made. *)
Lock(p) == locked' = IF sticky THEN p ELSE locked

(* A call begins: the provider sees the prompt, in the session it is asked *)
(* to resume or, against the request or for want of one, in a new session. *)
Begin(asked, streams) ==
    LET p == Chosen(asked)
        id == count + 1
    IN  /\ call = None /\ count < MaxCalls
        /\ sticky => locked \in {None, p}
        /\ Lock(p)
        /\ count' = id
        /\ \E actual \in {id} \cup ({Native(p)} \ {None}) :
             /\ call' = [provider |-> p, streams |-> streams, prefix |-> Prefix(p),
                         native |-> Native(p), actual |-> actual, reported |-> None]
             /\ knows' = [knows EXCEPT ![actual] = @ \cup Prefix(p) \cup {id}]
        /\ UNCHANGED <<sticky, cross, turns, sessions>>

(* The client cannot be made: the call raises, and a sticky conversation   *)
(* is locked all the same.                                                 *)
NoClient(asked) ==
    LET p == Chosen(asked)
    IN  /\ call = None /\ count < MaxCalls
        /\ sticky => locked \in {None, p}
        /\ Lock(p)
        /\ count' = count + 1
        /\ UNCHANGED <<sticky, cross, turns, sessions, call, knows>>

(* Mutant: any session a provider answers in is taken. *)
AnySession == call # None

(* _check_session_match: a call that was to resume one session and ran in  *)
(* another raises as soon as the provider says so.                         *)
SessionMatches == call.native \in {None, call.actual}

(* A stream's session message: kept at once. *)
SessionMessage ==
    /\ call # None /\ call.streams
    /\ SessionMatches
    /\ call' = [call EXCEPT !.reported = call.actual]
    /\ sessions' = [sessions EXCEPT ![call.provider] = call.actual]
    /\ UNCHANGED <<sticky, cross, turns, locked, count, knows>>

(* Mutant: the history is not trimmed. *)
Untrimmed(s) == s

(* del self.turns[:-self.max_turns] *)
Trimmed(s) == Recent(s, MaxTurns)

(* _record, and the call is over. *)
Record(session, how) ==
    /\ sessions' = IF session = None THEN sessions
                   ELSE [sessions EXCEPT ![call.provider] = session]
    /\ turns' = Trimmed(Append(turns, [provider |-> call.provider, id |-> count, how |-> how]))
    /\ call' = None

(* send and asend: the response may carry the session. *)
Reply ==
    /\ call # None /\ ~call.streams
    /\ \/ Record(None, "none")
       \/ SessionMatches /\ Record(call.actual, "session")
    /\ UNCHANGED <<sticky, cross, locked, count, knows>>

(* A stream is exhausted. *)
StreamEnds ==
    /\ call # None /\ call.streams
    /\ Record(call.reported, IF call.reported = None THEN "none" ELSE "session")
    /\ UNCHANGED <<sticky, cross, locked, count, knows>>

(* The consumer stops early (GeneratorExit): what came is recorded.        *)
ConsumerStops ==
    /\ call # None /\ call.streams
    /\ Record(call.reported, IF call.reported = None THEN "stopped" ELSE "session")
    /\ UNCHANGED <<sticky, cross, locked, count, knows>>

(* The provider raises, or an astream task is cancelled: nothing is        *)
(* recorded; a session already reported stays.                             *)
CallFails ==
    /\ call # None
    /\ call' = None
    /\ UNCHANGED <<sticky, cross, turns, sessions, locked, count, knows>>

(* The bound is reached. *)
NoMoreCalls == call = None /\ count = MaxCalls /\ UNCHANGED vars

Next ==
    \/ \E asked \in Providers \cup {None} :
         NoClient(asked) \/ \E streams \in BOOLEAN : Begin(asked, streams)
    \/ SessionMessage
    \/ Reply
    \/ StreamEnds
    \/ ConsumerStops
    \/ CallFails
    \/ NoMoreCalls

Spec == Init /\ [][Next]_vars

-----------------------------------------------------------------------------
(* Properties *)

(* What the call in progress has before it, by session and by prefix. *)
Seen == Memory(call.native) \cup call.prefix

Expected == Recent(turns, Window)

Begins == call = None /\ call' # None

(* A provider that is asked has the last turns before it, whoever gave     *)
(* them, through its session or through the prefix, and whatever failed or *)
(* was resumed in between -- provided that the call of each of those turns *)
(* reported a session.                                                     *)
ContextComplete ==
    [][Begins /\ cross /\ (\A i \in 1 .. Len(Expected) : Expected[i].how = "session")
         => Ids(Expected) \subseteq Seen']_vars

(* Without consent nothing said to one provider reaches another: what its  *)
(* sessions and prompts hold are calls made to itself.                     *)
NoContextWithoutConsent ==
    ~cross => \A p \in Providers :
        /\ call # None /\ call.provider = p =>
             \A i \in 1 .. Len(turns) : turns[i].provider # p => turns[i].id \notin Seen
        /\ \A i \in 1 .. Len(turns) : turns[i].provider # p =>
             turns[i].id \notin Memory(sessions[p])

-----------------------------------------------------------------------------
(* A claim of the source's comments that the code does not keep. *)

(* A turn whose consumer stopped early is recorded so that its context     *)
(* survives: the next call has the last turns before it, even those that   *)
(* were stopped before the provider reported a session.                    *)
ContextSurvivesInterruption ==
    [][Begins /\ cross /\ (\A i \in 1 .. Len(Expected) : Expected[i].how # "none")
         => Ids(Expected) \subseteq Seen']_vars
=============================================================================
