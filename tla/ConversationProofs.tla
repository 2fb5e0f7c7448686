------------------------- MODULE ConversationProofs -------------------------
(***************************************************************************)
(* Theorems about Conversation, for every set of providers, every window   *)
(* and history, and any number of calls.                                   *)
(***************************************************************************)
EXTENDS Conversation, SequenceTheorems, TLAPS

(* Every call and every session belongs to one provider.  o says to which: *)
(* what a provider keeps, records or is asked to resume is its own, and    *)
(* without consent what its sessions have seen is, too.                    *)
Owners(o) ==
    /\ o \in [Sessions -> Providers]
    /\ \A s \in Sessions : \A k \in knows[s] :
         s <= count /\ k <= count /\ (~cross => o[k] = o[s])
    /\ \A p \in Providers :
         sessions[p] # None => sessions[p] <= count /\ o[sessions[p]] = p
    /\ \A i \in 1 .. Len(turns) :
         /\ turns[i].id <= count
         /\ turns[i].id # 0 => o[turns[i].id] = turns[i].provider

OwnCall(o) ==
    call # None =>
        /\ count \in Calls /\ o[count] = call.provider
        /\ call.actual <= count /\ o[call.actual] = call.provider
        /\ call.native # None => call.native <= count /\ o[call.native] = call.provider
        /\ call.reported # None => call.reported <= count /\ o[call.reported] = call.provider
        /\ ~cross => call.prefix = {}

(* The inductive invariant. *)
IInv == TypeOK /\ \E o \in [Sessions -> Providers] : Owners(o) /\ OwnCall(o)

(* The turns whose memory can be relied on: the i-th is in the window, and *)
(* its call and all later ones reported a session.                         *)
Unbroken(i) ==
    /\ i \in 1 .. Len(turns) /\ Len(turns) - i < Window
    /\ \A j \in i .. Len(turns) : turns[j].how = "session"

(* The session kept for the provider of the last turn has seen them.       *)
Told ==
    cross => \A i \in 1 .. Len(turns) : Unbroken(i) =>
        LET s == sessions[turns[Len(turns)].provider]
        IN  s # None /\ turns[i].id \in knows[s] \cup {0}

(* So has the session that a call runs in, if it is one that the call may  *)
(* go on with.                                                             *)
CallTold ==
    cross /\ call # None =>
        /\ count \in knows[call.actual]
        /\ call.reported # None => call.reported = call.actual /\ SessionMatches
        /\ SessionMatches => \A i \in 1 .. Len(turns) :
             Unbroken(i) => turns[i].id \in knows[call.actual] \cup {0}

(* Inductive relative to IInv. *)
TellsAll == Told /\ CallTold

-----------------------------------------------------------------------------
(* A slice s[-n:] is a sequence of at most n elements of s. *)
LEMMA RecentElements ==
    ASSUME NEW S, NEW s \in Seq(S), NEW n \in Nat
    PROVE  /\ Recent(s, n) \in Seq(S)
           /\ Len(Recent(s, n)) <= n
           /\ \A i \in 1 .. Len(Recent(s, n)) : \E j \in 1 .. Len(s) : Recent(s, n)[i] = s[j]
<1> DEFINE m == IF Len(s) > n THEN Len(s) - n + 1 ELSE 1
<1>1. m \in Int /\ Len(s) \in Int /\ m >= 1
  OBVIOUS
<1>2. \A i \in m .. Len(s) : s[i] \in S
  BY <1>1
<1>3. /\ SubSeq(s, m, Len(s)) \in Seq(S)
      /\ Len(SubSeq(s, m, Len(s))) = IF m <= Len(s) THEN Len(s) - m + 1 ELSE 0
      /\ \A i \in 1 .. Len(s) - m + 1 : SubSeq(s, m, Len(s))[i] = s[m + i - 1]
  <2> HIDE DEF m
  <2> QED
    BY <1>1, <1>2, SubSeqProperties
<1>4. Recent(s, n) = SubSeq(s, m, Len(s))
  BY DEF Recent
<1>5. Len(Recent(s, n)) <= n
  BY <1>3, <1>4
<1>6. ASSUME NEW i \in 1 .. Len(Recent(s, n))
      PROVE  \E j \in 1 .. Len(s) : Recent(s, n)[i] = s[j]
  <2>1. i \in 1 .. Len(s) - m + 1 /\ m + i - 1 \in 1 .. Len(s)
    BY <1>1, <1>3, <1>4
  <2> QED
    BY <1>3, <1>4, <2>1
<1> QED
  BY <1>3, <1>4, <1>5, <1>6

(* A prefix shows calls from the history, and none without consent. *)
LEMMA PrefixType ==
    ASSUME TypeOK, NEW p \in Providers
    PROVE  /\ Prefix(p) \in SUBSET Calls
           /\ ~cross => Prefix(p) = {}
           /\ \A k \in Prefix(p) : \E i \in 1 .. Len(turns) : turns[i].id = k
<1>1. ASSUME NEW k \in Ids(Recent(turns, Window))
      PROVE  k \in Calls /\ \E i \in 1 .. Len(turns) : turns[i].id = k
  <2>1. PICK i \in 1 .. Len(Recent(turns, Window)) : Recent(turns, Window)[i].id = k
    BY <1>1 DEF Ids
  <2>2. PICK j \in 1 .. Len(turns) : turns[j].id = k
    BY <2>1, RecentElements, ConversationAssumption DEF TypeOK
  <2>3. turns[j] \in Turns /\ k # 0
    BY <1>1 DEF TypeOK, Ids
  <2> QED
    BY <2>2, <2>3, ConversationAssumption DEF Turns, Sessions, Calls
<1> QED
  BY <1>1 DEF Prefix

(* Nobody has been asked at first; session 0 is its provider's own. *)
LEMMA InitIInv == Init => IInv
<1> SUFFICES ASSUME Init PROVE IInv
  OBVIOUS
<1>1. 0 \in Sessions /\ DefaultProvider \in Providers /\ MaxTurns >= 1
  BY ConversationAssumption DEF Sessions
<1>2. CASE turns = <<>> /\ sessions = [p \in Providers |-> None]
  <2>1. TypeOK
    <3>1. sticky \in BOOLEAN /\ cross \in BOOLEAN
      BY DEF Init
    <3> QED
      BY <1>1, <1>2, <3>1, ConversationAssumption DEF Init, TypeOK
  <2>2. Owners([s \in Sessions |-> DefaultProvider]) /\ OwnCall([s \in Sessions |-> DefaultProvider])
    BY <1>1, <1>2 DEF Init, Owners, OwnCall
  <2> QED
    BY <1>1, <2>1, <2>2 DEF IInv
<1>3. ASSUME NEW p \in Providers,
             turns = <<[provider |-> p, id |-> 0, how |-> "session"]>>,
             sessions = [q \in Providers |-> IF q = p THEN 0 ELSE None]
      PROVE  IInv
  <2>1. TypeOK
    <3>1. sticky \in BOOLEAN /\ cross \in BOOLEAN
      BY DEF Init
    <3>2. [provider |-> p, id |-> 0, how |-> "session"] \in Turns
      BY <1>1 DEF Turns
    <3>3. turns \in Seq(Turns) /\ Len(turns) = 1
      BY <1>3, <3>2
    <3> QED
      BY <1>1, <1>3, <3>1, <3>3, ConversationAssumption DEF Init, TypeOK
  <2>2. Owners([s \in Sessions |-> p]) /\ OwnCall([s \in Sessions |-> p])
    BY <1>1, <1>3 DEF Init, Owners, OwnCall
  <2> QED
    BY <2>1, <2>2 DEF IInv
<1> QED
  BY <1>2, <1>3 DEF Init

(* A call begins: it, and a session it opens, are its provider's. *)
LEMMA BeginPreserves ==
    ASSUME IInv, NEW asked \in Providers \cup {None}, NEW streams \in BOOLEAN,
           Begin(asked, streams)
    PROVE  IInv'
<1> DEFINE p == Chosen(asked)
           id == count + 1
<1>1. TypeOK /\ p \in Providers /\ id \in Calls /\ id \in Sessions /\ count \in Nat
  BY ConversationAssumption DEF IInv, TypeOK, Begin, Chosen, Calls, Sessions
<1>2. PICK o \in [Sessions -> Providers] : Owners(o) /\ OwnCall(o)
  BY DEF IInv
<1> HIDE DEF p
<1>3. PICK actual \in {id} \cup ({Native(p)} \ {None}) :
        /\ call' = [provider |-> p, streams |-> streams, prefix |-> Prefix(p),
                    native |-> Native(p), actual |-> actual, reported |-> None]
        /\ knows' = [knows EXCEPT ![actual] = @ \cup Prefix(p) \cup {id}]
  BY DEF Begin, p
<1>4. /\ count' = id
      /\ sticky' = sticky /\ cross' = cross /\ turns' = turns /\ sessions' = sessions
      /\ locked' \in Providers \cup {None}
  BY <1>1 DEF Begin, p, Lock, TypeOK
<1>5. /\ Native(p) \in Sessions \cup {None}
      /\ Native(p) # None => Native(p) <= count /\ o[Native(p)] = p
  BY <1>1, <1>2 DEF Native, TypeOK, Owners
<1>6. actual \in Sessions /\ (actual = id \/ (actual <= count /\ o[actual] = p))
  BY <1>1, <1>3, <1>5
<1>7. /\ Prefix(p) \in SUBSET Calls
      /\ ~cross => Prefix(p) = {}
      /\ \A k \in Prefix(p) : k <= count
  BY <1>1, <1>2, PrefixType DEF Owners
<1>8. TypeOK'
  <2>1. call' \in CallsInProgress
    BY <1>1, <1>3, <1>5, <1>6, <1>7 DEF CallsInProgress
  <2>2. knows' \in [Sessions -> SUBSET Calls]
    BY <1>1, <1>3, <1>7 DEF TypeOK
  <2>3. sticky' \in BOOLEAN /\ cross' \in BOOLEAN
    BY <1>1, <1>4 DEF TypeOK
  <2>4. count' \in 0 .. MaxCalls
    BY <1>1, <1>4, ConversationAssumption DEF Calls
  <2> QED
    BY <1>1, <1>4, <2>1, <2>2, <2>3, <2>4 DEF TypeOK
<1>9. PICK n \in [Sessions -> Providers] :
        n[id] = p /\ \A s \in Sessions : s <= count => n[s] = o[s]
  <2> DEFINE f == [o EXCEPT ![id] = p]
  <2>1. f \in [Sessions -> Providers]
    BY <1>1
  <2>2. f[id] = p
    BY <1>1
  <2>3. \A s \in Sessions : s <= count => f[s] = o[s]
    BY <1>1
  <2> HIDE DEF f
  <2> QED
    BY <2>1, <2>2, <2>3
<1>10. Owners(n)'
  <2>1. ASSUME NEW s \in Sessions, NEW k \in knows'[s]
        PROVE  s <= id /\ k <= id /\ (~cross => n[k] = n[s])
    <3>1. knows[s] \in SUBSET Calls /\ k \in Sessions /\ Calls \subseteq Sessions
      BY <1>1, <1>8 DEF TypeOK, Calls, Sessions
    <3>2. CASE k \in knows[s]
      BY <1>1, <1>2, <1>9, <3>1, <3>2 DEF Owners, Calls, Sessions
    <3>3. CASE k \notin knows[s]
      <4>1. s = actual /\ k \in Prefix(p) \cup {id}
        BY <1>1, <1>3, <1>6, <3>3 DEF TypeOK
      <4>2. n[actual] = p /\ actual <= id
        BY <1>1, <1>6, <1>9 DEF Sessions
      <4> QED
        BY <1>1, <1>7, <1>9, <4>1, <4>2 DEF Calls
    <3> QED
      BY <3>2, <3>3
  <2>2. ASSUME NEW q \in Providers, sessions[q] # None
        PROVE  sessions[q] <= id /\ n[sessions[q]] = q
    <3>1. sessions[q] \in Sessions /\ sessions[q] <= count /\ o[sessions[q]] = q
      BY <1>1, <1>2, <2>2 DEF Owners, TypeOK
    <3> QED
      BY <1>1, <1>9, <3>1 DEF Sessions
  <2>3. ASSUME NEW i \in 1 .. Len(turns)
        PROVE  /\ turns[i].id <= id
               /\ turns[i].id # 0 => n[turns[i].id] = turns[i].provider
    <3>1. turns[i].id \in Sessions
      <4>1. turns[i] \in Turns
        BY <1>1 DEF TypeOK
      <4> QED
        BY <4>1 DEF Turns
    <3> QED
      BY <1>1, <1>2, <1>9, <3>1 DEF Owners, Sessions
  <2> QED
    BY <1>4, <1>9, <2>1, <2>2, <2>3 DEF Owners
<1>11. OwnCall(n)'
  <2>1. n[actual] = p /\ actual <= id
    BY <1>1, <1>6, <1>9 DEF Sessions
  <2>2. Native(p) # None => Native(p) <= id /\ n[Native(p)] = p
    BY <1>1, <1>5, <1>9 DEF Sessions
  <2> QED
    BY <1>1, <1>3, <1>4, <1>7, <1>9, <2>1, <2>2 DEF OwnCall
<1> QED
  BY <1>8, <1>9, <1>10, <1>11 DEF IInv

(* A call that is recorded leaves its turn and its session to its provider. *)
LEMMA RecordPreserves ==
    ASSUME IInv, call # None, NEW session \in Sessions \cup {None},
           session \in {None, call.actual, call.reported},
           NEW how \in {"session", "none", "stopped"}, Record(session, how),
           UNCHANGED <<sticky, cross, locked, count, knows>>
    PROVE  IInv'
<1> DEFINE turn == [provider |-> call.provider, id |-> count, how |-> how]
<1>1. TypeOK /\ call \in CallsInProgress
  BY DEF IInv, TypeOK
<1>2. PICK o \in [Sessions -> Providers] : Owners(o) /\ OwnCall(o)
  BY DEF IInv
<1>3. /\ call.provider \in Providers
      /\ count \in Calls /\ count \in Sessions /\ o[count] = call.provider
      /\ session # None => session <= count /\ o[session] = call.provider
  BY <1>1, <1>2, ConversationAssumption DEF CallsInProgress, OwnCall, Calls, Sessions
<1>4. turn \in Turns
  BY <1>3 DEF Turns
<1>5. /\ turns' = Recent(Append(turns, turn), MaxTurns)
      /\ call' = None
      /\ sessions' = IF session = None THEN sessions
                     ELSE [sessions EXCEPT ![call.provider] = session]
  BY DEF Record, Trimmed
<1>6. /\ Append(turns, turn) \in Seq(Turns)
      /\ Len(Append(turns, turn)) = Len(turns) + 1
      /\ \A i \in 1 .. Len(turns) : Append(turns, turn)[i] = turns[i]
      /\ Append(turns, turn)[Len(turns) + 1] = turn
  BY <1>1, <1>4, AppendProperties DEF TypeOK
<1>7. /\ turns' \in Seq(Turns) /\ Len(turns') <= MaxTurns
      /\ \A i \in 1 .. Len(turns') : turns'[i] = turn
                                   \/ \E j \in 1 .. Len(turns) : turns'[i] = turns[j]
  <2>1. /\ turns' \in Seq(Turns) /\ Len(turns') <= MaxTurns
        /\ \A i \in 1 .. Len(turns') : \E j \in 1 .. Len(Append(turns, turn)) :
             turns'[i] = Append(turns, turn)[j]
    <3> DEFINE s == Append(turns, turn)
    <3>1. s \in Seq(Turns) /\ MaxTurns \in Nat /\ turns' = Recent(s, MaxTurns)
      BY <1>5, <1>6, ConversationAssumption
    <3> HIDE DEF s
    <3>2. /\ Recent(s, MaxTurns) \in Seq(Turns)
          /\ Len(Recent(s, MaxTurns)) <= MaxTurns
          /\ \A i \in 1 .. Len(Recent(s, MaxTurns)) : \E j \in 1 .. Len(s) :
               Recent(s, MaxTurns)[i] = s[j]
      BY <3>1, RecentElements
    <3>3. /\ turns' \in Seq(Turns) /\ Len(turns') <= MaxTurns
          /\ \A i \in 1 .. Len(turns') : \E j \in 1 .. Len(s) : turns'[i] = s[j]
      BY <3>1, <3>2
    <3> QED
      BY <3>3 DEF s
  <2>2. ASSUME NEW i \in 1 .. Len(turns')
        PROVE  turns'[i] = turn \/ \E j \in 1 .. Len(turns) : turns'[i] = turns[j]
    <3>1. PICK j \in 1 .. Len(Append(turns, turn)) : turns'[i] = Append(turns, turn)[j]
      BY <2>1
    <3>2. Len(turns) \in Nat
      BY <1>1 DEF TypeOK
    <3>3. j = Len(turns) + 1 \/ j \in 1 .. Len(turns)
      BY <1>6, <3>2
    <3> HIDE DEF turn
    <3> QED
      BY <1>6, <3>1, <3>3
  <2> QED
    BY <2>1, <2>2
<1>8. TypeOK'
  <2>1. sessions' \in [Providers -> Sessions \cup {None}]
    BY <1>1, <1>3, <1>5 DEF TypeOK
  <2>2. sticky' \in BOOLEAN /\ cross' \in BOOLEAN
    BY <1>1 DEF TypeOK
  <2> QED
    BY <1>1, <1>5, <1>7, <2>1, <2>2 DEF TypeOK
<1>9. Owners(o)'
  <2>1. ASSUME NEW i \in 1 .. Len(turns')
        PROVE  /\ turns'[i].id <= count
               /\ turns'[i].id # 0 => o[turns'[i].id] = turns'[i].provider
    <3>1. CASE turns'[i] = turn
      <4>1. turns'[i].id = count /\ turns'[i].provider = call.provider
        BY <3>1
      <4> QED
        BY <1>3, <4>1 DEF Calls
    <3>2. CASE \E j \in 1 .. Len(turns) : turns'[i] = turns[j]
      BY <1>2, <3>2 DEF Owners
    <3> QED
      BY <1>7, <3>1, <3>2
  <2>2. ASSUME NEW q \in Providers, sessions'[q] # None
        PROVE  sessions'[q] <= count /\ o[sessions'[q]] = q
    BY <1>1, <1>2, <1>3, <1>5, <2>2 DEF Owners, TypeOK
  <2> QED
    BY <1>2, <2>1, <2>2 DEF Owners
<1>10. OwnCall(o)'
  BY <1>5 DEF OwnCall
<1> QED
  BY <1>8, <1>9, <1>10 DEF IInv

(* Every step preserves the invariant. *)
LEMMA NextIInv == IInv /\ [Next]_vars => IInv'
<1> SUFFICES ASSUME IInv, [Next]_vars PROVE IInv'
  OBVIOUS
<1>1. TypeOK
  BY DEF IInv
<1>2. PICK o \in [Sessions -> Providers] : Owners(o) /\ OwnCall(o)
  BY DEF IInv
<1>3. ASSUME NEW asked \in Providers \cup {None}, NEW streams \in BOOLEAN, Begin(asked, streams)
      PROVE  IInv'
  BY <1>3, BeginPreserves
<1>4. ASSUME NEW asked \in Providers \cup {None}, NoClient(asked) PROVE IInv'
  <2>1. /\ count' = count + 1 /\ count \in 0 .. MaxCalls /\ count < MaxCalls /\ call = None
        /\ sticky' = sticky /\ cross' = cross /\ turns' = turns /\ sessions' = sessions
        /\ call' = call /\ knows' = knows
    BY <1>1, <1>4 DEF NoClient, TypeOK
  <2>2. locked' \in Providers \cup {None}
    BY <1>1, <1>4, ConversationAssumption DEF NoClient, Lock, Chosen, TypeOK
  <2>3. TypeOK'
    <3>1. count' \in 0 .. MaxCalls
      BY <2>1, ConversationAssumption
    <3>2. sticky' \in BOOLEAN /\ cross' \in BOOLEAN
      BY <1>1, <2>1 DEF TypeOK
    <3> QED
      BY <1>1, <2>1, <2>2, <3>1, <3>2 DEF TypeOK
  <2>4. Owners(o)'
    <3>1. \A s \in Sessions : s <= count => s <= count + 1
      BY <2>1 DEF Sessions
    <3>2. \A s \in Sessions : \A k \in knows[s] : k \in Sessions
      BY <1>1 DEF TypeOK, Calls, Sessions
    <3>3. \A i \in 1 .. Len(turns) : turns[i].id \in Sessions
      <4>1. \A i \in 1 .. Len(turns) : turns[i] \in Turns
        BY <1>1 DEF TypeOK
      <4> QED
        BY <4>1 DEF Turns
    <3>4. \A p \in Providers : sessions[p] # None => sessions[p] \in Sessions
      BY <1>1 DEF TypeOK
    <3> QED
      BY <1>2, <2>1, <3>1, <3>2, <3>3, <3>4 DEF Owners
  <2>5. OwnCall(o)'
    BY <2>1 DEF OwnCall
  <2> QED
    BY <2>3, <2>4, <2>5 DEF IInv
<1>5. CASE SessionMessage
  <2>1. call \in CallsInProgress /\ call # None
    BY <1>1, <1>5 DEF SessionMessage, TypeOK
  <2>2. /\ call' = [call EXCEPT !.reported = call.actual]
        /\ sessions' = [sessions EXCEPT ![call.provider] = call.actual]
        /\ call.actual \in Sessions /\ call.provider \in Providers
    BY <1>5, <2>1 DEF SessionMessage, CallsInProgress
  <2>3. call.actual <= count /\ o[call.actual] = call.provider
    BY <1>2, <2>1 DEF OwnCall
  <2>4. TypeOK'
    <3>1. sticky' \in BOOLEAN /\ cross' \in BOOLEAN
      BY <1>1, <1>5 DEF SessionMessage, TypeOK
    <3>2. call' \in CallsInProgress
      BY <2>1, <2>2 DEF CallsInProgress
    <3> QED
      BY <1>1, <1>5, <2>2, <3>1, <3>2 DEF SessionMessage, TypeOK
  <2>5. Owners(o)'
    <3>1. \A p \in Providers : sessions'[p] # None =>
             sessions'[p] <= count /\ o[sessions'[p]] = p
      BY <1>1, <1>2, <2>2, <2>3 DEF Owners, TypeOK
    <3> QED
      BY <1>2, <1>5, <3>1 DEF SessionMessage, Owners
  <2>6. OwnCall(o)'
    <3>1. /\ call'.provider = call.provider /\ call'.actual = call.actual
          /\ call'.native = call.native /\ call'.prefix = call.prefix
          /\ call'.reported = call.actual
      BY <2>1, <2>2 DEF CallsInProgress
    <3> QED
      BY <1>2, <1>5, <2>1, <3>1 DEF SessionMessage, OwnCall
  <2> QED
    BY <2>4, <2>5, <2>6 DEF IInv
<1>6. CASE Reply
  <2>1. call # None /\ call \in CallsInProgress
    BY <1>1, <1>6 DEF Reply, TypeOK
  <2>2. CASE Record(None, "none")
    BY <1>6, <2>1, <2>2, RecordPreserves DEF Reply
  <2>3. CASE Record(call.actual, "session")
    <3>1. PICK session \in Sessions : session = call.actual
      BY <2>1 DEF CallsInProgress
    <3>2. Record(session, "session")
      BY <2>3, <3>1 DEF Record
    <3> QED
      BY <1>6, <2>1, <3>1, <3>2, RecordPreserves DEF Reply
  <2> QED
    BY <1>6, <2>2, <2>3 DEF Reply
<1>7. CASE StreamEnds \/ ConsumerStops
  <2>1. call # None /\ call \in CallsInProgress
    BY <1>1, <1>7 DEF StreamEnds, ConsumerStops, TypeOK
  <2>2. PICK session \in Sessions \cup {None} : session = call.reported
    BY <2>1 DEF CallsInProgress
  <2>3. PICK how \in {"session", "none", "stopped"} : Record(session, how)
    <3>1. \/ Record(session, "session") \/ Record(session, "none")
          \/ Record(session, "stopped")
      BY <1>7, <2>2 DEF StreamEnds, ConsumerStops, Record
    <3> QED
      BY <3>1
  <2> QED
    BY <1>7, <2>1, <2>2, <2>3, RecordPreserves DEF StreamEnds, ConsumerStops
<1>8. CASE CallFails
  <2>1. sticky' \in BOOLEAN /\ cross' \in BOOLEAN
    BY <1>1, <1>8 DEF CallFails, TypeOK
  <2>2. TypeOK'
    BY <1>1, <1>8, <2>1 DEF CallFails, TypeOK
  <2>3. Owners(o)' /\ OwnCall(o)'
    BY <1>2, <1>8 DEF CallFails, Owners, OwnCall
  <2> QED
    BY <2>2, <2>3 DEF IInv
<1>9. CASE UNCHANGED vars
  <2>1. TypeOK'
    BY <1>1, <1>9 DEF vars, TypeOK
  <2>2. Owners(o)' /\ OwnCall(o)'
    BY <1>2, <1>9 DEF vars, Owners, OwnCall
  <2> QED
    BY <2>1, <2>2 DEF IInv
<1> QED
  BY <1>3, <1>4, <1>5, <1>6, <1>7, <1>8, <1>9 DEF Next, NoMoreCalls

(* What an owner assignment says about what a call has before it. *)
LEMMA OwnersConsent == IInv => NoContextWithoutConsent
<1> SUFFICES ASSUME IInv, ~cross, NEW p \in Providers, NEW i \in 1 .. Len(turns),
                    turns[i].provider # p
             PROVE  /\ call # None /\ call.provider = p => turns[i].id \notin Seen
                    /\ turns[i].id \notin Memory(sessions[p])
  BY DEF NoContextWithoutConsent
<1>1. TypeOK
  BY DEF IInv
<1>2. PICK o \in [Sessions -> Providers] : Owners(o) /\ OwnCall(o)
  BY DEF IInv
<1>3. ASSUME NEW s \in Sessions, o[s] = p PROVE turns[i].id \notin knows[s]
  <2>1. \A k \in knows[s] : k # 0 /\ o[k] = p
    BY <1>1, <1>2, <1>3 DEF Owners, TypeOK, Calls
  <2>2. turns[i].id # 0 => o[turns[i].id] # p
    BY <1>2 DEF Owners
  <2> QED
    BY <2>1, <2>2
<1>4. turns[i].id \notin Memory(sessions[p])
  BY <1>1, <1>2, <1>3 DEF Memory, Owners, TypeOK
<1>5. ASSUME call # None, call.provider = p PROVE turns[i].id \notin Seen
  <2>1. call.native \in Sessions \cup {None}
    BY <1>1, <1>5 DEF TypeOK, CallsInProgress
  <2>2. call.prefix = {} /\ (call.native # None => o[call.native] = p)
    BY <1>2, <1>5 DEF OwnCall
  <2> QED
    BY <1>3, <2>1, <2>2 DEF Seen, Memory
<1> QED
  BY <1>4, <1>5

-----------------------------------------------------------------------------
(* What a provider is told. *)

(* A slice s[-n:] is the end of s. *)
LEMMA RecentPositions ==
    ASSUME NEW S, NEW s \in Seq(S), NEW n \in Nat
    PROVE  /\ Len(Recent(s, n)) = IF Len(s) > n THEN n ELSE Len(s)
           /\ \A i \in 1 .. Len(Recent(s, n)) :
                Recent(s, n)[i] = s[i + (Len(s) - Len(Recent(s, n)))]
<1> DEFINE m == IF Len(s) > n THEN Len(s) - n + 1 ELSE 1
<1>1. m \in Int /\ Len(s) \in Nat /\ m >= 1 /\ m <= Len(s) + 1
  OBVIOUS
<1>2. \A i \in m .. Len(s) : s[i] \in S
  BY <1>1
<1>3. /\ Len(SubSeq(s, m, Len(s))) = IF m <= Len(s) THEN Len(s) - m + 1 ELSE 0
      /\ \A i \in 1 .. Len(s) - m + 1 : SubSeq(s, m, Len(s))[i] = s[m + i - 1]
  <2> HIDE DEF m
  <2> QED
    BY <1>1, <1>2, SubSeqProperties
<1>4. Recent(s, n) = SubSeq(s, m, Len(s))
  BY DEF Recent
<1>5. Len(Recent(s, n)) = Len(s) - m + 1
  <2> DEFINE r == Recent(s, n)
  <2>1. Len(r) = IF m <= Len(s) THEN Len(s) - m + 1 ELSE 0
    BY <1>3, <1>4
  <2> HIDE DEF m, r
  <2> QED
    BY <1>1, <2>1 DEF r
<1>6. \A i \in 1 .. Len(Recent(s, n)) :
        Recent(s, n)[i] = s[i + (Len(s) - Len(Recent(s, n)))]
  <2> SUFFICES ASSUME NEW i \in 1 .. Len(Recent(s, n))
               PROVE  Recent(s, n)[i] = s[i + (Len(s) - Len(Recent(s, n)))]
    OBVIOUS
  <2>1. Recent(s, n)[i] = s[m + i - 1]
    BY <1>3, <1>4, <1>5
  <2>2. m + i - 1 = i + (Len(s) - Len(Recent(s, n)))
    BY <1>1, <1>5
  <2> QED
    BY <2>1, <2>2
<1> QED
  BY <1>5, <1>6

LEMMA LastProvider ==
    ASSUME TypeOK, NEW i \in 1 .. Len(turns)
    PROVE  turns[Len(turns)].provider \in Providers
<1>1. turns \in Seq(Turns)
  BY DEF TypeOK
<1>2. Len(turns) \in 1 .. Len(turns)
  BY <1>1
<1>3. turns[Len(turns)] \in Turns
  BY <1>1, <1>2
<1> QED
  BY <1>3 DEF Turns

(* The turns of the window are those a prefix shows. *)
LEMMA WindowShown ==
    ASSUME TypeOK, NEW i \in 1 .. Len(turns), Len(turns) - i < Window
    PROVE  turns[i].id \in Ids(Recent(turns, Window)) \cup {0}
<1> DEFINE r == Recent(turns, Window)
<1>1. turns \in Seq(Turns) /\ Window \in Nat /\ Len(turns) \in Nat
  BY ConversationAssumption DEF TypeOK
<1>2. /\ Len(r) = IF Len(turns) > Window THEN Window ELSE Len(turns)
      /\ \A j \in 1 .. Len(r) : r[j] = turns[j + (Len(turns) - Len(r))]
  BY <1>1, RecentPositions
<1> HIDE DEF r
<1>3. PICK j \in 1 .. Len(r) : i = j + (Len(turns) - Len(r))
  <2>1. i - (Len(turns) - Len(r)) \in 1 .. Len(r)
    BY <1>1, <1>2
  <2>2. i = (i - (Len(turns) - Len(r))) + (Len(turns) - Len(r))
    BY <1>1, <1>2
  <2> QED
    BY <2>1, <2>2
<1>4. r[j].id = turns[i].id
  BY <1>2, <1>3
<1> QED
  BY <1>4 DEF r, Ids

(* If the calls of the window all reported a session, they are unbroken.   *)
LEMMA WindowUnbroken ==
    ASSUME TypeOK, \A i \in 1 .. Len(Expected) : Expected[i].how = "session",
           NEW k \in Ids(Expected)
    PROVE  k # 0 /\ \E i \in 1 .. Len(turns) : Unbroken(i) /\ turns[i].id = k
<1> DEFINE r == Recent(turns, Window)
           off == Len(turns) - Len(r)
<1>1. turns \in Seq(Turns) /\ Window \in Nat \ {0} /\ Len(turns) \in Nat
  BY ConversationAssumption DEF TypeOK
<1>2. /\ Len(r) = IF Len(turns) > Window THEN Window ELSE Len(turns)
      /\ \A j \in 1 .. Len(r) : r[j] = turns[j + (Len(turns) - Len(r))]
  BY <1>1, RecentPositions
<1>3. PICK a \in 1 .. Len(r) : r[a].id = k
  BY DEF Ids, Expected
<1>4. \A j \in 1 .. Len(r) : r[j].how = "session"
  BY DEF Expected
<1> HIDE DEF r
<1>5. off \in Nat /\ a + off \in 1 .. Len(turns) /\ Len(turns) - (a + off) < Window
      /\ off + Len(r) = Len(turns)
  BY <1>1, <1>2, <1>3
<1>6. ASSUME NEW j \in a + off .. Len(turns) PROVE turns[j].how = "session"
  <2>1. j - off \in 1 .. Len(r) /\ j = (j - off) + off
    BY <1>1, <1>2, <1>3, <1>5
  <2>2. r[j - off] = turns[(j - off) + off]
    BY <1>2, <2>1
  <2> QED
    BY <1>4, <2>1, <2>2
<1>7. Unbroken(a + off) /\ turns[a + off].id = k
  BY <1>2, <1>3, <1>5, <1>6 DEF Unbroken
<1> QED
  BY <1>5, <1>7 DEF Ids

(* Nothing that a provider knew is forgotten when a call begins, and the   *)
(* call has the window before it.                                          *)
LEMMA BeginTells ==
    ASSUME IInv, TellsAll, NEW asked \in Providers \cup {None}, NEW streams \in BOOLEAN,
           Begin(asked, streams)
    PROVE  /\ TellsAll'
           /\ cross => \A i \in 1 .. Len(turns) : Unbroken(i) =>
                turns[i].id \in Seen' \cup {0}
<1> DEFINE p == Chosen(asked)
           id == count + 1
<1>1. TypeOK /\ p \in Providers /\ id \in Calls /\ id \in Sessions /\ count \in Nat
      /\ call = None
  BY ConversationAssumption DEF IInv, TypeOK, Begin, Chosen, Calls, Sessions
<1> HIDE DEF p
<1>2. PICK actual \in {id} \cup ({Native(p)} \ {None}) :
        /\ call' = [provider |-> p, streams |-> streams, prefix |-> Prefix(p),
                    native |-> Native(p), actual |-> actual, reported |-> None]
        /\ knows' = [knows EXCEPT ![actual] = @ \cup Prefix(p) \cup {id}]
  BY DEF Begin, p
<1>3. count' = id /\ cross' = cross /\ turns' = turns /\ sessions' = sessions
  BY DEF Begin
<1>4. /\ call'.native = Native(p) /\ call'.prefix = Prefix(p) /\ call'.actual = actual
      /\ call'.reported = None
  BY <1>2
<1>5. Native(p) \in Sessions \cup {None} /\ actual \in Sessions
  BY <1>1 DEF Native, TypeOK
<1>6. \A s \in Sessions : knows[s] \subseteq knows'[s]
  BY <1>1, <1>2, <1>5 DEF TypeOK
<1>7. knows'[actual] = knows[actual] \cup Prefix(p) \cup {id}
  BY <1>1, <1>2, <1>5 DEF TypeOK
<1>8. \A i \in 1 .. Len(turns) : Unbroken(i) <=> Unbroken(i)'
  BY <1>3 DEF Unbroken
<1>9. Told'
  <2> SUFFICES ASSUME cross, NEW i \in 1 .. Len(turns), Unbroken(i)
               PROVE  LET s == sessions[turns[Len(turns)].provider]
                      IN  s # None /\ turns[i].id \in knows'[s] \cup {0}
    BY <1>3, <1>8 DEF Told
  <2> DEFINE s == sessions[turns[Len(turns)].provider]
  <2>1. s # None /\ turns[i].id \in knows[s] \cup {0}
    BY DEF TellsAll, Told
  <2>2. s \in Sessions
    <3>1. turns[Len(turns)].provider \in Providers
      BY <1>1, LastProvider DEF Unbroken
    <3> QED
      BY <1>1, <2>1, <3>1 DEF TypeOK
  <2> QED
    BY <1>6, <2>1, <2>2
<1>10. ASSUME cross, NEW i \in 1 .. Len(turns), Unbroken(i)
       PROVE  /\ turns[i].id \in Memory(Native(p)) \cup Prefix(p) \cup {0}
              /\ Native(p) \in {None, actual} => turns[i].id \in knows'[actual] \cup {0}
  <2>1. CASE LastIsOf(p)
    <3>1. Native(p) = sessions[p] /\ turns[Len(turns)].provider = p
      BY <2>1 DEF Native, LastIsOf
    <3>2. sessions[p] # None /\ turns[i].id \in knows[sessions[p]] \cup {0}
      BY <1>10, <3>1 DEF TellsAll, Told
    <3> QED
      BY <1>7, <3>1, <3>2 DEF Memory
  <2>2. CASE ~LastIsOf(p)
    <3>1. Prefix(p) = Ids(Recent(turns, Window))
      BY <1>10, <2>2 DEF Prefix
    <3>2. turns[i].id \in Prefix(p) \cup {0}
      BY <1>1, <1>10, <3>1, WindowShown DEF Unbroken
    <3> QED
      BY <1>7, <3>2
  <2> QED
    BY <2>1, <2>2
<1>11. CallTold'
  BY <1>3, <1>4, <1>7, <1>8, <1>10 DEF CallTold, SessionMatches
<1>12. cross => \A i \in 1 .. Len(turns) : Unbroken(i) =>
         turns[i].id \in Seen' \cup {0}
  <2>1. Memory(Native(p)) \cup Prefix(p) \subseteq Seen'
    BY <1>4, <1>5, <1>6 DEF Memory, Seen
  <2> QED
    BY <1>4, <1>10, <2>1
<1> QED
  BY <1>9, <1>11, <1>12 DEF TellsAll

(* A call that is recorded with the session it ran in leaves that session, *)
(* which has seen all that the call was told and the call itself, to the   *)
(* provider of what is now the last turn.                                  *)
LEMMA RecordTells ==
    ASSUME IInv, TellsAll, call # None, NEW session \in Sessions \cup {None},
           NEW how \in {"session", "none", "stopped"}, Record(session, how),
           how = "session" /\ cross => session = call.actual /\ SessionMatches,
           UNCHANGED <<sticky, cross, locked, count, knows>>
    PROVE  TellsAll'
<1> DEFINE turn == [provider |-> call.provider, id |-> count, how |-> how]
           s == Append(turns, turn)
<1>1. TypeOK /\ call \in CallsInProgress /\ call.provider \in Providers /\ call.actual \in Sessions
      /\ MaxTurns \in Nat \ {0} /\ count \in Sessions
  BY ConversationAssumption DEF IInv, TypeOK, CallsInProgress, Sessions
<1>2. /\ turns' = Recent(s, MaxTurns) /\ call' = None
      /\ sessions' = IF session = None THEN sessions
                     ELSE [sessions EXCEPT ![call.provider] = session]
      /\ cross' = cross /\ knows' = knows /\ count' = count
  BY DEF Record, Trimmed
<1>3. turn \in Turns /\ turn.provider = call.provider /\ turn.id = count /\ turn.how = how
  BY <1>1 DEF Turns
<1> HIDE DEF turn
<1>4. /\ s \in Seq(Turns) /\ Len(s) = Len(turns) + 1 /\ Len(turns) \in Nat
      /\ \A i \in 1 .. Len(turns) : s[i] = turns[i]
      /\ s[Len(turns) + 1] = turn
  BY <1>1, <1>3, AppendProperties DEF TypeOK
<1> HIDE DEF s
<1> DEFINE off == Len(s) - Len(turns')
<1>5. /\ Len(turns') \in Nat /\ Len(turns') >= 1 /\ off \in Nat
      /\ \A i \in 1 .. Len(turns') : turns'[i] = s[i + off]
  <2>1. /\ Len(turns') = IF Len(s) > MaxTurns THEN MaxTurns ELSE Len(s)
        /\ \A i \in 1 .. Len(turns') : turns'[i] = s[i + (Len(s) - Len(turns'))]
    BY <1>1, <1>2, <1>4, RecentPositions
  <2> QED
    BY <1>1, <1>4, <2>1
<1> DEFINE n == Len(turns')
<1>6. n \in 1 .. n /\ n + off = Len(s)
  BY <1>4, <1>5
<1>7. turns'[n] = turn
  BY <1>4, <1>5, <1>6
<1>8. CallTold'
  BY <1>2 DEF CallTold
<1>9. ASSUME cross, NEW i \in 1 .. n, Unbroken(i)'
      PROVE  LET q == sessions'[turns'[n].provider]
             IN  q # None /\ turns'[i].id \in knows[q] \cup {0}
  <2>1. n - i < Window /\ \A j \in i .. n : turns'[j].how = "session"
    BY <1>9 DEF Unbroken
  <2>2. how = "session"
    <3>1. n \in i .. n
      BY <1>5
    <3> QED
      BY <1>3, <1>7, <2>1, <3>1
  <2>3. session = call.actual /\ SessionMatches /\ session # None
    BY <1>1, <1>9, <2>2, ConversationAssumption DEF Sessions
  <2>4. sessions'[turns'[n].provider] = call.actual
    BY <1>1, <1>2, <1>3, <1>7, <2>3 DEF TypeOK
  <2>5. turns'[i].id \in knows[call.actual] \cup {0}
    <3>1. CASE i = n
      BY <1>3, <1>7, <1>9, <3>1 DEF TellsAll, CallTold
    <3>2. CASE i # n
      <4>1. i + off \in 1 .. Len(turns) /\ Len(turns) - (i + off) < Window
        <5> HIDE DEF off
        <5>1. i < n
          BY <1>5, <1>9, <3>2
        <5> QED
          BY <1>4, <1>5, <1>6, <2>1, <5>1, ConversationAssumption
      <4>2. turns'[i] = turns[i + off]
        BY <1>4, <1>5, <4>1
      <4>3. ASSUME NEW j \in i + off .. Len(turns) PROVE turns[j].how = "session"
        <5>1. j - off \in i .. n /\ j - off \in 1 .. n /\ j \in 1 .. Len(turns)
              /\ (j - off) + off = j
          BY <1>4, <1>5, <1>6, <4>1
        <5>2. turns'[j - off] = turns[j]
          BY <1>4, <1>5, <5>1
        <5> QED
          BY <2>1, <5>1, <5>2
      <4>4. Unbroken(i + off)
        BY <4>1, <4>3 DEF Unbroken
      <4> QED
        BY <1>9, <2>3, <4>1, <4>2, <4>4 DEF TellsAll, CallTold
    <3> QED
      BY <3>1, <3>2
  <2> QED
    BY <2>3, <2>4, <2>5
<1>10. Told'
  BY <1>2, <1>9 DEF Told
<1> QED
  BY <1>8, <1>10 DEF TellsAll

(* A session that a stream reports has seen what its call was told, and    *)
(* becomes the provider's even if the call fails later.                    *)
LEMMA SessionMessageTells ==
    ASSUME IInv, TellsAll, SessionMessage
    PROVE  TellsAll'
<1>1. TypeOK /\ call \in CallsInProgress /\ call # None /\ SessionMatches
  BY DEF IInv, TypeOK, SessionMessage
<1>2. /\ call' = [call EXCEPT !.reported = call.actual]
      /\ sessions' = [sessions EXCEPT ![call.provider] = call.actual]
      /\ cross' = cross /\ turns' = turns /\ count' = count /\ knows' = knows
  BY DEF SessionMessage
<1>3. /\ call'.native = call.native /\ call'.actual = call.actual
      /\ call'.reported = call.actual
  BY <1>1, <1>2 DEF CallsInProgress
<1>4. \A i \in 1 .. Len(turns) : Unbroken(i) <=> Unbroken(i)'
  BY <1>2 DEF Unbroken
<1>5. CallTold'
  BY <1>1, <1>2, <1>3, <1>4 DEF TellsAll, CallTold, SessionMatches
<1>6. ASSUME cross, NEW i \in 1 .. Len(turns), Unbroken(i)
      PROVE  LET s == sessions'[turns[Len(turns)].provider]
             IN  s # None /\ turns[i].id \in knows[s] \cup {0}
  <2>1. turns[Len(turns)].provider \in Providers
    BY <1>1, LastProvider DEF Unbroken
  <2>2. CASE turns[Len(turns)].provider = call.provider
    <3>1. sessions'[turns[Len(turns)].provider] = call.actual /\ call.actual \in Sessions
      BY <1>1, <1>2, <2>1, <2>2 DEF TypeOK, CallsInProgress
    <3>2. turns[i].id \in knows[call.actual] \cup {0}
      BY <1>1, <1>6 DEF TellsAll, CallTold
    <3> QED
      BY <3>1, <3>2, ConversationAssumption DEF Sessions
  <2>3. CASE turns[Len(turns)].provider # call.provider
    <3>1. sessions'[turns[Len(turns)].provider] = sessions[turns[Len(turns)].provider]
      BY <1>1, <1>2, <2>1, <2>3 DEF TypeOK
    <3> QED
      BY <1>6, <3>1 DEF TellsAll, Told
  <2> QED
    BY <2>2, <2>3
<1>7. Told'
  BY <1>2, <1>4, <1>6 DEF Told
<1> QED
  BY <1>5, <1>7 DEF TellsAll

LEMMA InitTells == Init => TellsAll
<1> SUFFICES ASSUME Init PROVE TellsAll
  OBVIOUS
<1>1. CallTold
  BY DEF Init, CallTold
<1>2. CASE turns = <<>>
  BY <1>1, <1>2 DEF TellsAll, Told
<1>3. ASSUME NEW p \in Providers,
             turns = <<[provider |-> p, id |-> 0, how |-> "session"]>>,
             sessions = [q \in Providers |-> IF q = p THEN 0 ELSE None]
      PROVE  TellsAll
  <2>1. Len(turns) = 1 /\ turns[1].provider = p /\ turns[1].id = 0
    BY <1>3
  <2>2. sessions[p] = 0 /\ 0 # None
    BY <1>3, ConversationAssumption DEF Sessions
  <2> QED
    BY <1>1, <2>1, <2>2 DEF TellsAll, Told
<1> QED
  BY <1>2, <1>3 DEF Init

(* Every step keeps the providers told. *)
LEMMA NextTells == IInv /\ TellsAll /\ [Next]_vars => TellsAll'
<1> SUFFICES ASSUME IInv, TellsAll, [Next]_vars PROVE TellsAll'
  OBVIOUS
<1>1. ASSUME NEW asked \in Providers \cup {None}, NEW streams \in BOOLEAN, Begin(asked, streams)
      PROVE  TellsAll'
  BY <1>1, BeginTells
<1>2. ASSUME NEW asked \in Providers \cup {None}, NoClient(asked) PROVE TellsAll'
  BY <1>2 DEF NoClient, TellsAll, Told, CallTold, Unbroken
<1>3. CASE SessionMessage
  BY <1>3, SessionMessageTells
<1>4. CASE Reply \/ StreamEnds \/ ConsumerStops
  <2>1. call # None /\ call \in CallsInProgress /\ call.actual \in Sessions
        /\ call.reported \in Sessions \cup {None}
    BY <1>4 DEF Reply, StreamEnds, ConsumerStops, IInv, TypeOK, CallsInProgress
  <2>2. PICK session \in Sessions \cup {None}, how \in {"session", "none", "stopped"} :
          /\ Record(session, how)
          /\ how = "session" /\ cross => session = call.actual /\ SessionMatches
    <3>1. CASE Reply
      BY <2>1, <3>1 DEF Reply
    <3>2. CASE StreamEnds
      BY <2>1, <3>2 DEF StreamEnds, TellsAll, CallTold
    <3>3. CASE ConsumerStops
      BY <2>1, <3>3 DEF ConsumerStops, TellsAll, CallTold
    <3> QED
      BY <1>4, <3>1, <3>2, <3>3
  <2>3. UNCHANGED <<sticky, cross, locked, count, knows>>
    BY <1>4 DEF Reply, StreamEnds, ConsumerStops
  <2> QED
    BY <2>1, <2>2, <2>3, RecordTells
<1>5. CASE CallFails
  BY <1>5 DEF CallFails, TellsAll, Told, CallTold, Unbroken
<1>6. CASE UNCHANGED vars
  BY <1>6 DEF vars, TellsAll, Told, CallTold, Unbroken, SessionMatches
<1> QED
  BY <1>1, <1>2, <1>3, <1>4, <1>5, <1>6 DEF Next, NoMoreCalls

(* What a call has before it when it begins. *)
LEMMA BeginsComplete ==
    ASSUME IInv, TellsAll, [Next]_vars, Begins, cross,
           \A i \in 1 .. Len(Expected) : Expected[i].how = "session"
    PROVE  Ids(Expected) \subseteq Seen'
<1>1. PICK asked \in Providers \cup {None}, streams \in BOOLEAN : Begin(asked, streams)
  BY DEF Begins, Next, NoClient, SessionMessage, Reply, StreamEnds, ConsumerStops, CallFails,
         NoMoreCalls, vars
<1>2. \A i \in 1 .. Len(turns) : Unbroken(i) =>
        turns[i].id \in Seen' \cup {0}
  BY <1>1, BeginTells
<1>3. ASSUME NEW k \in Ids(Expected) PROVE k \in Seen'
  BY <1>2, <1>3, WindowUnbroken DEF IInv
<1> QED
  BY <1>3

(* The invariant in every reachable state. *)
THEOREM Invariance == Spec => []IInv
BY InitIInv, NextIInv, PTL DEF Spec

(* The variables keep their types: the history stays within max_turns. *)
THEOREM TypeCorrect == Spec => []TypeOK
<1>1. IInv => TypeOK
  BY DEF IInv
<1> QED
  BY <1>1, Invariance, PTL

(* Without cross_provider_context nothing said to one provider reaches     *)
(* another, over any number of switches, failures and resumed sessions.    *)
THEOREM Consent == Spec => []NoContextWithoutConsent
BY Invariance, OwnersConsent, PTL

(* What the providers were told, in every reachable state. *)
THEOREM Memories == Spec => []TellsAll
BY InitTells, NextTells, Invariance, PTL DEF Spec

(* With cross_provider_context a provider that is asked has the last turns *)
(* before it, if their calls reported a session, over any number of        *)
(* switches, failures, interruptions and resumed sessions.                 *)
THEOREM Completeness == Spec => ContextComplete
<1>1. IInv /\ TellsAll /\ [Next]_vars =>
        [Begins /\ cross /\ (\A i \in 1 .. Len(Expected) : Expected[i].how = "session")
           => Ids(Expected) \subseteq Seen']_vars
  BY BeginsComplete
<1> QED
  BY <1>1, Invariance, Memories, PTL DEF Spec, ContextComplete
=============================================================================
