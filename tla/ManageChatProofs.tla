-------------------------- MODULE ManageChatProofs --------------------------
(***************************************************************************)
(* Theorems about ManageChat, for every number of chats and providers and  *)
(* every value of the two limits.                                          *)
(***************************************************************************)
EXTENDS ManageChat, FiniteSetTheorems, TLAPS

(* The relay has not begun to give the chat back. *)
BeforeEnd == {"accepted", "ready", "waiting", "draining", "closing"}

AfterEnd == {"finishing", "background", "garbage", "done"}

(* Where next() and close() leave a generator.                             *)
Suspended == {"fresh", "first", "open", "ending", "over"}

(* Relay and generator keep in step: the generator runs only between       *)
(* next() and the relay's end, unless the relay gave up or was dropped; a  *)
(* chat stays registered until one of them is over or its relay is         *)
(* dropped, after which nobody calls next(); a turn runs in three places.  *)
ChatLife ==
    \A c \in Chats :
        /\ relay[c] \in {"idle", "accepted"} => gen[c] = "fresh" /\ c \notin running
        /\ relay[c] = "idle" => c \notin active
        /\ c \in active => provider[c] # None
        /\ relay[c] = "ready" => gen[c] # "over" /\ c \notin running
        /\ relay[c] \in BeforeEnd /\ gen[c] # "over" => c \in active \cup dropped \/ disabled
        /\ c \in dropped => /\ relay[c] \in {"background", "garbage", "closing",
                                            "finishing", "done"}
                            /\ c \in running => gen[c] \in {"closing", "closed"}
        /\ relay[c] = "garbage" => c \in dropped
        /\ c \notin running => gen[c] \in Suspended
        /\ relay[c] \in AfterEnd => \/ c \in givenUp \cup dropped \/ gen[c] = "over"
                                    \/ gen[c] = "fresh" /\ c \notin running
        /\ c \in running => gen[c] # "over"
        /\ c \in turns => gen[c] \in {"open", "ending", "closing"}

(* The inductive invariant. *)
IInv == TypeOK /\ RegistriesAgree /\ ChatLife

-----------------------------------------------------------------------------
(* Subsets of the chats can be counted. *)
LEMMA FiniteChats ==
    \A S \in SUBSET Chats : IsFiniteSet(S) /\ Cardinality(S) \in Nat
BY ManageChatAssumption, FS_Subset, FS_CardinalityType

(* No chat is registered at first. *)
LEMMA InitIInv == Init => IInv
<1> SUFFICES ASSUME Init PROVE IInv
  OBVIOUS
<1>1. TypeOK
  <2>1. disabled \in BOOLEAN
    BY DEF Init
  <2>2. messages \in [Chats -> 0 .. MaxMessages]
    BY ManageChatAssumption DEF Init
  <2> QED
    BY <2>1, <2>2 DEF Init, TypeOK, RelayPlaces, GenPlaces
<1>2. RegistriesAgree
  <2>1. Cardinality(active) = 0
    BY FS_EmptySet DEF Init
  <2> QED
    BY <2>1, ManageChatAssumption DEF Init, RegistriesAgree
<1>3. ChatLife
  BY DEF Init, ChatLife, BeforeEnd, AfterEnd, Suspended
<1> QED
  BY <1>1, <1>2, <1>3 DEF IInv

(* finish_chat keeps the registries in agreement, whoever calls it, and    *)
(* takes away no other chat.                                               *)
LEMMA FinishAgrees ==
    ASSUME IInv, NEW c \in Chats, FinishChat(c), provider' = provider
    PROVE  /\ RegistriesAgree'
           /\ active' \in SUBSET Chats
           /\ providerActive' \in [Providers -> Chats \cup {None}]
<1>1. active' \in SUBSET Chats /\ active' = active \ {c}
  BY DEF IInv, TypeOK, FinishChat
<1>2. Cardinality(active') <= MaxActive
  <2>1. /\ IsFiniteSet(active)
        /\ Cardinality(active) \in Nat
        /\ Cardinality(active') \in Nat
    BY <1>1, FiniteChats DEF IInv, TypeOK
  <2>2. Cardinality(active') <= Cardinality(active)
    BY <1>1, <2>1, FS_Subset
  <2> QED
    BY <2>1, <2>2, ManageChatAssumption DEF IInv, RegistriesAgree
<1>3. ASSUME NEW p \in Providers, NEW d \in Chats
      PROVE  providerActive'[p] = d <=> d \in active' /\ provider'[d] = p
  BY ManageChatAssumption DEF IInv, TypeOK, RegistriesAgree, FinishChat
<1>4. providerActive' \in [Providers -> Chats \cup {None}]
  BY DEF IInv, TypeOK, FinishChat
<1> QED
  BY <1>1, <1>2, <1>3, <1>4 DEF RegistriesAgree

(* A step of the generator. *)
LEMMA GenPreserves ==
    ASSUME IInv, NEW c \in Chats, GenStep(c)
    PROVE  IInv'
<1> USE DEF IInv, GenKeeps, Yields, GenTo, registries, left
<1>1. CASE GenFirst(c)
  <2>1. TypeOK' /\ RegistriesAgree'
    BY <1>1 DEF GenFirst, TypeOK, RegistriesAgree, GenPlaces
  <2>2. ChatLife'
    BY <1>1 DEF GenFirst, TypeOK, ChatLife, BeforeEnd, AfterEnd, Suspended
  <2> QED
    BY <2>1, <2>2
<1>2. CASE GenCheck(c)
  <2>1. TypeOK' /\ RegistriesAgree'
    BY <1>2 DEF GenCheck, TypeOK, RegistriesAgree, GenPlaces
  <2>2. ChatLife'
    BY <1>2 DEF GenCheck, TypeOK, ChatLife, BeforeEnd, AfterEnd, Suspended
  <2> QED
    BY <2>1, <2>2
<1>3. CASE GenOpen(c)
  <2>1. TypeOK' /\ RegistriesAgree'
    BY <1>3 DEF GenOpen, TypeOK, RegistriesAgree, GenPlaces
  <2>3. ChatLife'
    BY <1>3 DEF GenOpen, TypeOK, ChatLife, BeforeEnd, AfterEnd, Suspended
  <2> QED
    BY <2>1, <2>3
<1>4. CASE GenMessage(c)
  <2>1. messages' \in [Chats -> 0 .. MaxMessages]
    BY <1>4, ManageChatAssumption DEF GenMessage, UnderLimit, TypeOK
  <2>2. TypeOK' /\ RegistriesAgree'
    BY <1>4, <2>1 DEF GenMessage, TypeOK, RegistriesAgree, GenPlaces
  <2>3. ChatLife'
    BY <1>4 DEF GenMessage, TypeOK, ChatLife, BeforeEnd, AfterEnd, Suspended
  <2> QED
    BY <2>2, <2>3
<1>5. CASE TurnEnds(c)
  <2>1. TypeOK' /\ RegistriesAgree'
    BY <1>5 DEF TurnEnds, TypeOK, RegistriesAgree, GenPlaces
  <2>2. ChatLife'
    BY <1>5 DEF TurnEnds, TypeOK, ChatLife, BeforeEnd, AfterEnd, Suspended
  <2> QED
    BY <2>1, <2>2
<1>6. CASE GenEnds(c)
  <2>1. TypeOK' /\ RegistriesAgree'
    BY <1>6 DEF GenEnds, TypeOK, RegistriesAgree, GenPlaces
  <2>2. ChatLife'
    BY <1>6 DEF GenEnds, TypeOK, ChatLife, BeforeEnd, AfterEnd, Suspended
  <2> QED
    BY <2>1, <2>2
<1>7. CASE GenCloses(c)
  <2>1. TypeOK' /\ RegistriesAgree'
    BY <1>7 DEF GenCloses, ClosesUpstream, TypeOK, RegistriesAgree, GenPlaces
  <2>2. ChatLife'
    BY <1>7 DEF GenCloses, ClosesUpstream, TypeOK, ChatLife,
                BeforeEnd, AfterEnd, Suspended
  <2> QED
    BY <2>1, <2>2
<1>8. CASE GenFinishes(c)
  <2>1. RegistriesAgree' /\ active' \in SUBSET Chats
          /\ providerActive' \in [Providers -> Chats \cup {None}]
    BY <1>8, FinishAgrees DEF GenFinishes
  <2>2. TypeOK'
    BY <1>8, <2>1 DEF GenFinishes, TypeOK, GenPlaces
  <2>3. ChatLife'
    BY <1>8 DEF GenFinishes, FinishChat, TypeOK, ChatLife,
                BeforeEnd, AfterEnd, Suspended
  <2> QED
    BY <2>1, <2>2, <2>3
<1> QED
  BY <1>1, <1>2, <1>3, <1>4, <1>5, <1>6, <1>7, <1>8 DEF GenStep

(* A step of the relay. *)
LEMMA RelayPreserves ==
    ASSUME IInv, NEW c \in Chats, RelayStep(c)
    PROVE  IInv'
<1> USE DEF IInv, RelayKeeps, RelayTo, registries, left, Cancels
<1>1. ASSUME NEW from \in SUBSET RelayPlaces, NEW to \in RelayPlaces,
             RelayOnly(c, from, to)
      PROVE  TypeOK' /\ RegistriesAgree'
  BY <1>1 DEF RelayOnly, TypeOK, RegistriesAgree
<1>2. CASE LeaveUnentered(c)
  <2>1. TypeOK' /\ RegistriesAgree'
    BY <1>1, <1>2 DEF LeaveUnentered, RelayPlaces
  <2>2. ChatLife'
    BY <1>2 DEF LeaveUnentered, RelayOnly, TypeOK, ChatLife, BeforeEnd, AfterEnd, Suspended
  <2> QED
    BY <2>1, <2>2
<1>3. CASE Received(c)
  <2>1. TypeOK' /\ RegistriesAgree'
    BY <1>1, <1>3 DEF Received, RelayPlaces
  <2>2. ChatLife'
    BY <1>3 DEF Received, RelayOnly, TypeOK, ChatLife, BeforeEnd, AfterEnd, Suspended
  <2> QED
    BY <2>1, <2>2
<1>4. CASE Drained(c)
  <2>1. TypeOK' /\ RegistriesAgree'
    BY <1>1, <1>4 DEF Drained, RelayPlaces
  <2>2. ChatLife'
    BY <1>4 DEF Drained, RelayOnly, TypeOK, ChatLife, BeforeEnd, AfterEnd, Suspended
  <2> QED
    BY <2>1, <2>2
<1>5. CASE Closed(c)
  <2>1. TypeOK' /\ RegistriesAgree'
    BY <1>1, <1>5 DEF Closed, RelayPlaces
  <2>2. ChatLife'
    BY <1>5 DEF Closed, RelayOnly, TypeOK, ChatLife, BeforeEnd, AfterEnd, Suspended
  <2> QED
    BY <2>1, <2>2
<1>6. CASE NextCall(c)
  <2>1. TypeOK' /\ RegistriesAgree'
    BY <1>6 DEF NextCall, TypeOK, RelayPlaces, RegistriesAgree
  <2>2. ChatLife'
    BY <1>6 DEF NextCall, TypeOK, ChatLife, BeforeEnd, AfterEnd, Suspended
  <2> QED
    BY <2>1, <2>2
<1>7. CASE LeaveLoop(c)
  <2>1. TypeOK' /\ RegistriesAgree'
    BY <1>7 DEF LeaveLoop, TypeOK, RelayPlaces, RegistriesAgree
  <2>2. ChatLife'
    BY <1>7 DEF LeaveLoop, TypeOK, ChatLife, BeforeEnd, AfterEnd, Suspended
  <2> QED
    BY <2>1, <2>2
<1>8. CASE GiveUp(c)
  <2>1. TypeOK' /\ RegistriesAgree'
    BY <1>8 DEF GiveUp, TypeOK, RelayPlaces, RegistriesAgree
  <2>2. ChatLife'
    BY <1>8 DEF GiveUp, TypeOK, ChatLife, BeforeEnd, AfterEnd, Suspended
  <2> QED
    BY <2>1, <2>2
<1>9. CASE Close(c)
  <2>1. TypeOK' /\ RegistriesAgree'
    BY <1>9 DEF Close, Exit, GenTo, TypeOK, GenPlaces, RegistriesAgree
  <2>2. ChatLife'
    BY <1>9 DEF Close, Exit, GenTo, TypeOK, ChatLife, BeforeEnd, AfterEnd, Suspended
  <2> QED
    BY <2>1, <2>2
<1>10. CASE Collect(c)
  <2>1. TypeOK' /\ RegistriesAgree'
    BY <1>10 DEF Collect, Exit, GenTo, TypeOK, GenPlaces, RegistriesAgree
  <2>2. ChatLife'
    BY <1>10 DEF Collect, Exit, GenTo, TypeOK, ChatLife, BeforeEnd, AfterEnd, Suspended
  <2> QED
    BY <2>1, <2>2
<1>11. CASE RelayFinishes(c)
  <2>1. /\ RegistriesAgree'
        /\ active' \in SUBSET Chats
        /\ providerActive' \in [Providers -> Chats \cup {None}]
    BY <1>11, FinishAgrees DEF RelayFinishes
  <2>2. TypeOK'
    BY <1>11, <2>1 DEF RelayFinishes, TypeOK, RelayPlaces
  <2>4. ChatLife'
    BY <1>11 DEF RelayFinishes, FinishChat, TypeOK, ChatLife,
                       BeforeEnd, AfterEnd, Suspended
  <2> QED
    BY <2>1, <2>2, <2>4
<1>12. CASE Background(c)
  <2>1. /\ RegistriesAgree'
        /\ active' \in SUBSET Chats
        /\ providerActive' \in [Providers -> Chats \cup {None}]
    BY <1>12, FinishAgrees DEF Background, FinishedAgain
  <2>2. TypeOK'
    BY <1>12, <2>1 DEF Background, TypeOK, RelayPlaces
  <2>4. ChatLife'
    BY <1>12 DEF Background, FinishedAgain, FinishChat, TypeOK,
                       ChatLife, BeforeEnd, AfterEnd, Suspended
  <2> QED
    BY <2>1, <2>2, <2>4
<1>13. CASE LeaveSuspended(c)
  <2>1. TypeOK' /\ RegistriesAgree'
    BY <1>13 DEF LeaveSuspended, TypeOK, RelayPlaces, RegistriesAgree
  <2>2. ChatLife'
    BY <1>13 DEF LeaveSuspended, TypeOK, ChatLife, BeforeEnd, AfterEnd, Suspended
  <2> QED
    BY <2>1, <2>2
<1>14. CASE Finalize(c)
  <2>1. TypeOK' /\ RegistriesAgree'
    BY <1>14 DEF Finalize, TypeOK, RelayPlaces, RegistriesAgree
  <2>2. ChatLife'
    BY <1>14 DEF Finalize, TypeOK, ChatLife, BeforeEnd, AfterEnd, Suspended
  <2> QED
    BY <2>1, <2>2
<1> QED
  BY <1>2, <1>3, <1>4, <1>5, <1>6, <1>7, <1>8, <1>9, <1>10, <1>11, <1>12, <1>13, <1>14
     DEF RelayStep

(* A registration: the chat and its provider were free. *)
LEMMA StartPreserves ==
    ASSUME IInv, NEW c \in Chats, NEW p \in Providers, Start(c, p)
    PROVE  IInv'
<1> USE DEF IInv, Start, RelayTo, left
<1>1. active \in SUBSET Chats /\ c \notin active /\ providerActive[p] = None
  BY DEF TypeOK, ChatLife, MayStart
<1>2. TypeOK'
  BY <1>1 DEF TypeOK, RelayPlaces
<1>3. Cardinality(active') <= MaxActive
  <2>1. IsFiniteSet(active) /\ Cardinality(active) \in Nat
    BY <1>1, FiniteChats
  <2>2. Cardinality(active') = Cardinality(active) + 1
    BY <1>1, <2>1, FS_AddElement
  <2> QED
    BY <2>1, <2>2, ManageChatAssumption DEF MayStart, Room
<1>4. ASSUME NEW q \in Providers, NEW d \in Chats
      PROVE  providerActive'[q] = d <=> d \in active' /\ provider'[d] = q
  BY <1>1, ManageChatAssumption DEF TypeOK, RegistriesAgree
<1>5. ChatLife'
  BY <1>1, ManageChatAssumption DEF TypeOK, ChatLife, BeforeEnd, AfterEnd, Suspended
<1> QED
  BY <1>2, <1>3, <1>4, <1>5 DEF RegistriesAgree

(* disable() clears both registries. *)
LEMMA DisablePreserves ==
    ASSUME IInv, Disable
    PROVE  IInv'
<1> USE DEF IInv, Disable, left
<1>1. TypeOK'
  BY DEF TypeOK, Listed
<1>2. RegistriesAgree'
  <2>1. Cardinality(active') = 0
    BY FS_EmptySet
  <2> QED
    BY <2>1, ManageChatAssumption DEF RegistriesAgree
<1>3. ChatLife'
  BY DEF TypeOK, ChatLife, BeforeEnd, AfterEnd, Suspended
<1> QED
  BY <1>1, <1>2, <1>3

(* Every step preserves the invariant. *)
LEMMA NextIInv == IInv /\ [Next]_vars => IInv'
<1> SUFFICES ASSUME IInv, [Next]_vars PROVE IInv'
  OBVIOUS
<1>1. ASSUME NEW c \in Chats, NEW p \in Providers, Start(c, p) PROVE IInv'
  BY <1>1, StartPreserves
<1>2. ASSUME NEW c \in Chats, NEW p \in Providers, Refuse(c, p) PROVE IInv'
  <2>1. TypeOK' /\ RegistriesAgree'
    BY <1>2 DEF IInv, Refuse, RelayTo, registries, left, TypeOK, RelayPlaces, RegistriesAgree
  <2>2. ChatLife'
    BY <1>2 DEF IInv, Refuse, RelayTo, registries, left, TypeOK, ChatLife, BeforeEnd, AfterEnd, Suspended
  <2> QED
    BY <2>1, <2>2 DEF IInv
<1>3. ASSUME NEW c \in Chats, CancelChat(c) PROVE IInv'
  BY <1>3 DEF IInv, CancelChat, registries, left, TypeOK, RegistriesAgree,
              ChatLife
<1>4. ASSUME NEW c \in Chats, Signal(c) PROVE IInv'
  BY <1>4 DEF IInv, Signal, registries, left, TypeOK, RegistriesAgree, ChatLife
<1>5. ASSUME NEW c \in Chats, GenStep(c) PROVE IInv'
  BY <1>5, GenPreserves
<1>6. ASSUME NEW c \in Chats, RelayStep(c) PROVE IInv'
  BY <1>6, RelayPreserves
<1>7. CASE Disable
  BY <1>7, DisablePreserves
<1>8. CASE UNCHANGED vars
  BY <1>8 DEF vars, IInv, TypeOK, RegistriesAgree, ChatLife
<1> QED
  BY <1>1, <1>2, <1>3, <1>4, <1>5, <1>6, <1>7, <1>8 DEF Next, AllAnswered

(* The invariant in every reachable state. *)
THEOREM Invariance == Spec => []IInv
BY InitIInv, NextIInv, PTL DEF Spec

(* The variables keep their types. *)
THEOREM TypeCorrect == Spec => []TypeOK
<1>1. IInv => TypeOK
  BY DEF IInv
<1> QED
  BY <1>1, Invariance, PTL

(* The registries list the same chats, one per provider, within the limit, *)
(* whoever of the three parties finishes a chat, and when.                 *)
THEOREM Registries == Spec => []RegistriesAgree
<1>1. IInv => RegistriesAgree
  BY DEF IInv
<1> QED
  BY <1>1, Invariance, PTL

-----------------------------------------------------------------------------
(* What disable() relies on: a chat whose relay went to its end is         *)
(* cancelled, and one that is about to open its upstream in a disabled     *)
(* runtime is cancelled or about to be.                                    *)
Warned ==
    /\ givenUp \subseteq cancelled
    /\ \A c \in Chats :
         /\ relay[c] = "draining" => c \in cancelled
         /\ disabled /\ gen[c] = "checked" => c \in pending \cup cancelled

LEMMA InitWarned == Init => Warned
BY DEF Init, Warned

(* Warned is inductive relative to the invariant. *)
LEMMA NextWarned == IInv /\ Warned /\ [Next]_vars => Warned'
<1> SUFFICES ASSUME IInv, Warned, [Next]_vars PROVE Warned'
  OBVIOUS
<1> USE DEF Warned, registries, left, Cancels
<1>1. TypeOK
  BY DEF IInv
<1>2. ASSUME NEW c \in Chats, NEW p \in Providers, Start(c, p) \/ Refuse(c, p)
      PROVE  Warned'
  BY <1>1, <1>2 DEF Start, Refuse, RelayTo, TypeOK
<1>3. ASSUME NEW c \in Chats, CancelChat(c) \/ Signal(c) PROVE Warned'
  BY <1>3 DEF CancelChat, Signal
<1>4. ASSUME NEW c \in Chats, GenStep(c) PROVE Warned'
  <2> USE DEF GenKeeps, Yields, GenTo, TypeOK
  <2>1. CASE GenFirst(c) \/ GenCheck(c) \/ GenOpen(c)
    BY <1>1, <2>1 DEF GenFirst, GenCheck, GenOpen
  <2>2. CASE GenMessage(c) \/ TurnEnds(c) \/ GenEnds(c)
    BY <1>1, <2>2 DEF GenMessage, TurnEnds, GenEnds
  <2>3. CASE GenCloses(c) \/ GenFinishes(c)
    BY <1>1, <2>3 DEF GenCloses, GenFinishes
  <2> QED
    BY <1>4, <2>1, <2>2, <2>3 DEF GenStep
<1>5. ASSUME NEW c \in Chats, RelayStep(c) PROVE Warned'
  <2> USE DEF RelayKeeps, RelayTo, TypeOK
  <2>1. CASE LeaveUnentered(c) \/ Received(c) \/ Drained(c) \/ Closed(c)
    BY <1>1, <2>1 DEF LeaveUnentered, Received, Drained, Closed, RelayOnly
  <2>2. CASE NextCall(c) \/ LeaveLoop(c) \/ LeaveSuspended(c) \/ GiveUp(c)
    BY <1>1, <2>2 DEF NextCall, LeaveLoop, LeaveSuspended, GiveUp
  <2>3. CASE Close(c) \/ Finalize(c) \/ Collect(c)
    BY <1>1, <2>3 DEF Close, Finalize, Collect, Exit, GenTo
  <2>4. CASE RelayFinishes(c) \/ Background(c)
    BY <1>1, <2>4 DEF RelayFinishes, Background
  <2> QED
    BY <1>5, <2>1, <2>2, <2>3, <2>4 DEF RelayStep
<1>6. CASE Disable
  <2>1. \A c \in Chats : gen[c] = "checked" => c \in active \cup cancelled
    BY <1>6 DEF Disable, IInv, TypeOK, ChatLife, BeforeEnd, AfterEnd, Suspended, RelayPlaces
  <2> QED
    BY <1>6, <2>1 DEF Disable, Listed
<1>7. CASE UNCHANGED vars
  BY <1>7 DEF vars
<1> QED
  BY <1>2, <1>3, <1>4, <1>5, <1>6, <1>7 DEF Next, AllAnswered

(* Only a generator that opens its upstream begins a turn. *)
LEMMA OnlyOpenBegins ==
    ASSUME [Next]_vars, NEW c \in turns' \ turns
    PROVE  c \in Chats /\ GenOpen(c)
<1>1. ASSUME NEW d \in Chats, GenOpen(d) PROVE d = c
  BY <1>1 DEF GenOpen
<1>2. ASSUME NEW d \in Chats, GenStep(d), ~GenOpen(d) PROVE FALSE
  BY <1>2 DEF GenStep, GenFirst, GenCheck, GenMessage, TurnEnds, GenEnds, GenCloses,
              ClosesUpstream, GenFinishes
<1>3. ASSUME NEW d \in Chats, RelayStep(d) PROVE FALSE
  BY <1>3 DEF RelayStep, LeaveUnentered, NextCall, Received, LeaveLoop, LeaveSuspended,
              Drained, GiveUp, Close, Closed, RelayFinishes, Background, Finalize, Collect,
              RelayOnly, RelayKeeps
<1>4. ASSUME NEW d \in Chats, NEW p \in Providers, Start(d, p) \/ Refuse(d, p) PROVE FALSE
  BY <1>4 DEF Start, Refuse
<1>5. ASSUME NEW d \in Chats, CancelChat(d) \/ Signal(d) PROVE FALSE
  BY <1>5 DEF CancelChat, Signal
<1>6. ~Disable /\ ~UNCHANGED vars
  BY DEF Disable, vars
<1> QED
  BY <1>1, <1>2, <1>3, <1>4, <1>5, <1>6 DEF Next, AllAnswered

(* A chat about to open its upstream has not been told to stop, so neither *)
(* its relay nor the interpreter has left it: it is registered, or         *)
(* disable() has yet to tell it.                                           *)
LEMMA OpenRegistered ==
    ASSUME IInv, Warned, NEW c \in Chats, GenOpen(c), c \in turns' \ turns
    PROVE  IF disabled THEN c \in pending ELSE providerActive[provider[c]] = c
<1> USE DEF GenOpen
<1>1. CASE disabled
  BY <1>1 DEF Warned
<1>2. CASE ~disabled
  <2>1. c \notin givenUp \cup dropped /\ relay[c] \in BeforeEnd
    BY DEF IInv, TypeOK, RelayPlaces, ChatLife, BeforeEnd, AfterEnd, Warned
  <2>2. c \in active
    BY <1>2, <2>1 DEF IInv, ChatLife
  <2>3. provider[c] \in Providers
    BY <2>2 DEF IInv, TypeOK, ChatLife
  <2> QED
    BY <1>2, <2>2, <2>3 DEF IInv, RegistriesAgree
<1> QED
  BY <1>1, <1>2

(* disable() closes the door: it tells whoever its critical section finds, *)
(* and nobody else begins a provider turn.                                 *)
THEOREM DisableIsFinal == Spec => NoTurnOnceTold
<1>1. IInv /\ Warned /\ [Next]_vars
        => [turns' \subseteq turns \cup pending \/ ~disabled]_vars
  BY OnlyOpenBegins, OpenRegistered
<1> QED
  BY <1>1, InitIInv, NextIInv, InitWarned, NextWarned, PTL DEF Spec, NoTurnOnceTold

(* A chat that lost its provider, to its relay, its background task or     *)
(* disable(), begins no turn on it any more.                               *)
THEOREM HolderBegins == Spec => BegunByHolder
<1>1. IInv /\ Warned /\ [Next]_vars
        => [disabled \/ \A c \in turns' \ turns : providerActive[provider[c]] = c]_vars
  BY OnlyOpenBegins, OpenRegistered
<1> QED
  BY <1>1, InitIInv, NextIInv, InitWarned, NextWarned, PTL DEF Spec, BegunByHolder
=============================================================================
