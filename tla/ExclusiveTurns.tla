--------------------------- MODULE ExclusiveTurns ---------------------------
(***************************************************************************)
(* What is promised of provider turns, with no word on how: a provider     *)
(* account serves a bounded number of turns at a time, the server as a     *)
(* whole does too, and a stored conversation takes part in one turn at a   *)
(* time.  ServerLeases shows that leases, slots, counters and streaming    *)
(* cleanup keep this promise.                                              *)
(***************************************************************************)
EXTENDS Naturals, FiniteSets

CONSTANTS Requests,          \* requests, each in one turn at most
          Convs,             \* conversation ids that clients name
          Accounts,          \* provider accounts, compatibility names collapsed
          Anonymous,         \* stands for "the request names no conversation"
          NoTurn,            \* a request that is in no turn
          MaxActiveTurns,    \* turns the server runs at a time
          MaxPerProvider     \* turns a provider account runs at a time

VARIABLE turn   \* turn[r]: the conversation and account r's turn runs on

Turns == [conv : Convs \cup {Anonymous}, provider : Accounts]

InTurn == {r \in Requests : turn[r] # NoTurn}

OnAccount(p) == {r \in InTurn : turn[r].provider = p}

Init == turn = [r \in Requests |-> NoTurn]

(* A turn begins only where it excludes nobody and nobody excludes it. *)
Begin(r, u, p) ==
    /\ turn[r] = NoTurn
    /\ Cardinality(InTurn) < MaxActiveTurns
    /\ Cardinality(OnAccount(p)) < MaxPerProvider
    /\ u # Anonymous => \A q \in InTurn : turn[q].conv # u
    /\ turn' = [turn EXCEPT ![r] = [conv |-> u, provider |-> p]]

End(r) ==
    /\ turn[r] # NoTurn
    /\ turn' = [turn EXCEPT ![r] = NoTurn]

(* The server's lifetime ends: what still runs is no longer its concern. *)
EndOfService == turn' = [r \in Requests |-> NoTurn]

Next ==
    \/ \E r \in Requests, u \in Convs \cup {Anonymous}, p \in Accounts : Begin(r, u, p)
    \/ \E r \in Requests : End(r)
    \/ EndOfService

Spec == Init /\ [][Next]_turn
=============================================================================
