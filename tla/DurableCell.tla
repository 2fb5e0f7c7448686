----------------------------- MODULE DurableCell -----------------------------
(* What the lab's state file promises, with no word on files, locks or      *)
(* processes: one value that is replaced in one step, of which a power      *)
(* failure leaves the last one made durable or a later one, and which is    *)
(* durable before a replacement is acknowledged.  Who stores a value is not *)
(* told; what a stranger writes that is no value is not written over.       *)
EXTENDS Naturals

CONSTANTS None, Foreign     \* no value yet; what is no value

VARIABLES value,      \* what a reader gets
          survivors,  \* what a power failure may leave
          acked       \* the last acknowledged value

cell == <<value, survivors, acked>>

Init == value = None /\ survivors = {None} /\ acked = None

(* Values are numbered in the order in which they are stored. *)
Store ==
    /\ value # Foreign
    /\ value' \in Nat \ {Foreign} /\ (value # None => value' > value)
    /\ survivors' = survivors \cup {value'}
    /\ UNCHANGED acked

Persist == survivors' = {value} /\ UNCHANGED <<value, acked>>

Acknowledge ==
    /\ survivors = {value} /\ value # None
    /\ acked' = value
    /\ UNCHANGED <<value, survivors>>

PowerFails ==
    /\ \E v \in survivors : value' = v /\ survivors' = {v}
    /\ UNCHANGED acked

Intrude ==
    /\ value' = Foreign /\ survivors' = survivors \cup {Foreign}
    /\ UNCHANGED acked

Next == Store \/ Persist \/ Acknowledge \/ PowerFails \/ Intrude

Spec == Init /\ [][Next]_cell
=============================================================================
