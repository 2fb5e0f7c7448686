----------------------------- MODULE AtomicIndex -----------------------------
(***************************************************************************)
(* What the session index promises (session_manager.py, "Durable bounded   *)
(* index"), with no word on locks, processes or files: one map of records  *)
(* that every update changes in one step and in one place, that keeps      *)
(* within its bound by forgetting the least valuable records, and that     *)
(* comes back from a power failure as it was at some moment since it was   *)
(* last made durable.                                                      *)
(***************************************************************************)
EXTENDS Naturals, FiniteSets

CONSTANTS Keys,         \* (provider, session_id)
          Namespaces,   \* the sets of keys of one provider
          Times,        \* values of updated_at
          Limit         \* max_records

VARIABLES index,    \* the records, by key
          durable,  \* what a power failure leaves
          blind     \* whether the update under way could not read the index

vars == <<index, durable, blind>>

Entries == [stamp : Times, archived : BOOLEAN]

Indexes == UNION {[S -> Entries] : S \in SUBSET Keys}

Restricted(r, S) == [k \in S |-> r[k]]

With(r, k, e) == [j \in DOMAIN r \cup {k} |-> IF j = k THEN e ELSE r[j]]

(* Records are worth keeping in this order: live ones, and newer ones. *)
WorthAtLeast(d, e) ==
    \/ e.archived /\ ~d.archived
    \/ d.archived = e.archived /\ d.stamp >= e.stamp

(* What may be kept of r: all of it, or as much as the bound allows of     *)
(* what is worth most.                                                     *)
Kept(r) ==
    IF Cardinality(DOMAIN r) <= Limit THEN {r}
    ELSE {Restricted(r, S) : S \in {T \in SUBSET DOMAIN r :
            /\ Cardinality(T) = Limit
            /\ \A k \in T, j \in DOMAIN r \ T : WorthAtLeast(r[k], r[j])}}

Empty == [k \in {} |-> [stamp |-> 0, archived |-> FALSE]]

Init == index = Empty /\ durable = Empty /\ blind = FALSE

(* A record is added or changed. *)
Store ==
    /\ ~blind
    /\ \E k \in Keys, e \in Entries : index' \in Kept(With(index, k, e))
    /\ UNCHANGED <<durable, blind>>

(* A record, a provider's records or all of them are removed. *)
Remove ==
    /\ ~blind
    /\ \E S \in {{k} : k \in Keys} \cup Namespaces \cup {Keys} :
         index' = Restricted(index, DOMAIN index \ S)
    /\ UNCHANGED <<durable, blind>>

(* The exception: an index that cannot be read counts as an empty one. *)
StartOver ==
    /\ blind
    /\ \E k \in Keys, e \in Entries : index' = With(Empty, k, e)
    /\ UNCHANGED <<durable, blind>>

(* An update begins or ends; it may find the index unreadable. *)
Look == blind' \in BOOLEAN /\ UNCHANGED <<index, durable>>

Persist == durable' = index /\ UNCHANGED <<index, blind>>

PowerFails == index' = durable /\ blind' = FALSE /\ UNCHANGED durable

Next == Store \/ Remove \/ StartOver \/ Look \/ Persist \/ PowerFails

Spec == Init /\ [][Next]_vars
=============================================================================
