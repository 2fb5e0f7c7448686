------------------------- MODULE SharedVerification -------------------------
(***************************************************************************)
(* What verify_provider promises to its callers (manage.py), with no word  *)
(* on flights, generations, identities, expiry or locks: one verification  *)
(* is under way at a time, on behalf of one caller; others may share it    *)
(* while it is under way, a forced caller only one that a forced caller    *)
(* began and that has really probed; each verification comes to one        *)
(* result, which all who share it get; an ordinary caller may be answered  *)
(* from memory, which only a good result fills; and once the runtime is    *)
(* closed, nothing is begun, comes to a good result or is remembered.      *)
(***************************************************************************)
CONSTANTS Callers, NoOne

VARIABLES
    asked,      \* asked[c]: "no", "ordinary" or "forced"
    answer,     \* answer[c]: "none", "verified" or "error"
    verifier,   \* on whose behalf a verification is under way, or NoOne
    probed,     \* it has probed the provider's version
    shares,     \* shares[c]: whose verification c shares, or NoOne
    result,     \* result[o]: what o's came to: "none", "good" or "error"
    known,      \* a result is remembered
    closed

verification == <<asked, answer, verifier, probed, shares, result, known, closed>>

Init ==
    /\ asked = [c \in Callers |-> "no"]
    /\ answer = [c \in Callers |-> "none"]
    /\ verifier = NoOne /\ probed = FALSE
    /\ shares = [c \in Callers |-> NoOne]
    /\ result = [c \in Callers |-> "none"]
    /\ known = FALSE /\ closed = FALSE

(* c waits for its answer and takes part in no verification. *)
Free(c) == asked[c] # "no" /\ answer[c] = "none" /\ verifier # c /\ shares[c] = NoOne

(* A result is kept for those who are still to take it. *)
Kept == [o \in Callers |->
           IF o = verifier' \/ \E c \in Callers : shares'[c] = o THEN result[o] ELSE "none"]

Ask(c, kind) ==
    /\ asked[c] = "no"
    /\ asked' = [asked EXCEPT ![c] = kind]
    /\ UNCHANGED <<answer, verifier, probed, shares, result, known, closed>>

Begin(c) ==
    /\ Free(c) /\ verifier = NoOne /\ ~closed
    /\ verifier' = c
    /\ known' \in {known, FALSE}
    /\ UNCHANGED <<asked, answer, probed, shares, result, closed>>

Share(c) ==
    /\ Free(c) /\ verifier # NoOne
    /\ asked[c] = "forced" => asked[verifier] = "forced"
    /\ shares' = [shares EXCEPT ![c] = verifier]
    /\ UNCHANGED <<asked, answer, verifier, probed, result, known, closed>>

Probe ==
    /\ verifier # NoOne /\ result[verifier] = "none"
    /\ probed' = TRUE
    /\ UNCHANGED <<asked, answer, verifier, shares, result, known, closed>>

Succeed ==
    /\ verifier # NoOne /\ result[verifier] = "none" /\ ~closed
    /\ asked[verifier] = "forced" => probed
    /\ result' = [result EXCEPT ![verifier] = "good"]
    /\ known' \in BOOLEAN
    /\ UNCHANGED <<asked, answer, verifier, probed, shares, closed>>

Fail ==
    /\ verifier # NoOne /\ result[verifier] = "none"
    /\ result' = [result EXCEPT ![verifier] = "error"]
    /\ UNCHANGED <<asked, answer, verifier, probed, shares, known, closed>>

(* The verification is over, and whoever began it has its result. *)
End(c) ==
    /\ verifier = c /\ result[c] # "none"
    /\ answer' = [answer EXCEPT ![c] = IF result[c] = "good" THEN "verified" ELSE "error"]
    /\ verifier' = NoOne /\ probed' = FALSE
    /\ result' = Kept
    /\ UNCHANGED <<asked, shares, known, closed>>

(* Whoever shared it has the same; but a closed runtime may refuse. *)
Take(c, how) ==
    /\ shares[c] # NoOne /\ result[shares[c]] # "none"
    /\ \/ how = "verified" /\ result[shares[c]] = "good"
       \/ how = "error" /\ (result[shares[c]] = "error" \/ closed)
    /\ answer' = [answer EXCEPT ![c] = how]
    /\ shares' = [shares EXCEPT ![c] = NoOne]
    /\ result' = Kept
    /\ UNCHANGED <<asked, verifier, probed, known, closed>>

Recall(c) ==
    /\ Free(c) /\ asked[c] = "ordinary" /\ known
    /\ answer' = [answer EXCEPT ![c] = "verified"]
    /\ UNCHANGED <<asked, verifier, probed, shares, result, known, closed>>

(* An ordinary caller may be told to come back, a forced one has to wait. *)
Refuse(c) ==
    /\ Free(c) /\ (closed \/ (asked[c] = "ordinary" /\ verifier # NoOne))
    /\ answer' = [answer EXCEPT ![c] = "error"]
    /\ UNCHANGED <<asked, verifier, probed, shares, result, known, closed>>

Forget ==
    /\ known' = FALSE
    /\ UNCHANGED <<asked, answer, verifier, probed, shares, result, closed>>

Close ==
    /\ ~closed /\ closed' = TRUE /\ known' = FALSE
    /\ result' = [o \in Callers |->
                    IF o = verifier /\ result[o] = "none" THEN "error" ELSE result[o]]
    /\ UNCHANGED <<asked, answer, verifier, probed, shares>>

Next ==
    \/ \E c \in Callers, kind \in {"ordinary", "forced"} : Ask(c, kind)
    \/ \E c \in Callers : \/ Begin(c) \/ Share(c) \/ End(c) \/ Recall(c) \/ Refuse(c)
                          \/ \E how \in {"verified", "error"} : Take(c, how)
    \/ Probe \/ Succeed \/ Fail \/ Forget \/ Close

Spec == Init /\ [][Next]_verification
=============================================================================
