------------------------------ MODULE CleanRun ------------------------------
(***************************************************************************)
(* What the lifecycle of an extension lab promises, with no word on        *)
(* phases, ledgers, commands or crashes: each thing of the lab is asked    *)
(* for once; the lab is called clean when nothing of it exists, and then   *)
(* nothing of it ever exists again; only a clean lab gets a verdict, which *)
(* is good for a lab in which nothing went wrong only; one manifest says   *)
(* the verdict, and the lab is closed after that.                          *)
(***************************************************************************)

CONSTANTS Things,       \* what is asked for
          Derived       \* what the lab makes itself

VARIABLES
    asked,      \* the things asked for
    existing,   \* what exists, or may come to exist although nobody asks again
    failed,     \* something went wrong
    clean,      \* the lab is called clean
    verdict,    \* "none", "passed" or "failed_clean"
    published,  \* what the manifest says, or "none"
    closed      \* the lab is closed

run == <<asked, existing, failed, clean, verdict, published, closed>>

Init ==
    /\ asked = {} /\ existing = {} /\ failed = FALSE /\ clean = FALSE
    /\ verdict = "none" /\ published = "none" /\ closed = FALSE

Unsettled == ~clean /\ UNCHANGED <<clean, verdict, published, closed>>

(* Whoever asks may not learn whether it was heard. *)
Ask(x) ==
    /\ Unsettled /\ x \notin asked
    /\ asked' = asked \cup {x}
    /\ existing' \in {existing, existing \cup {x}}
    /\ failed' \in {failed, TRUE}

Derive ==
    /\ Unsettled
    /\ existing' = existing \cup {Derived}
    /\ UNCHANGED <<asked, failed>>

(* Things go, and things go wrong. *)
Work ==
    /\ Unsettled
    /\ existing' \in SUBSET existing
    /\ failed' \in {failed, TRUE}
    /\ UNCHANGED asked

CallClean ==
    /\ ~clean /\ existing = {}
    /\ clean' = TRUE
    /\ UNCHANGED <<asked, existing, failed, verdict, published, closed>>

Decide ==
    /\ clean /\ verdict = "none"
    /\ verdict' \in IF failed THEN {"failed_clean"} ELSE {"passed", "failed_clean"}
    /\ UNCHANGED <<asked, existing, failed, clean, published, closed>>

Publish ==
    /\ verdict # "none" /\ ~closed
    /\ published' = verdict
    /\ UNCHANGED <<asked, existing, failed, clean, verdict, closed>>

Close ==
    /\ published # "none"
    /\ closed' = TRUE
    /\ UNCHANGED <<asked, existing, failed, clean, verdict, published>>

Next ==
    \/ \E x \in Things : Ask(x)
    \/ Derive \/ Work \/ CallClean \/ Decide \/ Publish \/ Close

Spec == Init /\ [][Next]_run
=============================================================================
