------------------------------ MODULE OneAnswer ------------------------------
(***************************************************************************)
(* What a provider's chat, stream and astream promise to whoever asks for  *)
(* a turn (base.py), with no word on processes, pipes, readers or          *)
(* watchdogs: the turn is tried a bounded number of times, one attempt     *)
(* after the other; it is tried again only while nobody had anything of it *)
(* and nothing came of it; it ends once, with all of one attempt's output  *)
(* or with an error, and what it started ends with it.                     *)
(***************************************************************************)
EXTENDS Naturals

CONSTANT MaxAttempts    \* how often a turn is tried

VARIABLES
    phase,      \* "ready" between attempts, "trying", "answered" or "failed"
    tries,      \* the attempts made; the last one is the one under way
    alive,      \* something that attempt started lives
    written,    \* how much output it has made
    had,        \* how much of it the caller had
    shown,      \* the caller was shown a message of it
    acted,      \* the attempts that had an effect
    missed      \* the attempts of which output was thrown away

turn == <<phase, tries, alive, written, had, shown, acted, missed>>

Init ==
    /\ phase = "ready" /\ tries = 0 /\ alive = FALSE
    /\ written = 0 /\ had = 0 /\ shown = FALSE
    /\ acted = {} /\ missed = {}

Try ==
    /\ phase = "ready" /\ tries < MaxAttempts /\ ~alive
    /\ phase' = "trying" /\ tries' = tries + 1 /\ alive' = TRUE
    /\ written' = 0 /\ had' = 0 /\ shown' = FALSE
    /\ UNCHANGED <<acted, missed>>

(* The attempt makes output; what it does besides shows in its output. *)
Work ==
    /\ alive
    /\ written' = written + 1
    /\ acted' \in {acted, acted \cup {tries}}
    /\ UNCHANGED <<phase, tries, alive, had, shown, missed>>

Dies ==
    /\ alive /\ alive' = FALSE
    /\ UNCHANGED <<phase, tries, written, had, shown, acted, missed>>

(* The caller takes some of the output, while the turn lasts. *)
Take ==
    /\ phase = "trying"
    /\ had' \in had .. written
    /\ shown' \in {shown, TRUE} /\ (shown' => shown \/ had' > had)
    /\ missed' \in {missed, missed \cup {tries}}
    /\ UNCHANGED <<phase, tries, alive, written, acted>>

(* Output that comes too late, or that is too much, is thrown away. *)
Miss ==
    /\ phase \in {"trying", "failed"}
    /\ missed' = missed \cup {tries}
    /\ UNCHANGED <<phase, tries, alive, written, had, shown, acted>>

(* The turn is to be tried again: nothing of the attempt is left, and no   *)
(* effect of any attempt showed in what was read of its output.            *)
GiveUpAttempt ==
    /\ phase = "trying" /\ ~alive /\ ~shown /\ acted \subseteq missed
    /\ phase' = "ready"
    /\ UNCHANGED <<tries, alive, written, had, shown, acted, missed>>

Answer ==
    /\ phase = "trying" /\ ~alive
    /\ had = written \/ tries \in missed
    /\ phase' = "answered"
    /\ UNCHANGED <<tries, alive, written, had, shown, acted, missed>>

(* Only an attempt of which the caller was shown something may be left     *)
(* alive for a moment.                                                     *)
Fail ==
    /\ phase \in {"ready", "trying"}
    /\ phase' = "failed"
    /\ alive' \in {alive, FALSE} /\ (alive' => shown)
    /\ UNCHANGED <<tries, written, had, shown, acted, missed>>

Next == Try \/ Work \/ Dies \/ Take \/ Miss \/ GiveUpAttempt \/ Answer \/ Fail

Spec == Init /\ [][Next]_turn
=============================================================================
