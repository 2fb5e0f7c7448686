---------------------------- MODULE ProviderTurn ----------------------------
(***************************************************************************)
(* One turn of a provider CLI (base.py): chat, stream and astream, which   *)
(* run the CLI in a process of its own, read its output, watch it, end it  *)
(* with everything it started, and run it again after a transient failure  *)
(* that provably came before any effect.                                   *)
(*                                                                         *)
(* The actors are the caller, the reader of the output (a thread, or the   *)
(* callbacks of _AsyncJsonlProtocol), the watchdog thread of a stream, and *)
(* the process, which may do anything: answer, fail before or after an     *)
(* answer, close its output and go on, leave a descendant behind, never    *)
(* read its prompt, or hang.  A line of output is an error envelope, which *)
(* comes before any effect, a message for the caller, or noise, which is   *)
(* neither.  Time is left to choice: a deadline may pass whenever the      *)
(* process is silent.                                                      *)
(***************************************************************************)
EXTENDS Naturals, Sequences

CONSTANTS MaxAttempts,  \* _RETRY_MAX_ATTEMPTS
          MaxLines,     \* bound: the lines one process writes
          MaxBuffered   \* max_stream_buffer_bytes, max_output_bytes, max_stream_events

ASSUME ProviderTurnAssumption ==
    MaxAttempts \in Nat \ {0} /\ MaxLines \in Nat /\ MaxBuffered \in Nat

VARIABLES
    mode,       \* the method called
    piped,      \* the prompt goes through stdin and does not fit in the pipe
    cancel,     \* cancel_event is set
    pc,         \* where the caller stands
    raising,    \* the exception on its way to the caller
    attempt,    \* attempt, counted from 1
    child,      \* the process of this attempt
    pipe,       \* its stdout: the lines nobody has read
    reader,     \* the reader: "off", "reading" or "done"
    told,       \* the reader has seen that the process exited
    queue,      \* what the reader has for the caller
    watch,      \* the watchdog: "off", "on", or "due" once a deadline has passed
    noted,      \* overflow_reason, cancelled, fired
    safe,       \* retry_evidence_safe
    emitted,    \* emitted: a message of this attempt went to the caller
    taken,      \* history: the lines of this attempt the caller had
    worked,     \* history: the attempts that had an effect
    lost        \* history: the attempts of which output was thrown away

call == <<mode, piped>>
output == <<reader, told, queue>>
evidence == <<safe, emitted, taken>>
history == <<worked, lost>>
vars == <<call, cancel, pc, raising, attempt, child, pipe, output, watch, noted, evidence,
          history>>

Modes == {"chat", "stream", "astream"}
Lines == {"envelope", "noise", "message"}

(* begin: before an attempt; feeding: writing the prompt; reading: in the  *)
(* loop; yielded: the caller has a message; joining: chat's process is     *)
(* gone, its reader may not be; reaping: the output has ended; judging;    *)
(* cleaning: in the finally; failed: in the except; waiting: before a      *)
(* retry; ended.                                                           *)
Places == {"begin", "feeding", "reading", "yielded", "joining", "reaping", "judging",
           "cleaning", "failed", "waiting", "ended"}

(* hang: a deadline passed; limit: too much output; transient: classified  *)
(* as worth a retry; permanent: any other failure; left: the caller closed *)
(* the generator, or its task was cancelled.                               *)
Raised == {"none", "cancelled", "hang", "limit", "transient", "permanent", "left"}

(* fed: it has read its prompt; open: its stdout is; helper: a descendant  *)
(* in its process group is alive and holds its pipes.                      *)
Processes ==
    [run : {"none", "running", "exited"}, code : {"ok", "transient", "permanent"},
     wrote : 0 .. MaxLines, fed : BOOLEAN, open : BOOLEAN, helper : BOOLEAN]

TypeOK ==
    /\ mode \in Modes /\ piped \in BOOLEAN /\ cancel \in BOOLEAN
    /\ pc \in Places /\ raising \in Raised
    /\ attempt \in 0 .. MaxAttempts
    /\ child \in Processes
    /\ pipe \in Seq(Lines) /\ Len(pipe) <= MaxLines
    /\ reader \in {"off", "reading", "done"} /\ told \in BOOLEAN
    /\ queue \in Seq(Lines \cup {"eof", "limit"}) /\ Len(queue) <= MaxBuffered + 1
    /\ watch \in {"off", "on", "due"}
    /\ noted \in SUBSET {"overflow", "cancelled", "fired"}
    /\ safe \in BOOLEAN /\ emitted \in BOOLEAN /\ taken \in 0 .. MaxLines
    /\ worked \in SUBSET (1 .. MaxAttempts) /\ lost \in SUBSET (1 .. MaxAttempts)

Fresh(reads, descends) ==
    [run |-> "running", code |-> "permanent", wrote |-> 0, fed |-> reads, open |-> TRUE,
     helper |-> descends]

NoProcess ==
    [run |-> "none", code |-> "permanent", wrote |-> 0, fed |-> FALSE, open |-> FALSE,
     helper |-> FALSE]

Init ==
    /\ mode \in Modes /\ piped \in BOOLEAN /\ cancel = FALSE
    /\ pc = "begin" /\ raising = "none" /\ attempt = 0
    /\ child = NoProcess /\ pipe = <<>>
    /\ reader = "off" /\ told = FALSE /\ queue = <<>>
    /\ watch = "off" /\ noted = {}
    /\ safe = TRUE /\ emitted = FALSE /\ taken = 0
    /\ worked = {} /\ lost = {}

Running == child.run = "running"
Exited == child.run = "exited"
Swept == child.run # "running" /\ ~child.helper

-----------------------------------------------------------------------------
(* The process, and who sets the cancel event. *)

Cancel ==
    /\ ~cancel /\ pc # "ended"
    /\ cancel' = TRUE
    /\ UNCHANGED <<call, pc, raising, attempt, child, pipe, output, watch, noted, evidence,
                   history>>

(* An effect shows: a process that answers or uses a tool writes of it.    *)
Write(line) ==
    /\ Running /\ child.open /\ child.wrote < MaxLines
    /\ line = "envelope" \/ child.fed
    /\ child' = [child EXCEPT !.wrote = @ + 1]
    /\ pipe' = IF reader = "done" THEN pipe ELSE Append(pipe, line)
    /\ worked' = IF line = "envelope" THEN worked ELSE worked \cup {attempt}
    /\ UNCHANGED <<call, cancel, pc, raising, attempt, output, watch, noted, evidence, lost>>

ReadPrompt ==
    /\ Running /\ ~child.fed
    /\ child' = [child EXCEPT !.fed = TRUE]
    /\ UNCHANGED <<call, cancel, pc, raising, attempt, pipe, output, watch, noted, evidence,
                   history>>

CloseOutput ==
    /\ Running /\ child.open
    /\ child' = [child EXCEPT !.open = FALSE]
    /\ UNCHANGED <<call, cancel, pc, raising, attempt, pipe, output, watch, noted, evidence,
                   history>>

Exit(code) ==
    /\ Running
    /\ child' = [child EXCEPT !.run = "exited", !.code = code]
    /\ UNCHANGED <<call, cancel, pc, raising, attempt, pipe, output, watch, noted, evidence,
                   history>>

DescendantExits ==
    /\ child.helper
    /\ child' = [child EXCEPT !.helper = FALSE]
    /\ UNCHANGED <<call, cancel, pc, raising, attempt, pipe, output, watch, noted, evidence,
                   history>>

(* _terminate_process_tree: SIGKILL for the group, of a process that runs  *)
(* or, by force, of one that is gone.                                      *)
Dead == [child EXCEPT !.run = IF Running THEN "exited" ELSE @,
                      !.code = IF Running THEN "permanent" ELSE @,
                      !.helper = FALSE]

Terminated == IF Running THEN Dead ELSE child

(* Mutant: the group of a process that exited by itself is left alone. *)
SweptIfRunning == Terminated

SweptChild == Dead

-----------------------------------------------------------------------------
(* The reader: _drain_binary_into, _StreamReader._read_loop, or the        *)
(* callbacks of _AsyncJsonlProtocol.                                       *)

(* It learns that the process exited; the protocol ends its group then.    *)
Notice ==
    /\ Exited /\ ~told
    /\ reader = "reading" \/ (mode = "astream" /\ pc # "ended")
    /\ told' = TRUE
    /\ child' = IF mode = "astream" THEN SweptChild ELSE child
    /\ UNCHANGED <<call, cancel, pc, raising, attempt, pipe, reader, queue, watch, noted,
                   evidence, history>>

(* Mutant: one line more than the limit. *)
HasRoomForOne == Len(queue) <= MaxBuffered

HasRoom == Len(queue) < MaxBuffered

ReadLine ==
    /\ reader = "reading" /\ pipe # <<>> /\ HasRoom
    /\ queue' = Append(queue, Head(pipe))
    /\ pipe' = Tail(pipe)
    /\ UNCHANGED <<call, cancel, pc, raising, attempt, child, reader, told, watch, noted,
                   evidence, history>>

StopReading(last) ==
    /\ reader' = "done"
    /\ pipe' = <<>>
    /\ queue' = Append(queue, last)
    /\ UNCHANGED <<call, cancel, pc, raising, attempt, told, watch, evidence, worked>>

(* Too much output ends the process ...                                    *)
Overflow ==
    /\ reader = "reading" /\ pipe # <<>> /\ ~HasRoom /\ ~told
    /\ StopReading(IF mode = "astream" THEN "limit" ELSE "eof")
    /\ noted' = noted \cup {"overflow"}
    /\ child' = Terminated
    /\ UNCHANGED lost

(* ... but once it has exited the rest is taken for a descendant's output  *)
(* and thrown away, with no word of it.                                    *)
CutOff ==
    /\ reader = "reading" /\ pipe # <<>> /\ ~HasRoom /\ told
    /\ StopReading("eof")
    /\ lost' = lost \cup {attempt}
    /\ UNCHANGED <<child, noted>>

(* Mutant: what is still in the pipe at the exit is not read. *)
ReadEndEarly ==
    /\ reader = "reading"
    /\ told \/ (pipe = <<>> /\ ~child.helper /\ (Exited \/ ~child.open))
    /\ StopReading("eof")
    /\ UNCHANGED <<child, noted, lost>>

(* Mutant: the reader waits for the end of the output. *)
ReadEndOnly ==
    /\ reader = "reading" /\ pipe = <<>>
    /\ ~child.helper /\ (Exited \/ ~child.open)
    /\ StopReading("eof")
    /\ UNCHANGED <<child, noted, lost>>

(* The end of the output, or of the time that descendants which still hold *)
(* it open are given after the exit.                                       *)
ReadEnd ==
    /\ reader = "reading" /\ pipe = <<>>
    /\ told \/ (~child.helper /\ (Exited \/ ~child.open))
    /\ StopReading("eof")
    /\ UNCHANGED <<child, noted, lost>>

-----------------------------------------------------------------------------
(* The watchdog of a stream: _StreamReader._watch_loop. *)

Unwatched ==
    /\ watch' = "off"
    /\ UNCHANGED <<call, cancel, pc, raising, attempt, pipe, output, evidence, history>>

WatchCancel ==
    /\ watch = "on" /\ cancel
    /\ noted' = noted \cup {"cancelled"}
    /\ child' = Terminated
    /\ Unwatched

WatchExit == watch = "on" /\ ~cancel /\ Exited /\ Unwatched /\ UNCHANGED <<child, noted>>

(* The deadline of a process that has long been silent ...                 *)
WatchDue ==
    /\ watch = "on" /\ ~cancel /\ Running /\ pipe = <<>>
    /\ watch' = "due"
    /\ UNCHANGED <<call, cancel, pc, raising, attempt, child, pipe, output, noted, evidence,
                   history>>

(* ... and the kill, for which it may have exited meanwhile.               *)
WatchFires ==
    /\ watch = "due"
    /\ noted' = noted \cup {"fired"}
    /\ child' = Terminated
    /\ Unwatched

-----------------------------------------------------------------------------
(* The caller. *)

Goto(place) == pc' = place /\ UNCHANGED raising

(* An exception leaves the try; what is done in its finally comes next.    *)
Raise(exception) == pc' = "cleaning" /\ raising' = exception

(* _run_once, _stream_once, _astream_once: the process is started, and the *)
(* reader and the watchdog unless a prompt has to be written first.        *)
Spawn ==
    /\ pc = "begin" /\ ~cancel
    /\ Goto(IF piped /\ mode # "chat" THEN "feeding" ELSE "reading")
    /\ attempt' = attempt + 1
    /\ \E descends \in BOOLEAN : child' = Fresh(~piped, descends)
    /\ reader' = IF piped /\ mode = "stream" THEN "off" ELSE "reading"
    /\ watch' = IF mode = "stream" /\ ~piped THEN "on" ELSE "off"
    /\ told' = FALSE /\ queue' = <<>> /\ pipe' = <<>> /\ noted' = {}
    /\ safe' = TRUE /\ emitted' = FALSE /\ taken' = 0
    /\ UNCHANGED <<call, cancel, history>>

CancelledBefore ==
    /\ pc = "begin" /\ cancel
    /\ pc' = "failed" /\ raising' = "cancelled"
    /\ UNCHANGED <<call, cancel, attempt, child, pipe, output, watch, noted, evidence, history>>

(* The prompt is written, or nobody is left to read it.  A stream's caller *)
(* writes it itself, before it has a reader or a watchdog.                 *)
Feed ==
    /\ pc = "feeding" /\ (child.fed \/ (mode = "stream" /\ Swept))
    /\ Goto("reading")
    /\ reader' = IF reader = "off" THEN "reading" ELSE reader
    /\ watch' = IF mode = "stream" THEN "on" ELSE watch
    /\ UNCHANGED <<call, cancel, attempt, child, pipe, told, queue, noted, evidence, history>>

(* astream waits for it no longer than self.timeout.                       *)
FeedTimesOut ==
    /\ pc = "feeding" /\ mode = "astream" /\ ~child.fed
    /\ Raise("hang")
    /\ UNCHANGED <<call, cancel, attempt, child, pipe, output, watch, noted, evidence, history>>

Taking == pc = "reading" /\ mode # "chat" /\ queue # <<>>

(* _cancel_requested, looked at after each line.                           *)
TakeCancelled ==
    /\ Taking /\ cancel /\ (mode = "astream" \/ Head(queue) # "eof")
    /\ Raise("cancelled")
    /\ child' = Terminated
    /\ UNCHANGED <<call, cancel, attempt, pipe, output, watch, noted, evidence, history>>

TakeLine ==
    /\ Taking /\ ~cancel /\ Head(queue) \in Lines
    /\ queue' = Tail(queue) /\ taken' = taken + 1
    /\ safe' = (safe /\ Head(queue) = "envelope")
    /\ emitted' = (emitted \/ Head(queue) = "message")
    /\ Goto(IF Head(queue) = "message" THEN "yielded" ELSE "reading")
    /\ UNCHANGED <<call, cancel, attempt, child, pipe, reader, told, watch, noted, history>>

TakeLimit ==
    /\ Taking /\ ~cancel /\ Head(queue) = "limit"
    /\ Raise("limit")
    /\ UNCHANGED <<call, cancel, attempt, child, pipe, output, watch, noted, evidence, history>>

(* The output has ended: reader.close() ends the watchdog too.             *)
TakeEnd ==
    /\ Taking /\ Head(queue) = "eof" /\ (mode = "stream" \/ ~cancel)
    /\ Goto("reaping")
    /\ watch' = "off"
    /\ UNCHANGED <<call, cancel, attempt, child, pipe, output, noted, evidence, history>>

(* astream has no watchdog: it looks at the event and at the deadlines     *)
(* whenever the queue has been empty for a tenth of a second.              *)
PollCancelled ==
    /\ pc = "reading" /\ mode = "astream" /\ queue = <<>> /\ cancel
    /\ Raise("cancelled")
    /\ child' = Terminated
    /\ UNCHANGED <<call, cancel, attempt, pipe, output, watch, noted, evidence, history>>

PollTimesOut ==
    /\ pc = "reading" /\ mode = "astream" /\ queue = <<>> /\ ~cancel
    /\ ~told /\ pipe = <<>>
    /\ Raise("hang")
    /\ child' = Terminated
    /\ UNCHANGED <<call, cancel, attempt, pipe, output, watch, noted, evidence, history>>

Resume ==
    /\ pc = "yielded"
    /\ Goto("reading")
    /\ UNCHANGED <<call, cancel, attempt, child, pipe, output, watch, noted, evidence, history>>

(* The generator is closed at its yield.  That ends stream's inner         *)
(* generators at once; astream's is left to the event loop's finalizer.    *)
Leave ==
    /\ pc = "yielded"
    /\ raising' = "left"
    /\ pc' = IF mode = "astream" THEN "ended" ELSE "cleaning"
    /\ UNCHANGED <<call, cancel, attempt, child, pipe, output, watch, noted, evidence, history>>

(* The outer loop has the message, and sees the event or another session   *)
(* than the one that was asked for: it raises, with the same difference.   *)
Reject(exception) ==
    /\ pc = "yielded" /\ (exception = "cancelled" => cancel)
    /\ raising' = exception
    /\ pc' = IF mode = "astream" THEN "failed" ELSE "cleaning"
    /\ UNCHANGED <<call, cancel, attempt, child, pipe, output, watch, noted, evidence, history>>

Finalize ==
    /\ pc = "ended" /\ ~Swept
    /\ child' = SweptChild
    /\ UNCHANGED <<call, cancel, pc, raising, attempt, pipe, output, watch, noted, evidence,
                   history>>

(* The task of an astream is cancelled while it waits.                     *)
TaskCancelled ==
    /\ mode = "astream"
    /\ pc \in {"feeding", "reaping", "waiting"} \/ (pc = "reading" /\ queue = <<>>)
    /\ raising' = "left"
    /\ pc' = IF pc = "waiting" THEN "ended" ELSE "cleaning"
    /\ UNCHANGED <<call, cancel, attempt, child, pipe, output, watch, noted, evidence, history>>

(* chat waits for the process itself, its event and its timeout.           *)
ChatEnds ==
    /\ pc = "reading" /\ mode = "chat"
    /\ \/ Exited /\ UNCHANGED noted
       \/ Running /\ cancel /\ noted' = noted \cup {"cancelled"}
       \/ Running /\ ~cancel /\ noted' = noted \cup {"fired"}
    /\ child' = SweptChild
    /\ Goto("joining")
    /\ UNCHANGED <<call, cancel, attempt, pipe, output, watch, evidence, history>>

(* How many lines the reader got; it may have said at last why it stopped. *)
LinesIn(q) ==
    IF q = <<>> \/ q[Len(q)] \in Lines THEN Len(q) ELSE Len(q) - 1

(* It takes what its reader has got, done or not: one that has not come to *)
(* the last of the output in a fifth of a second is stopped.               *)
Join ==
    /\ pc = "joining"
    /\ Goto("judging")
    /\ reader' = "done" /\ pipe' = <<>>
    /\ lost' = IF pipe = <<>> THEN lost ELSE lost \cup {attempt}
    /\ taken' = LinesIn(queue)
    /\ safe' = (\A i \in 1 .. LinesIn(queue) : queue[i] = "envelope")
    /\ UNCHANGED <<call, cancel, attempt, child, told, queue, watch, noted, emitted, worked>>

(* A stream's process has ended its output; now it has to exit.            *)
Reap ==
    /\ pc = "reaping" /\ (IF mode = "astream" THEN told ELSE Exited)
    /\ Goto("judging")
    /\ child' = SweptChild
    /\ UNCHANGED <<call, cancel, attempt, pipe, output, watch, noted, evidence, history>>

ReapTimesOut ==
    /\ pc = "reaping" /\ (IF mode = "astream" THEN ~told ELSE Running)
    /\ Raise("hang")
    /\ child' = Terminated
    /\ UNCHANGED <<call, cancel, attempt, pipe, output, watch, noted, evidence, history>>

(* The finally of an attempt that an exception ends.                       *)
Clean ==
    /\ pc = "cleaning"
    /\ Goto("failed")
    /\ child' = SweptChild
    /\ reader' = "done" /\ watch' = "off"
    /\ UNCHANGED <<call, cancel, attempt, pipe, told, queue, noted, evidence, history>>

(* What the attempt comes to, in the order in which the code asks.         *)
Verdict ==
    IF mode = "chat" /\ "cancelled" \in noted THEN "cancelled"
    ELSE IF mode = "chat" /\ "fired" \in noted THEN "hang"
    ELSE IF "overflow" \in noted THEN "limit"
    ELSE IF "cancelled" \in noted \/ (cancel /\ mode # "astream") THEN "cancelled"
    ELSE IF "fired" \in noted THEN "hang"
    ELSE IF child.code = "ok" THEN "none"
    ELSE child.code

Judge ==
    /\ pc = "judging" /\ Verdict # "none"
    /\ pc' = "failed" /\ raising' = Verdict
    /\ UNCHANGED <<call, cancel, attempt, child, pipe, output, watch, noted, evidence, history>>

(* The answer is parsed, its session is compared with the one asked for,   *)
(* and the event is looked at for the last time.                           *)
Return ==
    /\ pc = "judging" /\ Verdict = "none"
    /\ pc' = "ended"
    /\ \/ ~cancel /\ raising' = "none"
       \/ cancel /\ raising' = "cancelled"
       \/ mode = "chat" /\ raising' = "permanent"
    /\ UNCHANGED <<call, cancel, attempt, child, pipe, output, watch, noted, evidence, history>>

(* Mutant: only what the caller has seen forbids a retry. *)
RetryableUnseen == raising = "transient" /\ ~emitted /\ attempt < MaxAttempts

(* Mutant: one attempt too many. *)
RetryableOnceMore == raising = "transient" /\ safe /\ ~emitted /\ attempt <= MaxAttempts

Retryable == raising = "transient" /\ safe /\ ~emitted /\ attempt < MaxAttempts

(* Also when the delays of a turn are used up.                             *)
Fail ==
    /\ pc = "failed"
    /\ pc' = "ended"
    /\ raising' = IF Retryable /\ cancel THEN "cancelled" ELSE raising
    /\ UNCHANGED <<call, cancel, attempt, child, pipe, output, watch, noted, evidence, history>>

Retry ==
    /\ pc = "failed" /\ Retryable /\ ~cancel
    /\ Goto("waiting")
    /\ UNCHANGED <<call, cancel, attempt, child, pipe, output, watch, noted, evidence, history>>

WaitEnds ==
    /\ pc = "waiting"
    /\ \/ cancel /\ pc' = "ended" /\ raising' = "cancelled"
       \/ ~cancel /\ pc' = "begin" /\ raising' = "none"
    /\ UNCHANGED <<call, cancel, attempt, child, pipe, output, watch, noted, evidence, history>>

Over == pc = "ended" /\ Swept /\ UNCHANGED vars

-----------------------------------------------------------------------------

Process ==
    \/ \E line \in Lines : Write(line)
    \/ ReadPrompt
    \/ CloseOutput
    \/ DescendantExits
    \/ \E code \in {"ok", "transient", "permanent"} : Exit(code)

Reader == Notice \/ ReadLine \/ Overflow \/ CutOff \/ ReadEnd

Watchdog == WatchCancel \/ WatchExit \/ WatchDue \/ WatchFires

Caller ==
    \/ Spawn \/ CancelledBefore \/ Feed \/ FeedTimesOut
    \/ TakeCancelled \/ TakeLine \/ TakeLimit \/ TakeEnd \/ PollCancelled \/ PollTimesOut
    \/ Resume \/ Leave \/ \E exception \in {"cancelled", "permanent"} : Reject(exception)
    \/ ChatEnds \/ Join \/ Reap \/ ReapTimesOut \/ Clean
    \/ Judge \/ Return \/ Fail \/ Retry \/ WaitEnds \/ Finalize

Next == Cancel \/ Process \/ Reader \/ Watchdog \/ Caller \/ TaskCancelled \/ Over

Spec == Init /\ [][Next]_vars

(* The threads and the event loop run, deadlines pass, and who asked for a *)
(* turn goes on asking for messages or leaves.  Nothing is assumed of the  *)
(* process.                                                                *)
FairSpec == Spec /\ WF_vars(Reader) /\ WF_vars(Watchdog) /\ WF_vars(Caller)

-----------------------------------------------------------------------------
(* Properties *)

(* A turn is run again only while no process of it had an effect or gave   *)
(* the caller a message -- as far as its output was read (CutOff, Join).   *)
ReplaysAreSafe == worked \subseteq {attempt} \cup lost

(* A turn that ends without an error gave the caller everything its last   *)
(* process wrote, unless some of it was thrown away after the exit.        *)
AnswersAreWhole ==
    pc = "ended" /\ raising = "none" => taken = child.wrote \/ attempt \in lost

(* When a turn ends, or is about to be run again, its process and all that *)
(* is in its group are dead; only an astream's outer generator can end     *)
(* before the inner one, to which the kill belongs, is finalized.          *)
NothingOutlives ==
    pc \in {"begin", "waiting", "ended"} =>
        Swept \/ (mode = "astream" /\ pc = "ended" /\ emitted /\ raising # "none")

(* Process, reader, watchdog and caller implement one answer by one        *)
(* attempt: no attempt begins before the one before it is dead and known   *)
(* to be harmless, nothing is handed out once the turn is settled, and a   *)
(* settled turn stays settled.  A turn has failed when its exception can   *)
(* only go up, before its generator ends.                                  *)
Phase ==
    IF pc = "ended" THEN (IF raising = "none" THEN "answered" ELSE "failed")
    ELSE IF pc = "failed" /\ ~Retryable THEN "failed"
    ELSE IF pc \in {"begin", "waiting"} THEN "ready"
    ELSE "trying"

Abstract == INSTANCE OneAnswer WITH
    phase <- Phase, tries <- attempt, alive <- ~Swept, written <- child.wrote,
    had <- taken, shown <- emitted, acted <- worked, missed <- lost

ImplementsOneAnswer == Abstract!Spec

(* Every turn ends and takes its processes with it, whatever the process   *)
(* does.  CHANGELOG.md:219 has it for every stream; one exception is left: *)
(* stream writes a prompt that does not fit in the pipe before there is a  *)
(* watchdog, to a process that may never read it.                          *)
EveryTurnEnds ==
    \/ <>(pc = "ended" /\ Swept)
    \/ <>[](mode = "stream" /\ pc = "feeding" /\ ~child.fed /\ ~Swept)
=============================================================================
