# Formal models of unified_cli

TLA+ models of the parts of `unified_cli` whose correctness depends on
interleavings, failures and order: what they keep, what each step may do to it,
what TLC finds on small instances and what TLAPS proves for all of them. Paths
below are relative to `src/src/unified_cli/` unless they say otherwise.

`unified_cli` drives the command line tools of several AI providers (Claude
Code, Codex, Gemini/Antigravity, and plug-in providers) behind one Python
interface, a terminal front end, an OpenAI-compatible local HTTP server and a
browser dashboard.

## 1. The system

    terminal (cli, repl)     HTTP clients (server)      browser (manage)
            |                       |                        |
            |             conversation leases      chats, verification, models
            +-----------+-----------+------------------------+
                        v
             UnifiedConversation (conversation)
                        v
        BaseProvider.chat / stream / achat / astream (base)
             provider adapters, extension bridge
                        v
             provider CLI process, its own native sessions

Beside that column stand the stores on disk: the session index
(`session_manager`), settings and launch records (`settings`,
`extension_config`), the last session (`state`); and the usage log (`usage`).

### Inventory

| component | state | operations | hard behaviour | correct when |
|---|---|---|---|---|
| HTTP server leases (`server.py` 556-1075, 1305-1394) | `CONVS` (LRU), active flags, two levels of turn counters, the lease registry | acquire, evict, release, shutdown, the plain path, the streaming path with its generator, its cleanup and its finalizer | threadpool and event loop interleave; a stream can end in seven ways and release twice; shutdown does not wait | turns exclude each other; records agree; what is in use is not evicted; every lease comes back |
| Verification (`manage.py` 813-929, 1554-1764) | two caches, generation, last identity, flights, `_disabled` | `verify_provider`, `invalidate_provider_cache`, `disable` | single-flight, forced callers queue behind ordinary ones, the lock is released around probes and around looks at the binary | probes are serial; overtaken results stay out of the caches; a flight comes to one result; everyone is answered |
| Conversations (`conversation.py`) | history, native sessions, sticky lock | `send`, `stream`, `asend`, `astream` | a call can fail or be stopped between the session message and the record | who is asked has the last turns; nobody else's without consent |
| Session index (`session_manager.py`) | a JSON file, three layers of locks, a temporary file | list, get, upsert, rename, fork, archive, delete, clear | several processes; readers take no lock; crash during a write; pruning under different limits | an update loses no other record; a crash leaves the old or the new index |
| Manage chats (`manage.py` 1997-2337, `server.py` 1126-1157) | `_active_chats` and `_provider_active`, an event per chat | start, cancel, finish, stream, disable | the relay gives up waiting for a provider thread; three parties finish a chat; disable races start | slots come back; one chat per provider; a turn begins for the chat that holds the provider; nothing starts after disable |
| Provider process runtime (`base.py`) | child process and its group, reader thread and queue, watchdog, cancel event, attempt | chat, stream, astream; cancel, kill, retry | a process that hangs, closes its output early or leaves descendants; late output against exit; limits; a caller that leaves; what may be retried | a replay repeats no effect; an answer is whole; no process outlives its turn; every turn ends |
| Extension lab, lifecycle (`tools/unified_ext_lab/lifecycle.py`, `provider_lifecycle.py`, `docker_runtime.py`, the three command lines) | 24 phases and a ledger in a state file; what the daemon has; the derived snapshot; the published manifest | create, install, test, evidence, logout, destroy, verify, seal; interruption and recovery | the daemon fails a command it carries out all the same, or later; the process dies between an effect and its record | clean means gone; the ledger and the evidence are true; nothing is created twice; the lab is settled in the end |
| Extension lab, state file (`tools/unified_ext_lab/state.py` 1900-2900) | `state.json`, the retired file, the intent and its publishing file | create, load with recovery, replace | death between any two renames, unlinks and syncs; power failure; a writer that takes no lock | one durable value; nothing acknowledged is lost, nor anything foreign that no load took; a refused load has a cause one can name |
| Model lists (`models.py` 323-405, `manage.py` 1267-1465) | caches, generations, flights | refresh, invalidate | single-flight with generations and a limit of flights | as verification |
| Settings and launch records (`settings.py`, `extension_config.py`) | JSON files under a file lock | load, save, patch, record and forget launches | a caller saves a snapshot it read earlier | a reserved launch record is not lost |
| Usage (`usage.py`) | a bounded log under a lock | record, aggregates | recorded from every path of `base.py` | one entry per turn |
| Extension transports (`packages/unified-cli-ext/.../transports`) | pending requests, process trees | begin, finish, terminate | an answer after its timeout; children that outlive their parent | an answer meets its request; the tree is gone |
| Adapters, errors, texts, registry, CLI parsing, dashboard | none across calls, or a process's own configuration | pure functions, presentation | - | - |

## 2. Modules

| module | models | state and actions against the code |
|---|---|---|
| `ExclusiveTurns` | the promise of the lease endpoint about provider turns, with no word on how | `turn[r]`: the conversation and account of a running turn; `Begin`, `End`, `EndOfService` |
| `ServerLeases` | the lease machinery of `server.py` | one action per critical section of `_CONVS_LOCK` (`Acquire`, `Refuse`, `Release` in its three places, `Shutdown`) and per step of a request between two of them; a slot object is named by the request that created it, so an evicted slot and a later one for the same id stay distinct |
| `ManageVerify` | `ManageRuntime.verify_provider` | one action per critical section of `ManageRuntime._lock` and per look at the executable outside it; `pc` says which; a flight is named by the call that owns it |
| `Conversation` | `UnifiedConversation` and what the providers' sessions remember | `Begin` is a call up to the provider, `SessionMessage`, `Reply`, `StreamEnds`, `ConsumerStops`, `CallFails` what can follow; `knows` is the provider's memory |
| `AtomicIndex` | the promise of the session index: one bounded map, changed one update at a time, and a second copy that a power failure leaves | `Store`, `Remove`, `Persist`, `PowerFails`, and `StartOver` for the update that could not read the index |
| `SessionIndex` | `SessionManager`: lock, read, prune, write, rename, sync | one action per system call of an update; `Killed` and `PowerFails` at any point; the disk keeps what was synced and may keep more |
| `ManageChat` | chats of `ManageRuntime`, the `stream_chat` generator, the relay of `server.py` | one action per critical section of `ManageRuntime._lock` and per step of the generator or the relay; a thread that executes the generator is in `running`; a relay dropped at its `yield` waits in `garbage` for its finalizer (`Finalize`) |
| `ProviderTurn` | one turn of `BaseProvider.chat`, `stream` or `astream`, over its attempts | the process (`Write`, `ReadPrompt`, `CloseOutput`, `Exit`, `DescendantExits`), the reader (`Notice`, `ReadLine`, `Overflow`, `CutOff`, `ReadEnd`), the watchdog or deadline (`WatchCancel`, `WatchExit`, `WatchDue`, `WatchFires`), and the caller from `Spawn` and `Feed` over `TakeLine`, `Leave` and the like to `Join`, `Reap`, `Clean`, `Judge` and `Retry`; `pc` is the caller's place |
| `SharedVerification` | the promise of `verify_provider`: one verification at a time, a forced one really probed, one result for all who share it, nothing begun or remembered once the runtime is closed | `Ask`, `Begin`, `Share`, `Probe`, `Succeed`, `Fail`, `End`, `Take`, `Recall`, `Refuse`, `Forget`, `Close` |
| `OneAnswer` | the promise of a turn: tried a bounded number of times, again only while nothing came of it, ended once with all of one attempt's output or an error | `Try`, `Work`, `Dies`, `Take`, `Miss`, `GiveUpAttempt`, `Answer`, `Fail` |
| `CleanRun` | the promise of the lab's lifecycle: each thing asked for once, clean means gone for good, a verdict true to what went wrong, published and then closed | `Ask`, `Derive`, `Work`, `CallClean`, `Decide`, `Publish`, `Close` |
| `LabLifecycle` | the lab's lifecycle, for the fixture, the conformance run and the provider lab | one action per save of `LabState` and per effect between two saves; `st` is the state file, `daemon` and `snapshot` the world, `loc` what the process would lose with it |
| `DurableCell` | the promise of the state file: one value, replaced in one step, durable once acknowledged | `Store`, `Persist`, `Acknowledge`, `PowerFails`, and `Intrude` for a writer that takes no lock and leaves what is no value; what it leaves that is one is a `Store` like any other |
| `LabStateFile` | `create_initial`, `load` with its recovery, `_write` | one action per rename, unlink and fsync; the directory as the process sees it, and the set of directories a power failure may leave |
| `*Proofs` | theorems about the module they are named for | section 4 |
| `MC*` | instances | model values, symmetry |

Some definitions of a module are commented "Mutant": a form of the definition
below it with a plausible bug in it, which the model does not use. Putting it in
the place of the definition breaks the property named in `PROJECT.json`.

The modules meet where the code's parts call each other, and each takes the
other's outcomes as its own environment: a call of `Conversation` or a running
turn of `ServerLeases` and `ManageChat` is a turn of `ProviderTurn`, which ends
(`EveryTurnEnds`) with an answer, an error or a caller that left; a save of
`LabLifecycle` is one replacement of `LabStateFile`, which is one step
(`ImplementsDurableCell`).

### What is abstracted

* `ServerLeases`: request decoding, authentication, SSE text. A message of a
  stream is not a step: whether the provider turn still runs when the generator
  reaches its `finally` is what matters. A next() in flight is waited for before
  the generator is closed (`server.py` 943-988), so `LeaveLoop` finds it
  suspended. The 503 of `_evict_idle_until_room_locked` is part of `Refuse`.
* `ManageVerify`: one provider, as all the state is per provider; the
  fingerprint of the environment is constant; the bound of 64 cache entries is
  not reached. Extension providers are verified without any of this state.
  `since`, `own`, `gen` of a probe and `committed` of a flight are history.
* `Conversation`: texts are the numbers of the calls that produced them. The
  class has no lock and one call runs at a time: the server's leases see to it,
  the terminal has one user. The empty turn by which the REPL and the browser
  chat seed a resumed conversation is turn 0, and session 0 what it resumes.
  Clients hold configuration only. `how` is history.
* `SessionIndex`: of a record, its age and its `archived` flag, which is what
  `_prune` and the updates look at. Field validation is a function of one call.
  A writer's threads and processes differ only in which layer of the lock stops
  them, so there is one lock. `list` and `get` change nothing.
* `ManageChat`: one request for a chat each, refused or accepted; the lines of
  the stream are counted, not told apart. A provider turn begins with the last
  look at `cancel_event` before its process is started. `close()` runs on the
  event loop's thread, which the model does not treat as a resource: it allows
  steps of other relays meanwhile. `Collect` is the interpreter closing a
  generator nothing refers to. A client can leave while the relay awaits
  next() (`LeaveLoop`), before the body is iterated (`LeaveUnentered`), or while
  a line is being sent (`LeaveSuspended`): then the server cancels the response
  and goes on to its background task, the relay stays suspended at its `yield`
  (`server.py` 1143), and its `finally` runs when the interpreter finalizes it.
  `givenUp` and `dropped` are history.
* `ProviderTurn`: stdout only; a line is output or not, has an effect or not.
  Parsing, classification and arguments are functions of one call, taken as an
  outcome. The reader is assumed to drain a pipe that nobody holds open within
  the grace after the exit. POSIX: there is a process group to kill.
* `LabLifecycle`: a command to the daemon succeeds, or fails with any effect it
  may have had. The fixture's three volumes are one. A readiness wait, a guest
  command and a validator are one outcome each. A save is one step, which is
  what `LabStateFile` shows. `asked` and `spoiled` are history.
* `LabStateFile`: content is the number of the write. What a writer that takes
  no lock puts in the place of `state.json` is either no state of this lab and
  profile (`Stranger`), which no load takes, or a valid one with a number of its
  own, which a load takes for the lab's (`state.py` 2925-2956) and the next write
  replaces, as `test_state.py` 1090-1111 expects. Of the three locks, the
  one that one holder has. The temporary file is complete and synced before
  anything names it. After a power failure the directory is any state it has had
  since its last fsync.

## 3. Runs

| run | question | result |
|---|---|---|
| `server_leases` | two requests, two conversations, three names of two accounts, MaxConvs 1, limits 2 and 1: agreement of the records, the LRU, refinement of `ExclusiveTurns` (turns exclude each other), return of every lease | holds under `FairSpec` |
| `manage_verify` | two calls, a clock, one invalidation, replacement or removal of the binary, `disable()` at any point: refinement of `SharedVerification` (probes are serial), honest caches, flights that settle once, forced answers, an answer for everyone | holds under `FairSpec` |
| `manage_verify_current` | are cached answers younger than their time to live and than the last invalidation | violated |
| `conversation` | five calls, three providers, history of three, window of two: context and consent | holds |
| `conversation_interrupt` | does a turn stopped by its consumer keep its context | violated |
| `session_index` | two updaters, three keys in two namespaces, room for two records, failing calls, kills, power failures: nothing confirmed is lost, refinement of `AtomicIndex` | holds |
| `session_index_read` | does an update keep the other records when the index cannot be read | violated |
| `manage_chat` | two chats, two providers: registries agree, slots and turns end, nothing starts once `disable()` has told everyone, a turn begins only for the chat that holds its provider | holds, the liveness part under `FairSpec` |
| `provider_turn` | one turn by each method, two attempts, two lines, a queue of one: safe replays, whole answers, no orphans, refinement of `OneAnswer`, an end | holds under `FairSpec` |
| `lab_lifecycle` | three kinds of lab, two failing operations, two deaths: clean means gone, the ledger and the evidence are true, probes are offline, refinement of `CleanRun` (nothing is asked for twice), the lab is settled | holds under `FairSpec` |
| `lab_snapshot` | does recovery remove the snapshot of a run that was killed | violated |
| `lab_state_file` | four state files, failing calls, kills, power failures and a stranger's write, valid or not, at every step: nothing acknowledged is lost, nor anything foreign that no load took, refusals are explained, refinement of `DurableCell` | holds |

### Bounds and why they are enough

* `server_leases`. Two requests are one that holds a lease and one that takes
  what was given back too early; with MaxConvs 1 the second conversation needs
  an eviction, and MaxPerProvider 1 is reached under two names of one account.
  MaxActiveTurns 2 is not passed by two requests: the refusal at that limit is
  left to the proofs of section 4, which have no bounds.
* `manage_verify`. An owner and a call that joins it or, if forced, queues
  behind it; one event is enough to overtake a flight, one tick to let a cached
  result expire. The exception in `FlightsSettleOnce` (a queued forced caller
  finds the runtime disabled) takes a third call; it is covered by the proof.
  With three calls and no clock the inductive invariant was checked once as well.
* `conversation`. Five calls are more than the window and the history together
  allow to be remembered, so the window slides and the history is trimmed; a
  third provider lets one miss two others' turns.
* `session_index`. Two updaters suffice for a read of one between the read and
  the write of the other; three keys with room for two make every insertion
  choose a victim, within one namespace and across two.
* `manage_chat`. Two chats meet on one provider, where the second can start
  between the three ends of the first, or on two. One message lets a client
  leave with the turn running and no next() in flight, and a third party, the
  background task, end the chat before the finalizer does.
* `provider_turn`. Two lines over a queue of one block the reader; two attempts
  are a replay. The same holds with three attempts.
* `lab_lifecycle`. Two failures and two deaths let a recovery be interrupted in
  its turn. The safety properties were checked
  with four of each as well (850,000 states).
* `lab_state_file`. Four files are an initial one, two replacements, of which
  one is recovered, and a stranger's that is a valid state.

### Fairness

`ServerLeases` assumes that a request that was accepted keeps running
(`WF(RequestStep(r))`): threads are scheduled, a provider turn is bounded by a
timeout, a response is either entered by the ASGI server or collected. Requests
are not assumed to come, and the server need not shut down. `ManageVerify`
assumes the same of a call that was made: probes end after
`VERIFY_TIMEOUT_SECONDS`. A caller that gets the lock is not favoured; weak
fairness per caller is enough because forced callers bring the generation
forward a bounded number of times. `ManageChat` assumes that a thread that
executes a generator goes on (a provider turn has a timeout), that a relay does
(also the finalizer of one that was dropped, once the interpreter has collected
it), that the ASGI server runs the background task of every response, and that
`disable()` gets to the end of its loop. No client is assumed to stay, to leave or to cancel.
`ProviderTurn` assumes that the runtime's own threads run, that the watchdog's
time passes; killing is a step of theirs, and nothing is assumed of a process
that was not killed, nor of its descendants. `EveryTurnEnds` therefore leaves out one
kind of turn: a `stream` that writes its prompt to a process that never reads
it. `LabLifecycle` assumes that the process that holds the lock goes on and
that a recovery command is run again until the lab is settled: it is what the
messages of the command lines tell the user to do.

### What the violated runs show

1. `manage_verify_current` (`manage.py` 1727-1744). The commit of a flight puts
   both records into the caches with a full time to live, also the one it had
   read from the cache, so it is served beyond its own. The README's "successful
   version/auth and non-empty model results use separate
   five-minute/15-second/one-minute TTLs" (line 610) does not hold. The same
   commit brings back a record dropped by an invalidation that falls between the
   lookup (1586-1599) and the reading of the generation (1617).
2. `conversation_interrupt` (`conversation.py` 305-309). The partial turn of an
   interrupted stream makes its provider the last one. If the provider had not
   reported its session yet (the Gemini adapter reports it last), the next call
   to it gets no prefix and no session, or the session of before the switch.
3. `session_index_read` (`session_manager.py` 275-303). `_read` answers every
   read error, an oversized file and another version number with an empty index.
   An update adds its record to that and replaces the file: all others are gone.
4. `lab_snapshot` (`lifecycle.py` 1145-1149). A conformance run killed between
   the making of its snapshot and the binding leaves a directory that every
   recovery refuses to remove; the lab stays dirty.
   `docs/development/unified-ext-lab.md` 123-126 says that recovery can find and
   remove it.

### What the models allow besides

No run is about these; the properties above are stated around them.

* A forced verification queued behind a flight that finds the runtime disabled
  writes `manage_disabled` on that flight although it had committed
  (`manage.py` 1670); a joined caller that wakes up later raises instead of
  returning the result. This is the exception in `FlightsSettleOnce`.
* Two chats can run on one provider at the same time. `ManageChat` defines
  `TurnsExclusive`, that they do not, and TLC finds two ways in which it fails.
  (a) The client leaves while a next() is in flight that has just started the
  provider (`LeaveLoop`); the relay waits five seconds, or until a second
  cancellation, then `close()` raises because the generator is executing, and
  the slot is given back while the turn runs (`GiveUp`, `RelayFinishes`;
  `server.py` 1145-1157, where the docstring, 1129-1131, says that the relay
  waits for the call to unwind "and closes the upstream cleanly"). (b) The
  client leaves while a line is sent to it: the relay is suspended at its
  `yield` (1143), the response is cancelled and its background task (1254) gives
  the slot back (`LeaveSuspended`, `Background`), and only the finalizer,
  whenever the relay is collected, sets the event and closes the turn
  (`Finalize`, `Close`). After either a second chat is accepted on the provider
  and opens its turn. The comment at `server.py` 1015-1017 gives (b) as the
  reason why the other endpoint has no background task. (b) is what the server
  does under ASGI 2.3, where a client that left is a task group cancelled. What holds in both
  cases is that the stray turn ends (`SlotsReturn`), that the registries stay in
  agreement, and that no turn *begins* for a chat that has lost its provider
  (`BegunByHolder`).
* Output that is thrown away because a limit was reached after the exit counts
  as a whole answer when the exit status is 0 (`base.py` 881-889);
  `AnswersAreWhole` leaves out the lines known to be cut off.
* `stream` writes its prompt before anything watches the process
  (`base.py` 1892), so a process that never reads a long prompt blocks the turn
  for good. `astream`, abandoned, removes its temporary files before the inner
  generator kills the process, and records a turn cancelled late twice, where
  `stream` does not record it at all.
* A provider lab destroyed or verified from `RECOVERY_REQUIRED` without a logout
  never has the three cleanup outcomes that sealing asks for. A provider
  snapshot whose removal was interrupted after its identity file is unlinked is
  refused on every retry. `Settles` is about the other two profiles.
* A stranger's file that is a valid state of this lab and profile is taken for
  the lab's by the next load, and replaced, that is, removed, by the write after
  it. `NothingForeignIsLost` therefore holds of a stranger's file until a load
  has taken it, and for good of one that no load takes. A power failure may undo
  what a stranger did not sync.
* A torn intent (`state.py` 2006-2024), a half rolled-back replacement and a
  stranger's file that is no valid state, or that comes in the middle of a
  replacement, make every later load refuse: the three causes in
  `RefusalsExplained`. While a death has left `state.json` moved aside, the
  recovery commands report that the lab state does not exist; loading by the
  creating command puts it back.

## 4. Proofs

`ServerLeasesProofs` proves, for all finite sets of requests and conversations,
all provider names and all positive limits (`LeaseAssumption`):

| theorem | establishes |
|---|---|
| `TypeCorrect` | `[]TypeOK` |
| `Invariance` | `[]IInv` |
| `ReservationsAgree` | counters, flags and registry agree, over double releases and a shutdown |
| `HeldSlotsSafe` | the LRU keeps its bound and what a lease holds |
| `Exclusion` | `TurnsExclusive`: turns exclude each other |
| `Refinement` | `Spec` implements `ExclusiveTurns` |

The properties are not inductive by themselves. `IInv` adds

* `LeaseLife`: a lease object exists exactly while its request is handled, it is
  in the registry exactly while unreleased, a request short of its own release
  is in the registry or was revoked by a shutdown, and a turn runs in three
  places only. Without it a release could find a lease that somebody else's
  counters stand for;
* `SlotsAreNamed`: the slot of a stored conversation was made by a request that
  has acquired; otherwise a new slot could be an old one;
* `WithinLimits`: the counters never exceed the limits. With
  `ReservationsMatchLeases` and the fact that an owned turn holds a registered
  lease it gives `TurnsExclusive`.

`InitIInv` and one lemma per action give `Init => IInv` and
`IInv /\ [Next]_vars => IInv'`. Actions that only move a request on share the
lemma `MovePreserves`, those that give a lease back share a lemma about
`Release`. The refinement maps a request to a turn while it is in `turns` and
no shutdown revoked its lease: `StartSend` and `StartStream` are `Begin`, the
ends are `End`, `Shutdown` is `EndOfService`, and all else stutters.

`ManageChatProofs` proves, for any finite set of chats, any providers and any
limits (`ManageChatAssumption`):

| theorem | establishes |
|---|---|
| `TypeCorrect` | `[]TypeOK` |
| `Invariance` | `[]IInv` |
| `Registries` | `_active_chats` and `_provider_active` agree, whoever finishes a chat and when |
| `DisableIsFinal` | `NoTurnOnceTold`: in a disabled runtime only a chat that is about to be told begins a turn |
| `HolderBegins` | `BegunByHolder`: a turn begins only for the chat registered on the provider, unless the runtime is disabled |

Its `IInv` adds `ChatLife`, which ties the relay's place to the generator's: a
chat that is neither over nor past its relay's end is registered or its relay
was dropped; past that end its generator is over, was never entered, was given
up on or was dropped; and nobody calls next() on the generator of a dropped
relay, which is executed only to be closed. That is what keeps three parties
that call `finish_chat` from freeing another chat's provider.
`DisableIsFinal` rests on a second invariant, `Warned`, inductive relative to
`IInv`: what was given up on is cancelled, and a chat that passed its last look
at `_disabled` before the runtime was disabled is cancelled or in the list that
`disable()` took under the lock. Had that list been taken after the registry was
cleared, the step `Disable` of `NextWarned` would fail, as does the mutant.

`HolderBegins` needs both: only an open generator begins a turn
(`OnlyOpenBegins`), and a chat whose generator is about to open its upstream and
is not cancelled is registered (`OpenRegistered`): its relay has not given up,
for then it would be cancelled, and has not been dropped, for then nobody would
be in its next(). A relay that waited for its thread before it set the event
could not say so (the mutant `Waits`).

`ConversationProofs` proves, for any providers, window and history and any
number of calls (`ConversationAssumption`: `None` is neither a provider nor a
number):

| theorem | establishes |
|---|---|
| `TypeCorrect` | `[]TypeOK`, with the history within `max_turns` |
| `Invariance` | `[]IInv` |
| `Consent` | `NoContextWithoutConsent`: without `cross_provider_context` a provider's prompts and sessions hold its own calls only |
| `Memories` | `[]TellsAll`: which turns the kept sessions have seen |
| `Completeness` | `ContextComplete`: with `cross_provider_context` a provider that is asked has the last turns before it, if their calls reported a session |

The argument needs to say whose a call is, even one that failed and left no turn
behind, for which the model keeps no variable. `IInv` says instead that such an
assignment of calls and sessions to providers exists (`Owners`, `OwnCall`):
a call adds itself and a session it may open to the assignment, and everything
else leaves it as it is. That trimming the history shows nobody anything new is
the lemma `RecentElements`.

`Completeness` needs an account of what each session was told, which the code
does not keep: whether a prefix is due is read off the last turn's provider.
`TellsAll`, inductive relative to `IInv`, is that account. A turn of the window
is `Unbroken` if its call and all later ones reported a session. `Told`: the
session kept for the *last* turn's provider has seen every unbroken turn.
`CallTold`: so has the session a call runs in, once it is one the call may go on
with. Nothing is claimed of the sessions of other providers, which is why the
prefix is needed, and why `conversation_interrupt` is violated: a partial turn
without a session becomes the last one.

`ManageVerifyProofs` proves, for any callers, binaries, times to live and
numbers of events (`VerifyAssumption`, `NoFlightAssumption`):

| theorem | establishes |
|---|---|
| `TypeCorrect`, `Invariance` | `[]TypeOK`, `[]IInv` |
| `Serial` | `VerificationSerial`: one call at most runs probes |
| `Overtaken` | `OvertakenProbesNotCached` |
| `DisabledIsEmpty` | `DisabledRetainsNothing` |
| `SettleOnce` | `FlightsSettleOnce`: what a committed flight says stays said, but for the caller that found the runtime disabled |
| `Forced` | `ForcedAnswersAreForced` |
| `Refinement` | `Spec` implements `SharedVerification` |

Its `IInv` adds `OneOwner` (an owner's flight is the registered one, unless the
runtime was disabled, and there is one owner), `Waiters` (a flight somebody
waits for is kept, and is of the kind asked for), `Settled` (a flight that is
done has a result or an error, and both only in a disabled runtime), `Fresh` (an
owner's probes are of its own generation or a later one) and `Caches`.
`SettleOnce` and `Forced` are about steps: which steps write a flight at all is
the lemma `OwnSteps`, and for each of them `IInv` says that the flight was not
committed.

The refinement maps whoever stands where a flight is owned to the one under
whose name a verification is under way (`OwnerIs`: `IInv` leaves one), a call
that waits for a flight's outcome to one that shares it, and a flight to what it
came to, good as soon as it is committed. A call that waits for a flight only to
start over shares nothing. Generations, identities and expiry are gone: all that
is left of the caches is whether they hold a version, which any step may make
them forget. `Honest`, inductive relative to `IInv`, adds that an owner about to leave
has as its outcome what its flight came to. `Bystander` is the heart of it: a
caller without a flight never changes what others may still read in one, though
it may drop the flight it has read and, in a disabled runtime, mark it.
`Apart` and `Owning` say for the steps of non-owners and owners what is seen of
them; the rest is one lemma for each abstract step. In `SharedVerification` a
closed runtime may refuse a caller that shares a good result: that is the queued
forced call of `FlightsSettleOnce`.

`SessionIndexProofs` proves, for any updaters, keys, namespaces, times and
limit (`SessionIndexAssumption`):

| theorem | establishes |
|---|---|
| `TypeCorrect`, `Invariance` | `[]TypeOK`, with the index within its bound; `[]IInv` |
| `Durability` | `ConfirmedUpdatesSurvive` |
| `Refinement` | `Spec` implements `AtomicIndex` |

`IInv` adds `UpdatesAreFresh` (whoever holds the lock and is past its read is
about to write its update of the index as it now is) and `FilesInOrder`. That
`_prune` keeps `max_records` records and none that is worth less than one it
drops is `PrunedKeepsTheBest`, which rests on a count: `n` elements with distinct ranks below `n` take each
rank, so exactly `m` of them rank below `m` (`BelowRank`).

`LabStateFileProofs` proves, for any number of files (`NoneAssumption`,
`MaxFilesAssumption`):

| theorem | establishes |
|---|---|
| `TypeCorrect`, `Invariance` | `[]TypeOK`, `[]IInv` |
| `StrangersAreKept` | `NothingForeignIsLost`: a stranger's file is not written over or removed before a load took it |
| `Refinement` | `Spec` implements `DurableCell` |
| `Tidiness` | `[]Calm`: what a directory without a stranger's file looks like |
| `Refusals` | `RefusalsExplained` |

`IInv` says what every directory that a power failure may leave looks like
(`Sound`: a backup is being removed only while `state.json` is there, no
intent names as a predecessor a file of a stranger that no load has taken, and
no file has a number still to be given), what the process knows
(`Known`), where the files are when it gets to each step (`InOrder`), that a
removal of the backup is finished before a predecessor is moved (`OneRemoval`)
and that a write is acknowledged when nothing else is left to survive
(`Settled`). The refinement maps a directory to the value a load would find in
it, `Foreign` if that is no state of the lab; the renames of a replacement but
for its `Publish`, and those of a recovery, leave that value as it is. A
stranger's valid file is one more value stored (`Store`); that it is not stored
over a value that is `Foreign`, as a stranger comes once, is `Calm`, below.

`Refusals` rests on `Calm`, inductive relative to `IInv`, for the behaviours in
which nobody intruded. `Tidy` is about every directory a power failure may
leave: without an intent there is no backup, and with one the files are those of
one of the moments of its replacement or of its roll-back. `Placed` says which
of these moments it is when the process gets to each step. The causes of a
refusal are then those of the moments at which recovery finds a file it cannot
match: `TornIntent` and `HalfRolledBack`.

`ProviderTurnProofs` proves, for any number of attempts and lines and any queue
(`ProviderTurnAssumption`):

| theorem | establishes |
|---|---|
| `TypeCorrect`, `Invariance` | `[]TypeOK`, `[]IInv` |
| `SafeReplay` | `ReplaysAreSafe` |
| `WholeAnswer` | `AnswersAreWhole` |
| `NoOrphans` | `NothingOutlives` |
| `Refinement` | `Spec` implements `OneAnswer` |

`IInv` adds `ProcessLife` and `CallerPlaces` (which processes there can be at
each place of the caller), `QueueOrder` and `NoneTwice` (the end of the stream is
the last entry of the queue, and comes once), `Accounted` (every line written is
in the pipe, in the queue, with the caller, or in an attempt known to have lost
output) and `EffectsShow` (an effect shows in a line that is one of these, or has
made the attempt unsafe). A replay is safe because the queue of an attempt that
is judged is empty.

The refinement maps the caller's place to a phase (`Phase`: a turn has failed
when its exception can only go up) and `Swept` to the end of everything the
attempt started. Two more facts are needed and make up `Quiet`, inductive
relative to `IInv`: the reader has stopped wherever a turn may be answered or
tried again, so that nothing is lost after the verdict; and `chat` hands nothing
over before its process is gone. There is one lemma per kind of step
(`ProcessRefines`, `ReaderRefines`, `SpawnRefines`, `TakingRefines`,
`LeavingRefines`, `VerdictRefines`); what the caller cannot see is shown to
stutter by `UnseenRefines`.

`LabLifecycleProofs` proves, for any numbers of failures and deaths
(`LabAssumption`):

| Theorem | Property |
|---|---|
| `TypeCorrect`, `Invariance` | `TypeOK`, and the inductive invariant |
| `Clean` | `CleanMeansGone` |
| `Removed` | `RemovedAreGone` |
| `Evidence` | `EvidenceHonest` |
| `Once` | `CreatedOnce` |
| `Offline` | `ProbesOffline` |
| `Refinement` | `Spec` implements `CleanRun` |

`IInv` adds `Located` (the process is where the state file says it is), `Asked`
(a role never asked for is nowhere), `Ledger` (what the ledger and the ids say
of a role is true of the daemon), `Held` (a creation that the daemon may still
carry out puts a hold on the lab before the lab is cleaned up), `Derived` (the
snapshot, its tomb and what the state says of it), `Window` (the install network
is left before the lab counts as installed), `Reported` (what went wrong is in
the observations, or will be before the operation it went wrong in is over) and
`Sealed` (the result is decided before it is published). `Held` is what makes
"clean" mean "gone": a hold forbids a clean verdict, so no late creation can
follow one. `Reported` is what makes a passed manifest honest.

The refinement maps the daemon's and the snapshot's contents to one set of
existing things, the 24 phases to "clean" and "closed", and the decided result
to the verdict. `Existing` counts what the daemon may still create, so that
`CallClean` is allowed only if no creation is still to be carried out.
`Reached`, inductive on its own, adds that a directory is there when it is about
to be removed and that the manifest is published when the seal is committed.
Steps between two phases that are not clean are all `Work`
(`WorkRefines`), because nothing they touch grows (`Shrinks`); `AsksRefine`,
`CapturesRefine`, `VerifiesRefine` and `SealsRefine` are about the others, and
`OutsideRefines` about what may happen in every phase.

Three invariants are proved and checked by no run of their own: the
`TurnsExclusive` of `ServerLeases`,
`VerificationSerial` and `CreatedOnce` go with the refinements of
`ExclusiveTurns`, `SharedVerification` and `CleanRun`, which runs check.

Only model-checked: liveness (`LeasesReturn`, `EveryCallAnswered`,
`SlotsReturn`, `EveryTurnEnds`, `Settles`), which is out of the prover's reach.

## 5. Plan

1. `ServerLeases`, `ManageVerify`, `Conversation`, `SessionIndex`,
   `ManageChat`, `ProviderTurn`, `LabStateFile`, `LabLifecycle` are modelled,
   checked and, but for liveness, proved. `Conversation` has no
   abstract specification yet.
2. `SharedVerification` says of what is remembered only that a good result put
   it there. A cache that serves what was probed after the last invalidation
   would be implemented by `ManageVerify` but for the first violated run.
   `ModelCache` (`models.py`, `manage.py` 1267-1465) follows its shape and adds
   the limit of flights.
3. `SettingsStore`: snapshots that overwrite each other; the launch records of
   extension providers.
4. `JsonRpc` and `ProcessTree` of the extension transports, whose owner is the
   place `ProviderTurn` gives to the process.
5. What the usage log records of a turn, on top of `ProviderTurn`.

## 6. Not modelled

Provider adapters, normalization, error classification and texts are functions
of one message and keep no state. The command line, the REPL's rendering, the
dashboard and the release scripts are presentation and tooling. The container
grammar and the base images of the lab are checks of one call each, which
`LabLifecycle` takes as an outcome. The remaining components of the inventory
are in the plan. They make up most of the repository's lines: what is modelled is
where several actors, or a crash, meet one state.

Four hazards of `PROJECT.json` have no property. `close()` on the event loop's
thread (`server.py` 1154) needs that thread as a resource. Against the others
the code has no guard: two turns on one provider when a chat frees its slot
early (`server.py` 1254), a state file that no load accepts any more (`state.py`
2006), and a prompt nobody reads (`base.py` 1892); the models reach each, as
section 3 says. Of three more a property covers one half: the caller of an index
update that fails after its rename gets an error for an update that was made
(`session_manager.py` 373), a limit reached after the exit cuts an answer short
in silence (`base.py` 881), and an abandoned `astream` removes its temporary
files before the kill (`base.py` 1732).
