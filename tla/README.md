# AWG Tunnel in TLA+

AWG Tunnel is a GTK client that runs a userspace WireGuard/AmneziaWG engine as a
child process and offers the tunnel as a local SOCKS5 proxy. This directory holds
its specification: modules translated from `src/src/awgtunnel/*.py`, TLC
configurations that check them on small instances, and proofs, checked by TLAPS,
that hold for every instance.

## The system

| Component | Code | State it keeps | Operations |
|---|---|---|---|
| Engine supervisor | `engine.py` | `_runtime` (child, config file, ports, log, dates), `_status` | `validate`, `start`, `stop`, `poll`, the log reader thread |
| Window and application | `window.py`, `application.py` | the switch, `_poll_source`, the rows, `_profiles`, `_store` | switch, selection, import, removal, the one second tick, activate, shutdown |
| Profile store | `storage.py` | `_entries`, `profiles.json`, the system keyring | `load`, `add`, `remove`, `rename`, `resolve`, `_flush` |
| Profile parser | `profile.py` | none | `parse`, `validate`, `redact` |
| SOCKS5 test client | `socks.py` | a socket | `open_connection`, `https_get`, `http_get` |
| Connectivity test | `window.py:501-527` | the Test button, a worker thread | click, result |
| Engine binary | external (Go) | the tunnel | serves metrics, shakes hands, prints, exits |

How they interact. Everything in the UI process runs on the GTK main thread,
except the log reader and the connectivity test. Handlers call the supervisor,
and a supervisor call blocks the main loop: up to 20 s for the config test, 2 s per
socket operation for a metrics request, 5 s for each of the two signals of a stop.
The child, its peer, the clock and the log reader go on meanwhile. A GLib timeout calls
`_on_poll` every second while the tunnel is up; everything the UI learns about
the child it learns there. Setting the profile row's model or selection re-enters
`_on_profile_changed` in the middle of another handler. A profile lives in four
places (file, keyring, `ProfileStore`, list) that are written one after another.

What is hard: the child dies or answers at any point of a call; a call that
raises abandons its handler, or removes the timeout; two records of one fact
(switch and runtime, `_poll_source` and the GLib source, list and store);
deadlines that race with late answers; failures and crashes between the steps of
an import, a removal or a stop. `PROJECT.json` lists these as hazards, each at
its line.

What makes each part correct:

- supervisor: at most one engine; a status that is true between calls and never
  claims a connection that was not earned; the deadline; no call that hangs;
- window: switch, timeout, selection and configuration file agree with the
  supervisor whenever the main loop runs; a dead or stalled tunnel is noticed;
- store: what the user was told is what is on disk and in the keyring, whatever
  step fails; keys are where the user was told they are;
- parser: accepts exactly the profiles the engine's constraints allow;
- test client: reads an answer that arrives in any pieces, and reports the
  result of the tunnel it was started for.

## The modules

| Module | What it is |
|---|---|
| `Engine` | the supervisor and its environment |
| `EngineProofs` | theorems about `Engine` |
| `Tunnel` | what the supervisor promises, without calls, files and clocks; `Engine` implements it |
| `TunnelProofs` | the proof that it does |
| `Threads` | log readers and test workers beside the main thread, on top of `Tunnel` |
| `ThreadsProofs` | theorems about `Threads` |
| `Socks` | one request of the SOCKS5 test client, over a stream of bytes |
| `MCSocks` | the answers it is checked with |
| `SocksProofs` | theorems about `Socks` |
| `Window` | the window and the application, on top of `Engine` |
| `MCWindow` | the symmetry used when `Window`'s safety is checked |
| `WindowProofs` | theorems about `Window`, on those of `EngineProofs` |
| `Profiles` | the profile store, the keyring, and the list and banner of the window |
| `Vault` | what the store promises, in one variable; `Profiles` implements it |
| `ProfilesProofs` | theorems about `Profiles`, and the proof that it implements `Vault` |
| `ProfileText` | parsing, validation, and the split of the key out of a text |
| `MCProfileText` | the texts and lines it is checked with |
| `ProfileLemmas` | what the operators of `ProfileText` compute, for every text |
| `ProfileTextProofs` | theorems about `ProfileText`, on those lemmas |

### Engine

A *run* is a configuration file and the child started with it. `runtime` is
`Engine._runtime` (or `NoRun`, Python's `None`), `files` the runtime directory,
`proc` what the operating system says of each child (`dying` after a SIGKILL
that has not taken effect). Names of runs are used again once file and child are gone, so connecting
and disconnecting is unbounded with two or three names.

`pc` says where the main thread is inside a call, and `cur` on which run:

| `pc` | code |
|---|---|
| `testing` | `subprocess.run` in `validate` (198-208) |
| `spawning` | between `_write_config` and `Popen` in `start` (223-236) |
| `metrics` | `_read_metrics` in `poll` (297), with `elapsed` read before it |
| `term`, `kill` | the two waits of `_terminate` (450-459), `then` being the state reported afterwards |

Each call is the action that begins it (`Validate`, `Start`, `Stop`, `PollNone`,
`PollExited`, `PollBegin`) and the actions that continue it (`ValidateReturn`,
`Spawn`, `Reaped`, `Escalate`, `GiveUp`, `PollReply`). `poll` stops the engine by the same
`BeginStop` as `stop`. `result` is how the last call ended. `Escapes` is the set
of exception classes that the code does not convert, found by reading which
`except` clauses each call passes through: `OSError` out of `validate` (the binary
cannot be executed) and `_write_config`, `HTTPException` out of `_read_metrics`.

What belongs to the owned run only (`link`, `rxNew`, `log` and the clocks
`uptime`, `shakeAge`, `rxAge`) is one variable each, reset when a run starts or
is dropped. Clocks advance by `Tick`, at any time, and stop at the largest value
the code tells apart; `ClockStep` sets the wall clock, on which only `handshake_age`
depends. Abstracted: texts, the endpoint and byte counts (only
whether bytes arrived since the last poll), ports, and the contents of log lines (which are in `Threads`).

### Tunnel

The supervisor as the rest of the program sees it: which run is the tunnel, whether its
engine lives and its peer has answered, and a *face*: off, opening, open, closing or
failed. `Engine` maps its states to faces (`Face`): *starting* and *handshaking* are
opening, *connected* and *degraded* are open. The mapping hides calls, files and the
two signals; what is left says that a live tunnel is closed before it is off, that no
other is opened while it closes, that open is earned, and that closing ends.

### Threads

`Tunnel` plus what runs beside the main thread. For each run the child's `pipe`, the
reader's loop (`reading`) and the deque `lines` of its `_Runtime`; `got` is a history:
how many lines were read, the n-th line of an engine being n. A reader outlives the tunnel when the child does (`Exit` comes at any
time after a stop gave up), beside the reader of the next run. Each worker is a
click on Test (`Click`, `Report`, `TestDone`), whose result waits in the queue of idle
callbacks, which no one serves while the main thread is in `stop`.
`UpdateButton` is the line of `_update_status` that sets the button's sensitivity.
The one name of a child that lives on is not given to a new run.

### Socks

`answer` is all the proxy will send, `taken` how much of it was received; `recv` takes
any number of bytes up to what is asked for. `pc` names the read in progress, from
`mark`. After the answer the peer closes, breaks the connection, or falls silent until
the timeout of the socket; a failing send is the second. TLS succeeds or raises and is otherwise
transparent. `sock` says who has the descriptor: the socket itself (`open`) or the TLS socket
that took it (`wrapped`). A way out is not the end of a call but the clause it comes to, a step
of its own: `except` of `open_connection` (108), `with` (152) and `finally` (155, 173) of the
two requests. The last closes nothing once TLS has the descriptor, and only the first sees
a handshake that fails. TLS may fail before it took the descriptor or after, when
`wrap_socket` closes it. A blank line and a status line with 200 are single values, so that a
chunk may end anywhere between them. `Refusal`, `AddressEnd` and `Lengths` say what
the answer means when it is read as a whole; they do not look at the client's state.

### Window

`ui` names the handler in progress and what it waits for, `after` what an
interrupted handler does next, so nested handlers (`_on_remove_response` calling
`_disconnect`; `_import_text` re-entering `_on_profile_changed`) are explicit.
A handler's first step makes its engine call; the call's
steps are `EngineStep`; the handler resumes when `pc` is `idle` again. `source` is
`_poll_source`, `armed` the GLib timeout itself. An exception that no handler
catches leaves `ui` at `loop` and everything else where it was; for a timeout
callback PyGObject also drops the timeout (`Polled`).
A change of the selected row emits `notify::selected`; a new model that leaves the same row
selected may or may not (`SelectRow`, external GTK behaviour). `Killed` is the end
of the UI process by a signal; what it leaves behind goes to `orphans`, and
`Launch` starts anew beside it. The store is here the sequence `saved`, which
add and remove change or fail to change; its own failures are in `Profiles`.

### Profiles and Vault

`disk` is `profiles.json`, `keyring` the keys held by the Secret Service,
`entries` the memory of `ProfileStore`, `view` and `selected` the window's list.
`add` is `Add` (keyring), `AppendEntry`, then `_flush` as `OpenTemporary`, `FillTemporary` and
`Replace`, then `Reload`; `remove` is `RemoveEntry` (or `RemoveNothing`), `ClearKey` and the same last
four. A removal begins with a question: `asked` is the profile the dialog is about, also when an
import that was under way selects another row before the answer. `temporary` is
`profiles.json.tmp`: opened it is torn, written and closed it is what the object held, and
what a failed write or a killed process leaves stays until the next one truncates it. `Failures` says
what may go wrong: the keyring refuses to store or clear, a write fails, the file
cannot be read, the process ends between two steps. A write fails as a `StorageError`
(`FlushFails`), or as an `OSError` of `data_dir`, outside the `try`, which ends the handler
(`FlushEscapes`; `ReloadEscapes` for the read). `Window`, whose store is abstract, has only the first.
`told` records the last thing
the user was told of each profile. `Vault` says that the set of usable profiles
changes by one profile at a time; the refinement maps it to the profiles on disk whose
key can be had, so the abstract import happens at the rename, and the abstract deletion
when the key goes or, for a key on disk, at the rename.

### ProfileText

A text is a sequence of lines, a value the sequence of parts that `split("-")` gives,
so that `int()` and `parse_range()` are conditions on parts. `Sections` is the loop of
`parse` over the lines (`AddLine` its body), `ToText` the loop of `to_text`. `Checks` is
the sequence of `validate`'s tests in the code's order, each with the settings its
message names (`PeerChecks`, `PacketChecks` and the like are its loops), and `Complaint` the
first that fails. The table `sizes` of the code is a test of each pair (`SizeCheck`): the
loop ends at the first total that occurs again, so at most one earlier setting has it. `Contradictions` states the rules
as the head of `profile.py` does, without an order: overlap as a header that two
intervals contain, sizes as equality of any two. `KeyLine` is where the pattern of
`_split_private_key` matches, on a later line too when the value is empty; `Redact` and
`Inject` change that line. A user edits a text (`Insert`, `Delete`) and imports it (`Add`).

## The checks

Passing runs:

| Run | Instance | Shows |
|---|---|---|
| `engine_calls` | 2 runs; grace 1, deadline 2, staleness 1, window 1 ticks; every escape | `OneEngine`, `HonestStatus`, `StatusTracksRuntime`, the deadline in both branches (`OverdueNeedsHandshake`), `TrafficIsNotIdle`, `CallsReturn`, refinement of `Tunnel` |
| `window_switch` | 3 runs, 2 profiles, deadline 1; `HTTPException` escapes; symmetric | `SwitchMatches`, `ConfigLifetime`, `TunnelOfSelected`, `NothingOutlives` |
| `window_watch` | 1 run, 2 profiles; grace 0, deadline 1; `OSError` escapes | `Watched`, `StalledTunnelIsStopped`, `DeadEngineIsNoticed`, `HandlersReturn` |
| `profiles_crash` | 3 profiles; everything but failing writes | `ToldIsUsable`, refinement of `Vault` |
| `profiles_keys` | 3 profiles; everything but a keyring that does not clear | `DiskIsWhole`, `RemovedIsGone`, `DowngradeIsTold` |
| `profile_text` | 2 profiles, 2 edits out of 26 lines; headers up to 6 | `ComplaintIsExact`, `KeyComesBack`, `EngineGetsTheImport`, `KeyLeavesTheText` |
| `threads` | 2 runs, 2 workers; logs of 2 lines, a pipe of 1, 4 lines of output of which one is blank | `LogIsTail`, `TestingIsTrue`, `OutputFlows`, `ReadersEnd`, `TestsAreReported` |
| `socks_stream` | 33 whole answers cut off at every byte, 4 destinations; limit 5, chunks of 3 | `PiecesDoNotMatter`, `OSErrorIsEarned`, `SocketIsReleased`, `CallEnds` |

Runs that refute a statement of the repository, each a finding in `PROJECT.json`:

| Run | What happens |
|---|---|
| `engine_established` | one failed metrics request after the deadline stops a tunnel that was connected: uptime is compared, not the time without a handshake |
| `window_reply` | a malformed metrics response raises out of the tick; the timeout is gone, `_poll_source` says it exists, and the stalled tunnel is never stopped |
| `window_log` | the tick that shows a failure empties the log pane, because the log went with the runtime |
| `profiles_refused` | a refused import stays in memory and is written by the next import |

These say why passing runs leave out one escape or failure each: with it, the
property is one that the code does not have.

Disagreements that are visible in the code or in the models and have no run:

- an `OSError` out of `validate` (a binary that cannot be executed) or `start` is caught
  by no one and leaves the switch on without an engine (`window.py:362`), so
  `window_switch` leaves it out;
- a removal that cannot be saved is reported as not done after the key was deleted
  (`storage.py:210`), so `ToldIsUsable` claims nothing of such a profile;
- an `OSError` of `data_dir` (`storage.py:136`, `123`) is converted nowhere: the import or
  removal ends in the object and the keyring, and the user is told nothing;
- `storage.py:111` suppresses a keyring that refuses to delete, and a profile reported as removed
  keeps its key, so `profiles_keys` leaves that out;
- a failure found by the poll of `_connect` itself is overwritten by *Disconnected* one
  tick later, because the timeout is already armed (`window.py:367-368`);
- the banner about a key on disk is never set back (`window.py:331`);
- a killed UI leaves its engine running, with its configuration file, where
  `application.py:35` says it never does (the model holds these apart as `orphans`);
- the *last output* that a failure quotes (`engine.py:404`) may not be the last: `poll`
  can see the exit before the reader has emptied the pipe. `LogIsTail` is what is left: it
  is a line of this engine, and those after it are still in the pipe;
- the log pane is compared by length (`window.py:591`), so a text of the same length stays;
- every poll enables the Test button of an open tunnel (`window.py:571`), also while a
  test runs: two may overlap, the label goes back to *Test* with the first, and a
  result is told without saying that the tunnel it is about may be gone;
- a test whose response has no body, or headers longer than `max_bytes`, tells
  nothing (`window.py:525`); the version byte of the proxy's second answer is not looked at
  (`socks.py:94`).

### Bounds

Two runs are the least that let an old child or file meet a new one; three, in
the runs with kills, let an orphan stay beside both. The
limits are compared only with `<`, `>` and with each other, so one tick on either side
of each is what the code tells apart; `window_switch` and `window_watch` use smaller ones
than `engine_calls`, where all classifications are reached. `MaxLines` is 1: a
log that is empty or not. Two profiles are the least for a selection to change
under a running tunnel, which re-enters a handler in the middle of an import or a removal;
`window_switch` and `window_watch` have them. `window_watch` pays for it with a single name of a
run: with two it has ten times the states, and liveness takes as much longer. Reconnecting uses the name
again; a child that outlives its stop and meets the next one is in `engine_calls`,
`window_switch` and the proof of `Watched`. In the store three profiles let a failed operation on one be followed by one on
another while a third stands by. Profiles are bounded by the number of names, which are
drawn again when free. Two edits break any rule, as none is about more than two settings;
`MCProfileText` has lines on both sides of the limits. `KeyLeavesTheText` is about texts with one `PrivateKey` line:
a second one stays in the stored text. In `Threads` two runs let the reader of one meet the
tunnel of another, two workers are two tests that overlap; four lines fill a log of
two and push lines out, past a blank one, through a pipe that holds one. In `Socks` bound
addresses of every type and of no length occur, and bodies below, on and above the limit,
which the chunk does not divide.

### Fairness

- `WF(CallStep)` / `WF(EngineStep)`: each wait in a call has a timeout
  (`subprocess.run(timeout=20)`, `urlopen(timeout=2.0)`, `wait(timeout=5)`). The
  request's timeout is per socket operation; a server that sends one byte at a
  time is not modelled, being the engine itself on the loopback interface.
- `WF(HandlerStep)`: Python runs a handler to its end.
- `SF(OnPoll)`: the main loop dispatches a timeout that is due, also when the
  user keeps it busy; a handler in progress disables it, hence strong fairness.
- `WF(Closed)` in `Tunnel`: a stop ends, which `Engine` owes to `WF(CallStep)`.
- `WF(Drain)`, `WF(EndOfOutput)`, `WF(Report)`: threads run; a worker's socket operations have
  timeouts (15 s), and `CallEnds` says that its call ends.
- `SF(TestDone)`: an idle callback runs between handlers; a stop in progress disables it.
- `WF(Next)` in `Socks`: bytes arrive, the connection ends, or the timeout passes. A proxy that
  sends one byte at a time for ever is cut off by the limit of the body.
- `WF(Tick)`: time passes. Nothing is assumed of the engine, the peer, the user,
  nor of a SIGKILL taking effect.

### Deadlock

Every configuration but one checks it. There is none: the user, or in `Threads` the child
and the ticks, can always act. `Socks.cfg` does not: a call returns once, and then nothing is left to do.

## The proofs

`EngineProofs` proves, for every set of runs, all time limits (with a grace period no
longer than the deadline and a traffic window of at least a tick), every log length and
every set of escaping exceptions:

| Theorem | Property |
|---|---|
| `TypeCorrect` | `TypeOK` |
| `AtMostOneEngine` | `OneEngine` |
| `ConnectedIsEarned` | `HonestStatus` |
| `StatusIsTrue` | `StatusTracksRuntime` |
| `DeadlineHolds` | `OverdueNeedsHandshake` |
| `TrafficCounts` | `TrafficIsNotIdle` |

The first four follow from one inductive invariant, `IInv`. `OneEngine` is inductive
only beside it (`NextOneEngine`) and is no part of it: `IInv` also holds when a killed
process has left a child behind, which `Window` needs. `StatusTracksRuntime` says nothing
of the middle of a call. `CallInv` adds what each `pc` promises: that nothing is owned while
a new child is spawned, that a poll at its metrics owns a run, that a stop that waits
has let go of its run. `StatusOwned` extends the claim on the status to
every point except inside a stop, where it is exactly *stopping*. The proof has a lemma per
action; `BeginStopIInv`, `ReportIInv`, `ReturnIInv`, `SettleIInv` and `FacetIInv`
cover the endings that several actions share. The two action properties need no
invariant: `MetricsStep` says that only `PollReply` leaves `pc = "metrics"`.

`TunnelProofs` proves `ImplementsTunnel`: the supervisor implements the safety part of
`Tunnel`. The mapping needs more than `IInv`: an owned child is never one that was given up
(`Distinct`, because a stop lets go before it signals), a start never takes the name of the dead run it replaces, and
no status says *stopping* outside a stop (`Settled`). There is a lemma for each group
of steps, saying which step of `Tunnel` it is, or that it is unseen.

`ThreadsProofs` proves, for any number of runs, workers and lines, and every capacity:

| Theorem | Property |
|---|---|
| `TypeCorrect` | `TypeOK` |
| `LogsAreTails` | `LogIsTail` |
| `TestingIsSo` | `TestingIsTrue` |

`LogIsTail` needs to know that a pipe holds the lines that follow what was read (`Pipes`);
`LatestGrows` is the step of a bounded deque. `TestingIsTrue` needs that a result waits only
for a worker that has reported, and once (`Queue`).

`SocksProofs` proves, for every set of answers of any length, every limit, chunk size and destination:

| Theorem | Property |
|---|---|
| `TypeCorrect` | `TypeOK` |
| `SegmentationIsHarmless` | `PiecesDoNotMatter` |
| `BreaksAreReal` | `OSErrorIsEarned` |
| `SocketsAreReleased` | `SocketIsReleased` |

They follow from `SInv`. `Holds` says which socket a call holds at each place, so that each way
out meets the clause that closes it: the `with` a descriptor that TLS has, the `finally` one
that it never got or that is closed. The other properties speak of the end of a call only; `Progress` adds what
each read knows of the bytes before it: that a reply is awaited only of a proxy that agreed, that the
address read ends at `AddressEnd`, that the body begins there and is at most a chunk over
the limit. So a call that stops has met the first fault of the whole answer, or none.

`ProfilesProofs` proves, for every set of profiles and a process that may end between any two steps:

| Theorem | Property | Of what may fail |
|---|---|---|
| `TypeCorrect` | `TypeOK` | everything |
| `FilesAreWhole` | `DiskIsWhole` | everything |
| `NoQuietDowngrade` | `DowngradeIsTold` | everything |
| `RemovedStaysGone` | `RemovedIsGone` | all but the keyring's deletion |
| `ImportsAreKept` | `ToldIsUsable` | all but the writing of the file |
| `ImplementsVault` | `IsVault` | all but the writing of the file |

The exclusions are needed: an error of the keyring's deletion is suppressed, and a failed
write leaves the object ahead of the file, so that a later write publishes what was refused
(the run `profiles_refused`). `PInv` has the types, `DiskIsWhole`, and what each step
of an operation finds (`Steps`): when the file is replaced the temporary one holds the
object, whatever an earlier attempt left in it; the other claims each take one more invariant: `GoneInv`, that the
object holds nothing that was reported as removed, so that no later write brings it back; `BannerInv`,
that a listed row whose key is on disk is in the object or was told already, and was told if a dialog asks about it;
`AheadInv`, that object and file differ by the operation in progress only. `OneChanges` says
of each step that it makes at most one profile usable or unusable.

`WindowProofs` proves, for every set of runs and profiles, all limits, and any number of
kills and relaunches:

| Theorem | Property | Of what may escape |
|---|---|---|
| `WTypeCorrect` | `WTypeOK` | everything |
| `ConfigIsRemoved` | `ConfigLifetime` | everything |
| `RunsWhatIsSelected` | `TunnelOfSelected` | everything |
| `EngineEndsWithUi` | `NothingOutlives` | everything |
| `SwitchIsTrue` | `SwitchMatches` | all but `OSError` |
| `OwnedIsWatched` | `Watched` | all but `HTTPException` |

The properties speak of the main loop; between two visits to it a handler makes calls of
several steps. `Waits` says which `pc` each handler can be at, and `InHandler` what it has
done before its call and which results the call can have; a lemma for each call says what
it does to run, child and file as its caller sees it. `FilesInv` and `ChildrenInv` name the file
and child of the call in progress, and leave those of killed processes apart.
`SelectionInv`, `OnIsOwned` and `WatchInv` are each inductive beside `WInv` and extend one property
into the handlers. The two exclusions are the findings above: with either exception the code
does not have the property.

`ProfileTextProofs` proves, for every draft and edit:

| Theorem | Property |
|---|---|
| `TypeCorrect` | `TypeOK` |
| `KeyIsPutBack` | `KeyComesBack` |
| `AnswerIsExact` | `ComplaintIsExact` |
| `EngineReadsTheImport` | `EngineGetsTheImport` |
| `KeyIsSplitOff` | `KeyLeavesTheText` |
| `ReadBack` | `parse` reads from what `to_text` writes the sections that were written |
| `OverlapIsSharing` | the loop over pairs of headers finds those with a header in common, for every `MaxHeader` |

The last two are in `ProfileLemmas`. The specification adds little to the text itself: the
invariant `TInv` says that a text stays one (`IsText`), and that what was answered and stored
is what `Refusal`, `Redact` and `Sections` make of it (`Outcome`). The rest are facts about
operators, for texts of any length, in four groups:

- *The key.* `RoundTrip`: the line that is changed stays the first match of the
  pattern after the change, also when the value was on a later line. `OnlyKey`: in an
  accepted text with one `PrivateKey` line the pattern finds that line, and its value is the key of
  `[Interface]`; `RedactedLines`, that the change reaches it.
- *The loops.* `Climb` is induction over the lines as a fact about sets of numbers: each
  use gives the set of those prefixes for which a claim holds. `LoopExists` and
  `RenderingExists` say that the recursive functions of `Sections` and `ToText` are functions,
  `SectionsOfAppend` what one more line does, `ReadSection` what one rendered section does;
  `ReadBack` and `ConfigReadBack` follow.
- *The checks.* `Failing` is the set of what the failing checks of a sequence name. It is a
  union over concatenation (`FailingConcat`), and of a loop over keys it is the loop's rule
  (`FailingFamily`). A lemma for each loop, then `ObfuscationFailing` and `ChecksFailing`: what
  the checks blame is what the rules of `Contradictions` blame.
- *The first failure.* `FirstFailing` and `ComplaintFails`: the answer is one of those sets,
  and is empty only if there is none. `NoneNameless` rules out a failure that names nothing.

The assumptions are about texts: a line is one of the five kinds, and a value has at least one
part, as `split` returns (`TextAssumption`); the placeholder is not empty
(`PlaceholderAssumption`). They are about lines and parts, not characters.

Only model-checked is liveness, which is out of the prover's reach: `CallsReturn`,
`HandlersReturn`, `StalledTunnelIsStopped`, `DeadEngineIsNoticed`, `OutputFlows`, `ReadersEnd`,
`TestsAreReported`, `CallEnds`, and that closing ends in `IsTunnel`.

## Not modelled

- The records of TLS, and host names as texts (`encode_address` refuses by size only).
- The file dialog and the clipboard (`window.py:417-465`): they end in `_import_text` or return.
- The sums of `_parse_metrics`: whether there was a handshake or new bytes is what `poll` makes of them.
- `redact` and the display helpers of `profile.py`; characters of a line.
- `rename`: nothing calls it.
- `main.py`, the launcher, widgets and wording: no state of their own.
- The engine binary: external; its visible behaviour is `World` in `Engine`.
- Packaging, release scripts and CI: no run-time behaviour.
- Power loss: `_flush` does not sync the file; the model ends processes, not machines.
- Another program taking a port that `_pick_free_ports` has released.

## Plan

1. Done: every module above, its safety and action properties checked and proved.
2. Left: to state in one theorem what a user relies on from the window down to the engine's
   configuration (`Window` on `Engine`, `Profiles` on `ProfileText`), which now are separate
   theorems of separate modules.
