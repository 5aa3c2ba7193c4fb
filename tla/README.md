# A verification project for meshcore-irc-bridge

TLA+ modules of the bridge in `src/src/meshcore_irc_bridge` (below, `bridge.py`
and so on), TLC configurations that check them on small instances, and theorems
about them checked by TLAPS. `PROJECT.json` names, for every definition, the
lines it models; for every run, its properties; for every property, a mutation
of the code that breaks it.

## 1. Inventory

One process, one asyncio event loop. `Bridge.run()` gathers three tasks; a
fourth, from the signal handler, runs `Bridge.stop()`. Tasks interleave at
awaits only, so **in every module what stands between two awaits is one
action**, and a task that awaits is a program counter.

| Component | State | Operations | Modules |
|---|---|---|---|
| Line queue and drain (`bridge.py` 264-284, 309-350) | the bounded deque, consecutive failures, time of the last send | event handler, enqueue, poll, pace, send, retry, give up | `BridgeQueue`, `LineRelay` |
| IRC lifecycle (`irc/client.py` 66-190, 276-360; `bridge.py` 288-307) | `_conn`, `_connect_task`, `_ready`, `_stopping`, `_write_lock` | run, send_privmsg, stop | `IrcClient` |
| IRC registration (`irc/client.py` 192-274; `irc/sasl.py`) | nick, retries, ls_caps, sasl_completed | one per server message | `IrcRegistration` |
| Mesh supervisor (`bridge.py` 129-262; `mesh_connection.py`) | `_mesh_client`, `_mesh_connect_task`, `needs_reconnect`, delay | connect, subscribe, query, poll, disconnect, back off, stop | `MeshSupervisor` |
| Channel text (`formatting.py`, `format_line`) | the locals of two loops | split, strip, wrap, build the line | `ChannelText` |
| Line parsing and reading (`irc/protocol.py`) | the stream's buffer | parse, param, read_message | `IrcReadLoop` |
| Silence watchdog (`irc/client.py` 305-360) | last_rx, ping_sent_at | wait, PING, PONG, verdict | `IrcReadLoop` |
| Configuration (`config.py`) | none (pure) | load, interpolate, coerce, validate | `Config` (the name's bytes: `ChannelText`) |
| Command line (`cli.py`, `__main__.py`) | `stop_requested`, the exit status | load, run, handle a signal, exit | `BridgeProcess` |
| The process (`Bridge.run`, `Bridge.stop`) | `_stopping`, the three tasks | gather, stop | `BridgeProcess`, `SendService` |

How they interact:

- *mesh to queue*: the library calls `_on_channel_message` from its own task. It
  has no await, so it runs whole, but in the middle of any await of the drain.
- *queue to IRC*: the drain looks at `is_ready`, then awaits `send_privmsg` with
  the line still at the head of the deque.
- *drain and read loop* share the write lock, which is held across `drain()`.
- *stop()* sets both `_stopping` flags, cancels a connect, closes a connection,
  and only when the IRC side is done turns to the radio.
- *restart*: each `run_until_disconnected` clears the client's own flag; each
  mesh session has its own `needs_reconnect` event, bound into its handler.

What is hard here, and what would make each part correct:

- *Queue.* The deque evicts from the left while the head is being sent, and the
  drain then removes whatever is at the left. Correct: nothing lost unlogged,
  nothing reordered or acknowledged twice, a bound on retries, the head gives
  way, lines stay attributable, a stop ends the task.
- *IRC lifecycle.* Five awaits from which a session can end, a lock that is
  handed over in the middle of it, a stop at any instant. Correct: readiness
  never stale, the lock never lost, no write to a connection that has not
  joined, every loss followed by a reconnect, every stop by the end.
- *Registration.* Two conversations (nicknames, capabilities) interleaved with
  PINGs. Correct: no registration without SASL when it is demanded, the same
  nickname on both sides, no error blamed on the wrong cause, no deadlock.
- *Mesh.* A library whose every call may raise, whose connect may hang and whose
  events may be late. Correct: clients released, sessions that end for a reason
  of their own, reconnect, stop.
- *Text.* Bytes against characters. Correct: nothing lost, split or reordered,
  nothing unsafe, everything sendable.
- *Reading.* Time, a shared lock and writes that block. Correct: a dead link found
  out in the time promised, one that is heard from never condemned, no line that ends a
  session because it is malformed.
- *Configuration.* Many fields, each of any YAML type. Correct: what loads is what
  the rest of the program asserts and relies on, what does not is a `ConfigError`.
  The assertions hold; finding 5 and *NaN*, below, are about the rest.
- *The process.* A signal while each side is anywhere, and a `stop()` whose first
  await may not return. Correct: the radio released, the process ended, nothing
  left behind.

`PROJECT.json` "hazards" lists these at their lines, with the property that
covers each and, for those none covers, why.

## 2. Modules

Modules of a component `X` come in threes (`Config` is run by `MCBridgeProcess`): `X` has the state, the actions, the
properties and the inductive invariant `IInv`; `MCX` instantiates it for TLC;
`XProofs` holds the theorems. Operators marked `Mutation:` are plausible bugs
next to the code they change; no specification uses them.

**LineRelay** is the promise without the mechanism: lines wait in order in a
bounded buffer, the front one is delivered or, after `Patience` failures in a
row, lost; a full buffer loses its oldest lines, or the oldest behind a front
line whose delivery has begun.

**SendService** is what the drain knows of the IRC client: ready or not, a send
begun or not, and that each one ends. `IrcClient` implements it and `BridgeQueue`
asks for no more, which is how the two modules, of one program, fit together.

**BridgeQueue** has `_on_channel_message` with every `_enqueue` it makes
(`OnChannelMessage`), the drain up to its await in `send_privmsg` (`BeginSend`)
and after it (`SendReturns`, `SendRaises`), its pacing sleep (`PaceElapses`),
its exit and the readiness of IRC. A line is its arrival number, its mesh
channel, its destination and whether it has a prefix. `fate` is chosen as the
send begins (a prophecy: the outcome depends on the network alone), and this is
what lets the refinement mapping say whether a line evicted in flight will have
been delivered. `acked`, `written`, `accepted`, `overflows`, `giveUps` and
`headFails` are history. A send may raise and still have written the line.
Idle polls (no line, or not ready) change nothing and are stutters.

**IrcClient** has the supervisor and the client under it as one counter `run`,
the drain's `send_privmsg` as another (`sender`), and `stop()` as a third. `link`
is the socket; `paused` is a peer that does not read, so that writes block. A
task that is woken does not run at once: `ConnectResolves` and `ConnectSucceeded`
are two actions, and what happens between them is the point of one finding.
Handing an `asyncio.Lock` to a waiter and the waiter's running are two actions
as well. `clientStopping` and `stopping` are the two flags.

**IrcRegistration** has one action for each branch of `_register`, and a server
as the other side of two FIFO channels. The server is external: it follows RFC
2812 and the IRCv3 specifications, and is free in what it supports (no CAP at
all, sasl on either line of the list, NAK, no PLAIN, wrong credentials, any
number of nicknames in use), in when it pings and refuses, and in the order in
which it sends. A nickname is the number of its underscores, the credentials
are their size.

**MeshSupervisor** has `_run_mesh_supervisor` and `Bridge.stop()` on a finite set
of clients of the library. A client whose disconnect raised stays subscribed and
is never used again (`abandoned`); one that was released may come back as a new
one. `BuiltinTimeout` says whether `asyncio.TimeoutError` is the builtin, as it
is from Python 3.11 on.

**IrcReadLoop** is `_read_loop` with `read_message` under it, in discrete time:
`rx` and `ping` are the ages of `last_rx` and `ping_sent_at`, and `Tick` ages them
when no task can run. A line is what it leads with, its words and what follows
`" :"`; `Parse` does with them what `Message.parse` does, quirks included (a
`:text` after a prefix is a command). `inbox` is the reader's buffer; `paused` is a
peer that does not read, so that a write does not end; the drain takes the write
lock in between. A line may come in parts: `partial` says that the beginning of one
is in the buffer, where `readuntil` leaves it until its end comes or the peer
closes. Three clocks are history: `silence`, the time since anything arrived at all;
`listened`, the part of it the loop spent reading; `unheard`, the time since a
message arrived whole. The code's comments speak of the first, the code looks at
the last, and finding 4 is the difference.

**Config** is `load_config` as a function of a raw configuration, a record of
fields; a value is a kind (a number below, at, in or above its range, an integer no
float can hold, a NaN, an infinity, a text, a list, a mapping, null, nothing at all), and the outcome is
`"ok"`, `"ConfigError"` or, for any other exception, `"crash"`. There is one
operator for each builder and for each `__post_init__`, and `??` chains checks: the
first that fails is the outcome. Three operators say what a configuration that
loads is to the rest of the program: `AssertionsHold` (its `assert`s),
`BridgeBuilds` (`Bridge.__init__` can hash the channels' names), `DelaysInOrder`
(what the error messages say of the delays); `Uncaught` lists what makes
`load_config` raise anything but a `ConfigError`. Integers of more than 4300 digits,
which Python refuses to print, are left out.

**BridgeProcess** composes `IrcClient` and `MeshSupervisor` by `INSTANCE`: they share
`stopping` and the one task of `stop()`, which reaches the mesh side only when the
IRC side has returned. Around them are `main` with its exit statuses, the signal
handler, and how far the drain is; nothing runs before `Load` has said `"ok"`
(`LoadSucceeds`) and `Bridge(config)`, which is outside of main's `try`s, has been
built (`StartBridge`, or `BridgeFails`). An exception that leaves main is the exit
code `"traceback"`.

**ChannelText** handles one character a step. A character is its kind, with its
width in UTF-8; a line holds positions in the text, so equal characters are told
apart. `Configured` is the configuration's check on the destination, `Fits` what
`format_line` accepts.

## 3. Runs

| Run | Checks | Bounds, and why they are enough |
|---|---|---|
| `queue` | 5 invariants, order of writes, refinement of `LineRelay`, the head never wedges; deadlock | queue of 2, 3 attempts, messages of 1 or 2 lines, 4 lines in all, three mesh channels of which two share an IRC channel. A line is evicted in flight, and so is a whole queue by one message (2 lines into 2 places); the failure count is inherited with an attempt to spare. Arrival numbers end at 4; nothing in the code depends on them. |
| `queue_giveup` | *violated*: `GiveUpAfterOwnFailures` | the same, messages of one line |
| `irc_client` | 2 invariants, writes only after joining, reconnection, refinement of `SendService` with the end of every send | none: the state is finite |
| `irc_client_stop` | *violated*: `StopAlwaysEndsRun` | the same |
| `mesh` | the delay's range, release, reasons to end, reconnection | three clients: one in use, two left over; delays from 1 to 5, so that doubling meets the limit in between |
| `registration` | 5 invariants, the negotiation held, conclusion without the timeout | 2 retries against 0 to 3 nicknames in use, lines of 2 quads for credentials of 1 to 3 (short, exact, long), one PING at any point, CAP lists of one and two lines |
| `text` | 5 invariants (types are proved: `TypeCorrect`) | texts of up to 3 characters of all kinds and of 4 or 5 of the kinds that matter to wrapping; 5 bytes a line, with and without a prefix of 1; the limit of `format_line` exactly at a full line to the longest name |
| `reader` | time to detect, a message keeps the session alive, what ends a session, a silent peer is found out | 3 ticks of idleness and 2 of timeout, so that an answer can be early, late and at the deadline; 2 unread lines, so that a message stands behind a malformed one; a line of each shape that `Parse` and the loop tell apart, whole or in part |
| `reader_bytes` | *violated*: `AnyByteKeepsAlive` | the same |
| `reader_blocked` | *violated*: `DetectedAsDocumented` | the same |
| `process` | what loads satisfies the assertions made of it, nothing left behind, a signal releases the radio and ends the process | every configuration one field away from a sound one, for the nine ways to connect and log in, and every pair of numbers for the delays and the channels; one radio (more are in `mesh`), delays that do not grow |
| `process_errors` | *violated*: `ConfigProblemsReported` | the same |

Deadlock is checked in `queue`; the others stop when their work is done
(`CHECK_DEADLOCK FALSE`), and their liveness properties say that it is.

The five violated runs are disagreements between the code and what its comments
and docstrings say:

1. *Give-up counter* (`queue_giveup`; `bridge.py` 334). `consecutive_failures` belongs
   to the drain. A line evicted in flight leaves its failures to the next, which is
   given up early. `BoundedRetries` is what does hold: never too many, possibly too few.
2. *Stop in the gap after connecting* (`irc_client_stop`; `irc/client.py` 166). The
   connect task is done, its awaiter has not run, `_conn` is still `None`: `stop()`
   finds nothing to cancel or close, and the session goes on until its link breaks.
   Under `nickserv` the wait notices `_stopping`. `SignalEndsProcess` states what holds.
3. *Writes without a deadline* (`reader_blocked`; `irc/client.py` 339, 351). `config.py`
   164 promises detection within `ping_idle_seconds + ping_timeout_seconds`; a loop
   that is writing, or waiting for the drain's write, looks at no deadline.
   `DetectedInTime` states what holds: no more than that is spent *listening* to nothing.
4. *Any byte* (`reader_bytes`; `irc/client.py` 318, 349; `config.py` 162). The comments
   say that any byte after the PING keeps the link alive; the clocks are reset by
   complete lines that parse, and by nothing else (`irc/protocol.py` 196-202).
   `AnswerKeepsAlive` states what holds: a message in time does. (The test at
   `tests/unit/irc/test_client.py` 656, "any byte at all counts", sends one.)
5. *Problems that are no `ConfigError`* (`process_errors`; `config.py` 217, 281, 307, 314;
   `bridge.py` 94). `ConfigError` is "raised for any problem loading or validating the
   bridge config" (`config.py` 35), and what main catches later is "not a config problem
   (those are already handled above as ConfigError)" (`cli.py` 92). An infinity for an
   integer, an integer too large for a float, an `irc_channel` that is not a text, a
   file that is no UTF-8 and an alias to what contains it are `OverflowError`,
   `TypeError`, `KeyError`, `ValueError` and `RecursionError`; `CrashHasCause` proves that,
   in this model, there is nothing else. A list such as `["#a"]` passes every check of
   `ChannelMapping`, and is a `TypeError` when `Bridge.__init__` counts it.

Three more are instances, or premises, of what the passing runs check:

- *Python 3.10* (`bridge.py` 208; `pyproject.toml` 10 admits it). `suppress(TimeoutError)`
  does not suppress what `asyncio.wait_for` raises there, so each session ends at its
  first poll, and the handlers at `irc/client.py` 142, 296 and 345 have the same form.
  `mesh` has `BuiltinTimeout = TRUE`; with `FALSE` (`MCMeshSupervisorPy310.cfg`) TLC
  refutes `EndsForAReason`, which is proved under that assumption.
- *Characters and bytes* (`config.py` 235). A name of 50 wide characters leaves less
  than the 400 bytes a line may use, against `config.py` 26-30. `text` has names of
  one-byte characters; with the limits of the code and a wide name
  (`MCChannelTextWideName.cfg`) TLC refutes `EveryLineSendable`, which is proved under
  the premise that the names are short enough in bytes.
- *NaN* (`config.py` 138, 140, 187, 189). A NaN passes `<= 0` and `<`, so a delay that
  "must be > 0" may be one. With a NaN for `ping_idle_seconds` the watchdog sends no
  PING, and every wait for a message times out at once. `LoadedDelays` proves the
  order of the delays under the premise that none is a NaN.

### Fairness

- *Tasks* that can run do (weak fairness on each step of a task): the event loop
  is fair. `BackoffEnds` waits for a sender that has been woken, because the
  backoff lasts longer than zero (`config.py` 138) and a woken task runs in the
  next turn of the loop.
- *Phases with a deadline* end: registration (`registration_timeout`), the NickServ
  wait, the backoff, the pace.
- *Strong fairness* on `BeginSend`: a connection that keeps becoming ready is seen
  ready by some poll. On the writes of `IrcClient` and on `ConnectionLost`: when a
  peer that paused resumes, a blocked write is woken for good, though the peer
  may pause again before the task runs.
- *Trusted to the environment*: in `IrcClient` a connect resolves and a peer that
  does not read resumes or goes away, since the code has no timeout there; in
  `BridgeQueue` IRC comes back. In `MeshSupervisor` the connect is **not** trusted,
  and every other call of the library returns or raises.
- In `BridgeProcess` the tasks are fair and nothing is asked of the network: not
  that a connect resolves, nor that a link lives or dies. `RadioReleasedOnSignal`
  needs no more; `SignalEndsProcess` has its condition, a peer that again and again
  is not paused, in the formula. Strong fairness there is for tasks that a pausing
  peer interrupts. That a configuration is loaded at all is not assumed: both
  properties start from a signal, which only a running bridge gets.
- In `IrcReadLoop` time goes on (strong fairness of `Tick`, for the drain may keep
  the loop busy in between) and tasks run; nothing is asked of the peer.
- In `IrcRegistration` neither `TimesOut` nor the server's PINGs and refusals are
  fair: `Concludes` says the messages alone bring the handshake to its end.

## 4. Proofs

Every component with a state has an inductive invariant (`IInv`; in `BridgeProcess`
`MainInStep` with the invariants of its halves), proved in the component's proof
module for all values of the constants under the module's `ASSUME`s. Each was
checked by TLC before it was proved. The runs check the properties, not the
inductive invariants again. Type correctness is a theorem of every one of these
modules, and every safety property of every passing run is stated by a theorem.

- **BridgeQueueProofs.** The properties speak of acknowledged lines; what makes
  them inductive is where everything stands in the order of arrival: the queue
  holds the youngest lines without a gap (`Contiguous`), the line in flight is at
  the head or older, and younger than all acknowledged (`InFlightOK`), the last
  line written is not beyond the head (`WrittenBehindQueue`). With `Routed`, type
  correctness, accounting, order, bounded retries, attribution and order of writes
  follow. `Implements` proves that the queue implements `LineRelay`, whose `Accept`
  takes any sequence of lines; `ImplementsChecked` is the form TLC checks.
  `ReliesOnService` and, on the other side, `ProvidesService` are the two halves of
  `SendService`.
- **IrcClientProofs.** `Phases` ties the program counter to the connection, the
  socket, the flags and the sender; with the lock's discipline it is inductive,
  and readiness, exclusion, the end of old senders, release at exit, the memory
  of a stop, writing only after joining, and `SendService` follow.
- **MeshSupervisorProofs.** `SignalsAreOwn` (an event that is set is the current
  session's, whose radio is gone) is what `EndsForAReason` needs; it is proved
  under the assumption `BuiltinTimeout`, without which TLC refutes it.
- **IrcRegistrationProofs.** Three arguments, each with an invariant of its own.
  *Facts*: `SuccessIsTrue` follows a 903 from the server's acceptance through the
  channel to the client, and gives `NoSilentDowngrade` and `HoldsRegistration`.
  *Nicknames*: `NickInv` says that the nickname in use is on its way to the server,
  or its refusal on the way back, or held, never two of the three; `NickAgreed`
  follows (`NickIsAgreed`). *The dialogue* (`SaslInv`): the messages of the
  capability negotiation and of SASL take turns (`TakesTurns`), and each one on its
  way says where both sides are (`Meaning`). The first makes a step of one kind of
  message leave the clauses about all others empty, so that the second is proved
  one message at a time. `Meaning` must go as far as the credentials: a 904 blames
  the account only if what the server received is what was sent, hence
  `ResponsePending`, by which the lines still on their way and what has been
  received make up the blob, with the short line last. `NoFalseRejection` is what
  `Meaning` says of a NAK, a 904 and the last line of CAP LS, and what `NickInv` says
  of a 433. `NoStandoff` needs two things more: while the server negotiates, some
  message of the dialogue is on its way (in `TakesTurns`), and nothing else that the
  welcome waits for is lost (`Underway`, where a PING is answered, under way, or its
  PONG is, counted as cardinalities of positions). It is the safety core of
  `Concludes`: what it leaves to TLC is that steps which can happen do.
- **ChannelTextProofs.** What is collected is visible and non-empty, so every line
  is safe; the count of bytes stays in the budget, so that `Sendable` holds *if*
  the configuration's check bounds the bytes of a name. A name of wide characters shows
  that the premise is needed. `ScanInv` is the invariant of the scan. `Accounted`:
  a character read is in the open logical line, in the chunk, or in a line,
  according to whether its logical line is closed, and what is together is of one
  logical line; when the scan is done this is `RelaysText`, with `InOrder`, which
  compares the lines, the chunk and the logical line pairwise. `Counted`: the running
  sum `currentBytes` is the number of bytes of the chunk's encoding. The bytes of a
  sequence are stated as the cardinality of a set of (position, byte) pairs, not
  as a recursive sum: adding a character adds a disjoint set of its width, which a
  lemma about cardinalities gives where a sum would need induction over data.
  `SplitWhenFull` keeps of a chunk's first character that it did not fit before;
  `WithinBudget` and `NoNeedlessSplit` follow.
- **IrcReadLoopProofs.** `ClocksAgree` bounds the time spent listening to nothing by
  the loop's own clocks, `AnswerAwaited` says that a message that arrived since the
  PING is still unread; with them the bound on detection, the verdict and what ends
  a session follow for all delays, any set of lines and any size of the inbox.
- **ConfigProofs.** No state, and no induction: the theorems hold for every value of
  every field, by unfolding the chain of checks. `AssertionsKept` is about the
  `assert`s of the rest of the program. `LoadedDelays` has a premise, that no delay
  is a NaN. `CrashHasCause` says that
  `Uncaught` is complete.
- **BridgeProcessProofs.** `Composition`: a step of the process is a step, or a
  stutter, of each half, so that the theorems of `IrcClientProofs` and
  `MeshSupervisorProofs`, instantiated, hold of it. With `MainInStep` (the process
  has exited by itself only when the three tasks are done) they give
  `NothingLeftBehind`. `MainInStep` also says that what main holds has been loaded,
  so that `ConfigProofs` gives `AssertionsGuaranteed` (`AssertionsKeptByMain`).

Only model-checked: the liveness properties, since TLAPS 1.4.5 has no rules for
fairness or `ENABLED`. They are `HeadNeverWedges`, `LossLeadsToReconnect` (in
`IrcClient` and in `MeshSupervisor`), `Concludes`, `SilentPeerFound`,
`RadioReleasedOnSignal`, `SignalEndsProcess`, and of `ImplementsService` the end of
every send (`ProvidesService` proves the rest of it). The five violated properties
are refuted, hence not proved.

## 5. Not modelled, and plan

Not modelled: wording of logs, argument parsing, the `KeyboardInterrupt` path of
platforms without signal handlers, the library below `meshcore`, TLS, base64, the
cancellation of tasks from outside the bridge. IRCv3 tags are parsed by the code
and read by nobody, so a line only says that it has them. Which characters a
nickname may have is not modelled, and neither is the length of the IRC side's
backoff. The server of `IrcRegistration` sends none of the numerics that `_register`
ignores: 902, 907 and 908 of SASL, and 432 and 437, which refuse a nickname as
433 and 436 do. After one of them the client waits for its timeout, so that `Concludes`
and `NoStandoff` are about servers that answer with the others. `EveryClientReleased`
exempts the clients whose `disconnect()` raised: that their messages, should they
still come, go into the queue beside those of the next client is what the code
does, and no property is about it.

Done in this order, most important behaviour first: `BridgeQueue` with
`LineRelay`; `IrcClient`; `MeshSupervisor`; `IrcRegistration`; `ChannelText`;
`IrcReadLoop`; `SendService`; `Config`; `BridgeProcess`. What is left:

1. The backoff of both supervisors in discrete time, with what counts as a long
   session (`bridge.py` 230 and 302 measure differently).
2. `BridgeQueue` inside `BridgeProcess`, instead of at its side: that a line received
   is delivered or logged across reconnects of both sides. `SendService` is the
   interface such a composition would go through.
3. A server in `IrcRegistration` that answers with the numerics above.
4. Proofs: the safety core of more of the liveness properties, as `NoStandoff` is
   that of `Concludes`: that no state short of the goal is one where nothing can run.
