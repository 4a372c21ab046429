# EduKod Companion: verification project

The companion is a Go daemon that pairs a workstation with a school, keeps an
outbound WebSocket connection to the school's gateway and relays bounded model
requests to a local OpenAI-compatible API. This directory holds TLA+ modules
translated from its source, TLC configurations that check them on small
instances, and TLAPS proofs for every instance. Source paths are relative to
the repository.

## Inventory

| Component | State | Operations | Interacts with |
|---|---|---|---|
| Relay session (`internal/relay`) | jobs channel, `cancellations` map, session and request contexts, two error channels, its goroutines | `Serve`: hello, read loop, workers, heartbeat, teardown; `execute` | the WebSocket connection, the model API client, `app.run` |
| Model API client (`internal/localapi`) | the write phase of a request | `Forward`, `Models`, URL and loopback checks | workers of the session, `net/http` |
| WebSocket (`internal/wsclient`) | bytes in flight, the message being reassembled, `writeMu`, `closeOnce` | `Dial`, `ReadMessage`/`readFrame`, `writeFrame`, `Close` | read loop, workers, heartbeat |
| Reconnect loop (`internal/app` `run`) | backoff, `lastConnectedAt`, status.json | dial, serve, wait, exit | the session, signals, the status file |
| Pairing (`internal/config`, `pair`, `unpair`) | config.json, the Secret Service keyring, the device at the school | `Exists`, `Save`, `Load`, `Delete`, `Enroll`, `Revoke` | the school over HTTPS, `secret-tool`, other commands |
| Gateway client (`internal/gateway`) | none | `Enroll`, `Revoke`, URL checks | `pair`, `unpair`, `run` |
| Protocol (`internal/protocol`) | none | `ValidateRequest`, message types | read loop, `Forward` |
| `status`, `doctor`, `models`, program entry, packaging | none | read and print; build | |

What is hard, and what makes each part correct:

- *Session.* Goroutines share a map whose check and insertion are two critical
  sections, and workers delete from it by id. Correct means: ids are unique
  while active, every active request can be cancelled, none is answered or
  shown to the model twice, the backlog is bounded, and the shutdown order
  (stop, close, wait for the reader, close the channel, wait for the workers)
  neither panics nor hangs.
- *Pairing.* Three places (school, keyring, file) change one after another with
  failures and kills in between and no lock. Correct means: every enrolled
  device is accounted for, the file never refers to a missing token, success is
  reported only when true, and `unpair` can be repeated until it is done.
- *Reconnect loop.* status.json must not claim a connection that is over, on
  any way out; waits stay within bounds.
- *WebSocket reader.* Fragments, control frames between them, three length
  encodings and two limits. Correct means: exactly the legal streams are
  accepted, and messages come out whole and in order.
- *WebSocket connection.* Writers share a socket with one write deadline behind
  a mutex, and `Close` waits for it too. Correct means: no write without a
  deadline, every call returns whatever the gateway does, no socket leaks from a
  failed `Dial`, and what the limits elsewhere let through fits.
- *Daemon and commands.* The daemon loads the pairing once; `unpair` and `pair`
  change it behind its back, and both sides write status.json. Correct means: a
  paired device is served in the end without a restart by hand, and status.json
  speaks of the paired device.
- *Boundary.* The same URLs, credential and requests are checked at several
  places and times. Correct means: the credential goes to the school only, the
  checks agree with each other, requests reach loopback addresses only.

The hazards, each at its line, are in PROJECT.json with the properties that
catch them.

## Modules

| Module | Models |
|---|---|
| `RelaySession` | one call of `relay.Serve`, with `localapi.Forward` in its workers |
| `RelayContract` | what a session promises, without goroutines or a map |
| `RelayRefinement`, `RelayRefinement_proofs` | the mapping of `RelaySession` to `RelayContract`, and the proof that it is a refinement |
| `RelayInvariant`, `RelaySession_proofs` | the inductive invariant and its proof |
| `Pairing`, `Pairing_proofs` | the credential store and the commands that change it |
| `Companion` (extends `Pairing`), `Companion_proofs` | the commands and the daemon over one configuration directory |
| `RunLoop`, `RunLoop_proofs` | the loop of `run`, backoff and status.json |
| `WsFrame` | the length field of a frame, written and read |
| `WsReader` (extends `WsFrame`), `WsReader_proofs` | `ReadMessage` against any sequence of frames |
| `WsConn`, `WsConn_proofs` | `Dial`, `writeFrame`, `Close` of one connection, and the size of frames |
| `Boundary`, `Boundary_proofs` | checks of URLs, credentials, addresses and requests |
| `MC...` | values of the constants for TLC |

### RelaySession

Control points: `serve`, `readerAt`, `workerAt`, `heartbeat`. A step ends where
another goroutine can see a difference: one critical section under
`requestsMu`, one channel operation, one call that blocks. Merged, because
nothing can tell the difference: reading, validating and looking up a message
(`ReadRequest`); a failed write with its report on `writeErrors` and its `stop()`
(`FailWrite`). `Forward` is `forward`, `connect`, `write`, `await`; `written` is
`requestWritePhase # 0`; `Replay` is what `net/http` does by itself on a stale
connection. The session context is `stopped \/ interrupted`; a request context
is `ctx[r]` under it. `late` tells an explicit deadline from the default one,
since only the former is seen by `ValidateRequest`.

A read may still return a message after `Close`, as one may be buffered. The
refusal of an empty device id at the start of `Serve` has no state and is left
out; the content of messages is abstracted to *malformed*, *padded method*,
*explicit deadline* and *GET*. `responses` and `calls` are history.

### Pairing

A terminal runs `pair` or `unpair`; `at` is where the command is between two
calls that can fail. `Save` is `keep`, `write`, `undo`; `Delete` is `delete`,
`clear`, `remove`, `removeStatus`. A call to the school can be lost before or
after it took effect, `secret-tool` can fail or be killed with its work done or
not, `atomicWrite` can fail before its rename or in the chmod after it, and a
command can be killed anywhere. When a command ends its variables are reset;
`device` stays, for the properties. Two sets are history. `excused` holds the
devices that the commands could not revoke: `pair` was killed, no token of the
enrolment came through (`EnrollLost`), or `--local-only` left it to the user.
`dropped` holds those that `pair` let go of with the token at hand: `Enroll` has
rejected the response (`EnrollRejects`), or the revocation after a failed `Save`
failed too (`GiveUp`). Permission and symlink checks, which defend against
changes by others, are left out. That a school answers 404 for a revoked device
is an assumption about the school, made because `Revoke` takes 404 for success.

### Companion

The actions of `Pairing` run next to the daemon: `proc` is the systemd unit
(`down` is the five seconds before `Restart=on-failure` starts it again), `daemon`
the device it loaded when it started. `status` is the device in status.json;
its other fields are `RunLoop`'s. `strayed` is history: a daemon with an earlier
pairing wrote the file, or an `unpair` was stopped between its two removals.
`Dial` succeeds for a device the school has enrolled; a session may end for any
reason. A failing `run` exits with status 1 and is started again: "exited",
status 0, is what a mutant of `LoadFails` reaches.

### RunLoop

Milliseconds. `age` is the time since `lastConnectedAt`, which the loop only
compares with 30 s, so it saturates there. `SaveStatus` may fail, which the
loop ignores, with the new file in place or not; `doubtful` remembers that, or a
kill. `Start` after `Kill` is the
service manager's `Restart=on-failure`.

### WsReader and WsFrame

The gateway sends any frame; `faulty` records the first it may not send, by a
definition (`Legal`) that looks only at what was sent: what RFC 6455 or the
message limit forbids, and binary frames, which the RFC allows and `ReadMessage`
refuses by a rule of its own. The reader parses lengths with `DecodeLength`. Payloads are their number
of bytes, lengths stay below 2^31. Masks and reserved bits are one flag.
Overlong length encodings, which `readFrame` accepts, are not sent.

### WsConn

`dial` is the next call of `Dial`; each of them can fail, and hangs until a
deadline ends it if the gateway says nothing. `deadline` is the one write
deadline of the socket, which `SetDeadline` of `Dial`, `Arm` and `Disarm` of
`writeFrame` change; after a failed write crypto/tls refuses later ones
(`torn`). A response is its size in bytes before and after `json.Marshal`, with
the limits of the program. `RelaySession` takes it for granted that a write
ends; `UsersReturn` is that assumption, shown here from deadlines alone.

### Boundary

A URL is its scheme, host, port and path, a flag for user info, query or
fragment and one for a space in front or at the end: what the checks look at. The local model
URL has the host `localhost` and no port, as `AllLoopback` depends on the DNS
answer only, which is chosen afresh by each lookup. A request is the class of
its body, its method, path and deadline. The user may edit one field of
config.json before `run` reads it; `peer` remembers whom a credential was sent
to. Removing the pairing is left to `Pairing`.

## Runs

| Run | Instance | Shows |
|---|---|---|
| `relay_backlog` | 3 requests, 2 with one id; 1 worker; queue of 1 | map exact, ids unique, backlog bounded, channel closed last, a freed id never refused |
| `relay_workers` | 2 requests of one id; 2 workers, symmetric | `RelaySession` implements `RelayContract`; types, one response, no replay of inference, honest predispatch code, reported cause, nothing left on return |
| `relay_progress` | 2 requests with ids of their own, 1 worker, no replays, with fairness | every accepted request is answered, one queued behind a hung one included; every shutdown completes |
| `companion` | 1 terminal, the daemon, 2 devices, with fairness | every enrolled device accounted for, keyring backs config, `unpair` reports only what is true, status of the paired device, a pairing is served, repeated `unpair` gets rid of both files |
| `run_loop` | the program's constants | status truthful, waits between 0.75 s and 37.5 s |
| `ws_reader` | 4 frames of 6 sizes around each limit | messages intact, legal streams accepted, nothing overlooked |
| `ws_conn` | 3 writers and `Close`, with fairness | writes have deadlines, calls return, nothing left open, `Dial` ends |
| `boundary` | 2 hosts, 2 ports, all combinations of what is checked | the credential stays at the school, what `pair` saves works, loopback only, what was accepted is refused later for time or a padded method only |
| `relay_ambiguous`, `ws_too_large`, `pairing_removed`, `pairing_twice` | | the code does not do what a test, a comment, a message or the README says (below) |

*Bounds.* One id shared by two requests is what duplicates need; a third with
another id fills a queue of one while a worker is busy, which is overflow. Two
workers are enough for one to finish a request while another holds the same id;
what needs more of anything is covered by the proofs, which bound nothing. Two
devices let a second pairing follow, or race, a first; each command is
otherwise symmetric. `MaxAttempts = 2` is one replay. Four frames hold a
fragmented message with a control frame inside and a frame after it; the sizes
are 0, 125/126, 65535/65536 and one over the limit, and the limit is met exactly
by 65535 + 126 = 65661. `WsReader` stops when the reader has failed, which is
why its run checks no deadlock. `boundary` checks none because its clock is
bounded and a configuration `run` refuses leads nowhere. Three writers on a
connection are a worker, the read loop and the heartbeat; the bodies are a short
one and the longest one without and with characters to escape. Ports 443,
another and none tell a default port that is written out from one that is not.
Interleaved commands of two terminals are in `pairing_twice`, and in the proofs
about `Pairing`, which bound no terminals.

*Fairness.* `relay_progress`: a runnable goroutine runs, a write ends (wsclient
gives it 15 s), a read fails on a closed connection, time passes. Nothing is
assumed of the gateway, the caller or the model API; in particular connecting
and answering are not fair. `ws_conn`: deadlines pass, `sync.Mutex` lets every
waiter in sooner or later, nothing is assumed of the gateway. `companion`: a
command goes on because every call has a timeout (20 s, 10 s); systemd starts a
failed unit every five seconds, below its start limit, and neither the keyring
nor the gateway is out of reach every time (`ServiceRuns`: strong fairness of `Load` and `Dial`). `PairedGetsServed`
carries that assumption itself, and `RetriesRemoveFiles` its own, so that neither
weakens the other: a user keeps trying plain `unpair` while the pairing can be
loaded and `--local-only` where there is none to load, the keyring can be read,
an answer of the school arrives and status.json is removed every so often, and
the kills and the failures to remove config.json come to an end (`UserRetries`). It says nothing of the
keyring, where the token may stay (`pairing_removed`), and a daemon that still
runs may write status.json again.

## Findings

- *A deadline that passes in the queue is reported as ambiguous.* `Forward`
  rejects it before any dispatch, and `execute` answers with its default code
  `local_unavailable`, which `relay_test.go` reserves for failures after dispatch.
- *A response within its limit may not fit.* `Forward` relays up to 16 MiB, and
  the connection takes 4 KiB more; `json.Marshal` writes each `<`, `>` and `&` of
  the body as six bytes. The frame is refused and the session ends with every
  request in it.
- *`unpair` can leave the token in the keyring.* `Delete` ignores the error of
  `Keyring.Delete`, and skips it when its own second `Load` fails, and "Local
  companion credentials removed." is printed.
- *Two `pair` commands at once both succeed.* The check for config.json and its
  write are a network call apart; the first device is left enrolled, with no
  config.json that speaks of it.

Observed without a run of its own, as no document or test of the repository says
otherwise: `pair` loses devices it could revoke. When `Enroll` rejects a response,
for its WebSocket URL for instance, the token in it is dropped and the device
stays enrolled; and the error of the revocation after a failed `Save` is ignored,
without a word to the user. `EnrolledIsAccountedFor` lists both as `dropped` and
shows that there is no third way. `net/http` repeats a `GET /v1/models` on a stale
kept-alive connection, so the model API may see it twice (`InferenceNotReplayed`
is about the other requests). A daemon that is not restarted after `unpair` and
`pair` dials with the revoked credential for ever and writes its old device into
status.json: `PairedGetsServed` has to exempt it, and `systemctl --user enable
--now`, as the README has it, does not restart it. `Enroll` trims the WebSocket URL
for its check and not for config.json, and accepts a credential with a line
break: `pair` then succeeds and `Dial` refuses for ever, or asks for a path that
ends in a space (`PairedConfigWorks` shows that there is no other such case).
`ValidateRequest` trims the method, `http.NewRequest` does not, so that a request
with a padded method is accepted and then fails as if the model API had
(`RefusedForTimeOrPadding`). The backoff is reset by the age
of the last connection and only after a wait, so that a long stable session is
followed by one wait of the old backoff, and a long outage after it is retried
every 2 s rather than backing off to 30 s.

## Proofs

All are checked by `tlapm` with Z3, Zenon and LS4, from the named assumptions
about constants only.

- `RelaySession_proofs`, from `RelayAssumption` (ids for requests, finitely many
  workers and at least one, a queue of at least one). `UniqueWhileActive` and its
  like are not inductive: whether two requests of one id can become active depends
  on who holds which request and on what the map says before either is active.
  `IInv` therefore joins the types, the order in which goroutines start
  (`StartOrder`) and stop (`StopOrder`), that each request is in one place
  (`OnePlace`), and that the map holds exactly the active requests
  (`RegistryExact`, with the clause that at `register` the id is still free: only
  the read loop inserts). Four more parts carry the other properties: what the
  model API has seen of a request by where the request is (`CallsExact`, for
  `InferenceNotReplayed` and `PredispatchNeverCalled`), that whoever stops the
  session while `Serve` waits leaves the error of a write (`CauseKept`), that a
  request has no context before it is registered (`CtxFresh`), and the length of
  the queue (`QueueBounded`). Each conjunct has lemmas with one step per action;
  `Inductive` joins them, and most safety theorems follow by propositional steps.
  `BacklogBounded` counts: the accepted requests are the image of the workers and
  of the places in the queue, and `FiniteSetTheorems` bounds its size.
  `FreeIdNeverRefused` speaks of a step and follows from `IInv` before it.
- `RelayRefinement_proofs`, from the same assumption: `ImplementsContract`.
  `StatusByPlace` says once what the mapping makes of a request at each place it
  may be in, which `IInv` keeps apart; each action then moves the status of at
  most one request, and is a step of `RelayContract` or a stutter.
- `Pairing_proofs`, from `PairingAssumption` (`None` is neither a device nor a
  config.json). `UnpairRevokes` rests on two facts: revocation is final
  (`RevokedStays`), and a command comes to `Delete` without `--local-only` only
  after an accepted answer (`UnpairInv`). `EnrolledIsAccountedFor` and
  `KeyringBacksConfig` are false when commands overlap (the device that the second
  `pair` of `pairing_twice` replaces is in neither set), so their theorems have the
  hypothesis `[]OneAtATime`: any number of terminals, used in turn. A single
  terminal, the instance of `companion`, fulfils it (`SingleTerminal`).
  `NothingElseOrphaned` is no claim that no device is orphaned: it says that only
  the events recorded in `excused` and `dropped` do it. `AloneInv` then says what
  a command knows at each of its points: from `enroll` to `write` there is no
  config.json, at `undo` and `giveup` none but its own, at `revoke` the loaded one
  with its token, from `delete` on one whose device is given up. The proof of a
  step is one lemma per command about the only terminal in use
  (`PairTerminalInv`, `UnpairTerminalInv`, `KillTerminalInv`).
- `Companion_proofs`, from the same assumption. `ImplementsPairing`: every step of
  the daemon leaves the variables of `Pairing` alone and every other one is a
  step of `Pairing` on them, so that its theorems hold next to a daemon, which no
  hypothesis restrains (`CompanionUnpairRevokes`, `CompanionKeepsPairing`);
  `CompanionTypeCorrect` adds what the daemon keeps. `StatusAgrees` needs that a
  status.json which has not strayed is about the paired device or about to be
  removed (`StatusInv`), and `AloneInv` for why no `pair` writes in between.
- `RunLoop_proofs`, from `RunLoopAssumption` (jitters of 75 to 125 percent, a first
  backoff divisible by four milliseconds, `Initial <= Cap`).
  `StatusIsTruthful`: the clause needed beside it is that a killed process is
  always in doubt. `DelayIsBounded`: the backoff stays between `Initial` and `Cap`,
  through doubling and reset, and rounding down after the jitter does not go
  below three quarters because these are whole.
- `WsReader_proofs`, from `WsReaderAssumption` (a message may be as long as a control
  frame at least, and is shorter than 2^31). `LengthRoundTrip` and that control
  payloads have one-byte lengths, by linear arithmetic on the bytes. The
  properties of the stream relate what the gateway has sent to what the reader
  has understood, with any number of frames between them: `ReaderInv` says that
  there is a sequence of points, one before and after each frame of the wire,
  that begins at the reader and ends at the gateway, each leading to the next by
  the gateway's rules alone (`Joins`). Sending appends a point, and reading drops
  the first one, because the reader takes a frame exactly when it is legal there
  (`RefusesTheIllegal`, `TakenFrame`). With an empty wire the two ends are one
  point, which is `NothingOverlooked`.
- `WsConn_proofs`, from `WsConnAssumption` (`Close` is none of the writers, `None`
  is nobody, sizes are numbers). The invariant `ConnInv` joins the types, which
  say that exactly the one in the mutex is inside `writeFrame`, with `Unshared`:
  nobody writes while `Dial` has the socket to itself, so that the deadline
  `Dial` clears is its own. `WriteHasDeadline` needs both.
- `Boundary_proofs`, from `BoundaryAssumption` (names of values that differ). For
  `CredentialStaysAtSchool`, `CredentialInv` keeps that a configuration `run` has
  accepted has both URLs on one host and port, default ports included. For
  `RefusedForTimeOrPadding`, `RequestInv` keeps that a waiting request satisfies
  every clause of `ValidateRequest` but the one on time. `LoopbackOnly` is inductive. For
  `PairedConfigWorks`, `PairedInv` keeps that an unedited configuration passes the
  checks of `run`: normalising a URL a second time changes nothing
  (`SchoolOriginIsOrigin`, `BaseURLStaysValid`).

*Model-checked only.* Liveness (`AcceptedIsAnswered`, `ShutdownCompletes`,
`PairedGetsServed`, `RetriesRemoveFiles`, `DialEnds`,
`UsersReturn`) is out of the
prover's reach, since fairness speaks of ENABLED. Every safety and action
property of a passing run is a theorem. No module uses recursion, whose results
for every input the prover could not establish.

## Not modelled

The bytes of handshake, masks and message formats, the parsing of URLs into
their parts, permission and symlink checks, the commands that only read (they
change nothing; what `status` shows is `StatusNamesPaired`), the early return of
`Serve` for an empty device name (no state), packaging.

## Plan

1. Done: the session with its contract; pairing, and its composition with the
   daemon; the reconnect loop; the reader, the writers and `Dial`; the checks.
2. Proofs. Done: every safety and action property of the runs, and the
   refinement of `RelayContract`. Left: the daemon of `Companion` as an
   abstraction of `RunLoop`, and what can be said without ENABLED of why the
   session and the connection cannot get stuck.

Run `tlc -workers 2 -config <cfg> <MC module>` and `tlapm <module>_proofs.tla`.
