# Formal verification of the confidential IoT project

TLA+ modules of the device, the server and the link between them, TLC
configurations that check them on small instances, and TLAPS proofs of the
properties that matter most. Paths are relative to the repository;
`confidential_iot/` is `project/optee_examples/confidential_iot/` and `server/`
is `CC_Server/server/`.

## The system

An edge device runs a Host client application in the normal world and a trusted
application (TA) in OP-TEE. A sensor module, a separate process, is connected to
the TA through a UART that only the secure world can reach. The management
server verifies the device by remote attestation, agrees on a session key with
its TA and collects readings that the TA sealed.

| Component | State | Operations | Talks to |
|---|---|---|---|
| TA, `confidential_iot/edge_device/ta/trusted_app.c` | per session: ephemeral keypair, session key and its validity, send counter, sensor flag; shared by all sessions: three sealed objects (TA identity, pinned server key, sensor secret) | commands 0, 1 and 3 to 6; open and close session | Host (invokes it), sensor link PTA |
| Host CA, `edge_device/host/main.c`, `edge_device.c`, `net.c` | connection, attested flag and deadline, challenge in hand | push loop: ensure session, read and protect, send; provisioning modes | TA, server (JSON lines over TCP) |
| Verifier, `server/attestation.py` | pending challenge and session per device id | issue challenge, verify and derive, look up key, check and advance seq | registry, link threads |
| Device link, `server/device_link/attested_network.py` | one thread per connection; samples and verdict per device id | hello, attest_response, data; collect; disconnect | verifier, UI |
| Registry, `server/device_registry.py` | dictionary in memory, JSON file | register, lookup, remove, clear, load, save | verifier, REST endpoint, CLI |
| Reset CLI, `server/reset_registry.py` | its own copy of the dictionary | remove, clear | the same file as the server |
| Sensor link PTA, `optee_os_ext/core/pta/sensor_link.c`, and sensor daemon, `sensor_module/sensor_daemon.c` | UART byte stream; one-shot secret latch, authenticated flag, reading timer | challenge, read, fetch secret | TA, each other |
| Plain link, `server/device_link/network.py` | samples and verdict per device id, no attestation | data; collect | UI |
| Service, store, processing, `server/service.py`, `store.py`, `processing.py`, `app_server.py` | bounded history of samples per device | collect once (REST), collect on a timer (WebSocket) | either device link, browser |
| Web UI, `server/web/app.js` | current socket, reconnect timer, answer on the screen | select, open, message, close, timer | WebSocket endpoint |

What is hard about it:

* *Concurrency.* The TA is multi-instance, so two clients run commands against
  the same sealed objects at once. The server has a thread per connection, while
  its state is keyed by device id: a thread left over from a dead connection
  works on the entries of the new one. The registry file is shared by two
  processes with a lock that is private to each. The sensor link PTA runs
  commands of several TA instances on one UART without any lock. One sample
  buffer is filled by threads and drained by every open page.
* *Failure.* Power loss and storage failures inside the TA; lost connections,
  restarts of either side and kills in the middle of a save.
* *Ordering and time.* Answers nobody reads, challenges and sessions that expire
  on two clocks, no receive timeout on the device, messages counted after the
  session they belong to was replaced.

What makes each part correct is stated as the properties below; `PROJECT.json`
lists every hazard at its line with the properties that are about it.

## Modules

`TrustedApp` - the TA. One action per command as long as the command accesses
secure storage once; a command with several accesses is split there, `pc` and
`local` holding what it carries over (`sealIdentity`, `rereadIdentity`,
`pinServer`, `deriveKey`, `fetchSecret`, `sealSecret`). The session struct is one
function per field. Keys are names that are generated at most once, a signature is
the record of who signed what, a session key is the pair (device keypair,
challenge) that it is derived from. Phase 2 of the handshake reads the server's
share, nonce and key where they lie, in memory shared with the Host: once to
verify (`ta_handshake_complete`), once to pin (`PinServer`), once to derive
(`FinishHandshake`); in between the Host may rewrite them (`HostRewrites`), and
the history variables `steady` and `pinSteady` record whether it has. A command
that fails before it changed anything is a stuttering step. The environment loses
power at any time, wipes the storage disk while the device is off
(`run-project.sh` after a rebuild) and contains servers that sign the transcripts
of evidence they saw.

`SessionSpec` - the abstract specification of one device's session at the
server: install a fresh key, advance the high-water mark, end.

`AttestedLink` - the server's end: verifier, connection threads and TCP
connections as queues of lines, for one device id. Entries of different ids never
meet, but a connection may say hello for another id, known or not: every hello
binds the thread anew (`Bind`), and what a thread then does to the other device's
entries is left out. A thread's step ends where it takes or releases a lock, so the
key lookup with decryption (`on_data`), the seq check (`check_and_advance_seq`) and
the store of the samples (`StoreSamples`) are three steps, and verification and
installation two. Its client is arbitrary: any message, any time, repeated and
reordered, quotes that do not parse and sealed plaintexts that are no JSON or not
the object the code takes them for. What nobody catches ends the connection
(`Raise`), a line of no known type is answered (`OtherLine`). Expiry is a flag that
time sets and that the code looks at later, as `session_key` does. `Session ==
INSTANCE SessionSpec WITH ...` states that it implements the abstract one.

`EdgeDevice` - the Host's push loop composed with `AttestedLink`: the loop
replaces the arbitrary client. One step is one call that may block or that
touches the socket; of the TA it keeps the keypair in hand, the session key and
the counter. It has connection faults, failed attestations, reboots, expiries
and server restarts, each within a budget, and what TCP does to a line sent to a
peer that has closed. The Host says hello for its own id only and seals objects with
samples only, which the assumption `PlaintextsAssumption` says.

`DeviceRegistry` - server and reset CLI as two processes around one file. `_save`
is one step per system call (open, dump, replace, chmod); a process may be killed
or a call may fail between any two. Because both use the same temporary path, a
file that one holds open may be moved or overwritten by the other, which the
steps `dumpFile`, `dumpGone` and `Dumped` model; `overlap` records that two saves
were under way at once. `fresh` is the set of processes whose memory came from the
file as the last save left it. `calm` records that no two saves overlapped, that
none raised, and that no process that is not fresh has removed a device, added one
or confirmed one. A CLI beside a running server is calm, and so is its removal; what
is not is that server's next registration before it is restarted. What the file
promises about enrollments and removals is stated for calm behaviours, that it loads
at all for every behaviour without overlap.

`SensorLink` - sensor daemon, sensor link PTA and the part of Host and TA that
uses them. The UART towards the device is a sequence of bytes with the real frame
types and lengths, since what a late or foreign frame does is a matter of which
bytes the next three-byte header is read from. Nothing in the code escapes a
payload, so the bytes of `Secret` and `Hmac` are any (`PayloadAssumption`), those of
a header included; they are shortened to 5 bytes, which like 32 leave 2 over when
read in threes. `slipped` records that a command ended inside a frame on this
connection. The daemon writes header and payload separately and blocks when the
link is full. A second of time passes when the device waits; the daemon may be late
by a budget of seconds. One client of the TA runs at a time, as `run-project.sh`
starts them: first a run that only pairs, then the push loop.

`SensorUart` - two TA instances that pull the sensor's secret at once. The PTA is
registered as concurrent, so the two interleave at every byte written and at every
poll and read of the UART, in `uart_write`, `have_rx_data` and `getchar`; the
daemon answers whatever three bytes it reads as a header. It models the pull only;
the rest of the protocol is in `SensorLink`.

`Collection` - from a device link's buffer to an answer, with the attested or the
plain link as the configuration selects. A connection thread parses and dates a
message (`Parse`) and stores it under the lock later (`Store`); `collect` drains
the buffer into the bounded store in one step, because the event loop does not
suspend it. Readings are numbered, and their values are any of `Values`: the
sensor's counter wraps from 29 to 20. The attested device sends one integer per
message, dated by the server; the plain link takes any list of samples with any
timestamps, where `float()` accepts infinities and NaN. Those two are marks, `Inf`
and `NaN`, which `Recent` compares as Python does; a window that holds one is not
`Numeric`. `_weighted_avg` is computed for numeric windows, in integers, numerator
and denominator, with all weights scaled by n - 1; the rounding of floats and to
four digits and the aggregations that are one library call (mean, min, max, raw) are
left out. The window is a `FoldLeft` over the store, which the proofs can unfold.

`LiveFeed` - the page and the `/ws/collect` loop over `Collection`. The page's event
handlers are one action each, a socket is a slot with the state of the browser's
WebSocket and the window in its URL, and the close event of a socket arrives as a
later task, after its successor may be open. `collect_ws` collects before it
sends, so a loop whose page has gone drains the buffer once more. A window with an
infinity or a NaN may make a frame that the page cannot parse (`Answers`).
Connections drop and the server restarts.

`X_proofs` modules hold the theorems about `X`, and `Aggregate_proofs` those about the
weighted average of `Collection`.

`MC*` modules give TLC its instances; definitions whose names end in a
lower-case suffix after an underscore (`SeqSeen_strict`) are mutated forms of a
helper, used to confirm that a property can fail.

## Runs

| Run | Properties | What it shows |
|---|---|---|
| `trusted_app` | `TypeOK`, `ExportedIdentityIsSealed`, `KeypairSupersedesKey`, `KeyAgreedWithSigner`, `NoSequenceReuse`, `PinnedKeySigned`, `FirstWriteWins` | two TA instances over one storage, a Host that rewrites shared buffers |
| `attested_link` | `TypeOK`, `NoStaleOk`, `AcceptedOnce`, `ImplementsSession` | two connections, arbitrary client, hellos for other devices, unhandled exceptions, restarts |
| `edge_device` | `HostTypeOK`, `NewestKey`, `WaitsAreAnswered`, `GoneIsNotOk`, `Resyncs` | device and server together, safety and liveness |
| `registry` | `TypeOK`, `AckedIsDurable`, `RemovalTakesEffect`, `IdentityIsPinned`, `FileLoads` | both processes, failing system calls, kills anywhere |
| `sensor_link` | `TypeOK`, `SecretServedOnce`, `NothingMisread`, `ReadsAgain`, `Authenticates` | late answers, reboots, redials, Host restarts |
| `collection` | `CollectionTypeOK`, `CountedOnce`, `NewestSurvives`, `WeightsRankByRecency`, `FavoursRecent` | pushes and collects over either link |
| `live_feed` | `OneLiveSocket`, `ReachesScreen` | a page, its sockets and the server's loops, safety and liveness |
| `edge_device_reuse` | `ConnectionReused` | violated, see below |
| `edge_device_restart` | `KeepsRunning` | violated |
| `edge_device_seq` | `LastSeqIsOfThisKey` | violated |
| `sensor_link_backlog` | `NoBacklog` | violated |
| `sensor_uart` | `SealedIsTheSecret` | violated |

Deadlock is checked except where both processes share the registry file: there
they can leave a file that is not JSON, after which neither can load it and the
system stops; and in `sensor_uart`, which ends with its two commands.

### Where the code and its documentation disagree

* `ConnectionReused`: the device never reads the answers to its data messages.
  When the session expires it sends hello on the same socket and takes the first
  unread answer for the challenge; the attempt fails and a new connection is
  made. It recovers (`Resyncs`), but the socket is never reused as the comment in
  `edge_attest_to_server` says.
* `KeepsRunning`: `net_send_line` sends without `MSG_NOSIGNAL`. If the server
  restarts, the first line sent is lost and the next `send` raises SIGPIPE, which
  ends the process instead of reaching "will re-attest".
* `LastSeqIsOfThisKey`: a message decrypted under the old key may be counted
  against the session installed meanwhile, whose own messages up to that number
  are then refused.
* `NoBacklog`: the sensor sends a reading every 2 s and the push loop takes one
  every 3 s, so that readings pile up in the link even if nobody is late, and the
  device forwards ever older ones.
* `SealedIsTheSecret`: two instances that pull the secret at once take each other's
  bytes. The one that got the header can fill its buffer with the refusal frame
  meant for the other, and seals the mixture; sealed objects are never overwritten,
  so the device stays paired to a secret no sensor has.

The following were met while modelling and have no run of their own; the passing
properties state their exception instead.

* *Re-read buffers.* The comment at `trusted_app.c:532-540` explains why bytes that
  are signed must be copied first, and adds "authenticate_server() already works
  this way". It does not: it hashes the nonce and the share in the shared buffers,
  the pin is stored from the shared buffer of the server's key, and ECDH and HKDF
  read share and nonce once more. `KeyAgreedWithSigner` and `PinnedKeySigned`
  therefore promise the verified value for buffers that stayed as they were
  (`steady`, `pinSteady`), and otherwise only that the server signed some transcript
  of the keypair.
* *Rebound threads.* `attested_network.py:155-160` says that however a connection
  ends, no stale "ok" remains. The `finally` block writes the verdict of the id of
  the *last* hello: a connection that attested as one device and then said hello for
  another, or for one that is unknown, leaves the first one's "ok" in place.
  `NoStaleOk` excepts it (`rebound`). The project's own Host says hello for one id
  only, and with it there is no exception (`GoneIsNotOk`).
* *The CLI beside a running server.* `reset_registry.py:73-76`,
  `device_registry.py:47-48` and `reset-device-registry.sh:12` tell the admin to
  remove an entry and then restart the server. If the server registers any device in
  between, it saves its own copy, which still has the entry: after the restart the
  device is enrolled under its old keys, and the CLI's "removed" no longer holds. In
  the same way it undoes whatever else changed in the file. The sequence after a
  rebuild in the repository's `README.md:403-409` has the order reversed: the server
  is restarted in step 2 and the entry removed in step 3, so the server still has it,
  refuses the new keys of that device in step 4, and writes the old entry back when
  it registers another one. `RemovalTakesEffect`, `AckedIsDurable` and
  `IdentityIsPinned` include a CLI beside a running server and the restart after it,
  and except what a server that the CLI has overtaken does before it is restarted
  (`calm`).
* *Failed saves.* A record whose save failed stays in memory, so that the retry is
  answered "already registered" although nothing is on disk; the endpoint's answer
  then promises more than "Persistent store" holds. `calm` excepts it too.
* *Overlapping saves.* "written atomically" holds for one writer. Two processes in
  `_save` share the temporary file, and the registry can be left unreadable;
  `FileLoads` excepts that (`overlap`).
* *Timestamps that are no numbers.* `network.py:66` takes `inf` as a timestamp. It is
  in every window (`store.py:51`), makes the span and the weights infinite and the
  average NaN, which contradicts "strictly positive ... still ranking by recency"
  (`processing.py:64-66`). `WeightsRankByRecency` and `FavoursRecent` are about
  numeric windows, and `ReachesScreen` excepts feeds that are not.
* *Payloads that look like frames.* `read_frame` promises "false on ... a frame whose
  type doesn't match", but after a command that ended inside a frame the next one
  reads its header from payload bytes. A pull of the secret that finds a matching
  header there, about one chance in 2^24 per attempt, seals what follows it for good.
  `NothingMisread` excepts exactly such a pull (`slipped`); a reading cannot be
  misread even then.

The attested link's `collect` reports the last sample of the buffer as the current
reading, in the words of its comment the highest counter value. With a thread that
is overtaken between dating and storing its sample the last one is an older one
until the next message arrives; `FavoursRecent` holds nevertheless, because the
weights go by the timestamp and not by the position.

`ReadsAgain` holds by an accident of sizes: after a reading whose payload came too
late the following READs take its 6 bytes for two headers, fail, and are in step
again. A unit of two characters would leave the stream out of step. The comment at
`sensor_daemon.c:267-271` speaks of an overflowing FIFO; the model's link blocks the
writer instead, as the socket of the emulated UART does.

### Bounds

* `trusted_app`: two of everything (sessions, identity keys, ephemeral keys,
  challenges, servers, secrets), `MaxSeq` 2, one device id. Two instances are enough
  for every race on a storage object, two keys for a re-handshake, two servers for a
  pin mismatch or a rewritten key. All these sets are symmetric.
* `attested_link`: two connections, two challenges, `MaxSeq` 1, one line per
  direction and connection. Two threads and two keys make an old thread meet a new
  session; one line in flight suffices since the client sends any line next. The
  connections are symmetric, and `View` leaves out what no step and no property of
  the run reads, such as the contents of lines to the client.
* `edge_device`: two connections, because the device has one and the server may
  still hold the last one; 14 challenges, more than the budgets let the device
  ask for within one session; queues of four, so that unread answers pile up; one
  fault, one expiry and one server restart. Every budget is a named constant. A peer
  that vanishes without a reset is not among the faults: with no receive timeout the
  device would wait for ever, and `WaitsAreAnswered` speaks of connections both ends
  of which know their state.
* `sensor_link`: 4 seconds of lateness, enough for an answer to miss the 2 s of a
  header and again of a payload; two boots, three Host starts per boot, one
  connection after QEMU's, one push without a reading; a link that holds 27 bytes,
  three readings. The bytes are the worst: out of step, the secret reads as the
  header of a secret, one HMAC as an answer that is too long and the next as a
  reading that following bytes complete. `Authenticates` is about the behaviours in
  which nothing was late yet. `sensor_link_backlog` has no lateness, a link of 45
  bytes and the FIFO of 32 bytes.
* `registry`: two devices, two identities each, both processes, no other bound.
* `sensor_uart`: two instances and a secret of 5 bytes; the header and the refusal
  frame have their real 3 bytes.
* `collection`: two threads, so that one can be overtaken; a buffer of 2 and a store
  of 3 with 4 readings, so that both overflow; messages of up to 2 samples; the
  values 20 and 29, so that readings rise, fall and wrap; timestamps 0, 1, infinite
  and NaN; windows of 0 and 1 seconds on a clock that ticks once, so that samples
  have equal and different timestamps and leave the shorter window. The threads are
  symmetric; `View` leaves out the verdict, which no step and no property reads.
* `live_feed`: one thread, a buffer and a store of 1, 2 readings of one sample each,
  dated 0, 1 or infinite; two sockets, the current one and the one it replaced; one
  frame under way; two events out of selections, lost connections, restarts and
  ticks of the clock. Two are enough for a fault during the recovery from another.

### Fairness

`Resyncs` is checked under weak fairness of the push loop (`for (;;)` in
`main.c`, which blocks only in a receive), of each server thread
(`socketserver` runs every connection's loop in a thread of its own) and of the
device noticing that its deadline passed (`mono_now` advances). `ReadsAgain` and
`Authenticates` assume weak fairness of the daemon's loop, of the device and of
time; the Host is never assumed to start. `ReachesScreen` assumes weak fairness of
each handler of the page, of the reconnect timer and of each `collect_ws` loop: the
browser runs its tasks, the event loop its coroutines, and `asyncio.sleep` ends.
Nothing is assumed of the operator, of faults, expiries or restarts.

## Proofs

The `*_proofs` modules prove every invariant, action property and refinement that a
passing run checks, but for `NothingMisread`, for every value of the constants. The
constants' assumptions say that bounds are naturals, that sizes are not 0, that the
marker of an absent value is not one of the values, that `Inf` and `NaN` are no
integers, and that the page has a socket. `SensorAssumption` has two limits of the
encoding: a challenge is one of 99 numbers and a secret has at most 99 bytes.

* `TrustedApp_proofs`. All seven properties. `ExportedIdentityIsSealed` is inductive
  with `TypeOK` once `BusyIn` says that only open sessions have commands in
  progress (the disk wipe needs all sessions closed). `KeyAgreedWithSigner` and
  `PinnedKeySigned` need the other half of `BusyIn`: a session between verification
  and derivation still holds the keypair of which its server signed a transcript,
  and, if it is steady, the very buffers that were verified (`Authentic`).
  `NoSequenceReuse` needs `Fresh`: every sealed pair was sealed under a key derived
  from a generated keypair, no two sessions hold the same key material (`Holds`),
  and a key's pairs reach no further than the counter of the session that holds it;
  that holds whatever the Host rewrites, because the keypair is the TA's own. Lemma
  `StepKinds` says that a step takes key material from sessions (`Sheds`) or
  derives a key from it (`Derives`), or does neither.
* `AttestedLink_proofs`. `AcceptedOnce` and `ImplementsSession` rest on two inductive
  parts: `SingleUse` - a challenge that is pending, or held by a thread about to
  install it, was never installed and is held by no other thread - because
  challenges are popped; and `HighWater` - every accepted message of the stored
  key is at or below `last_seq`. `NoStaleOk` needs that an ok verdict implies a
  thread bound to the device, which will overwrite it when it ends, or a thread that
  was rebound (`OkHasThread`). `Refinement` maps every step of the server to a step
  of `SessionSpec` or a stutter, the high-water mark of an absent session read as 0.
* `EdgeDevice_proofs`. `DeviceIsAClient` shows that device and server together
  implement `AttestedLink`'s specification, so `AcceptedOnce` and
  `ImplementsSession` carry over (`SessionOfDevice`). `NewestKey` is about two
  machines and the lines between them: a key becomes the device's when the result
  arrives, long after the server installed it. `Offers` says that the challenges
  waiting for the device come in order and none is older than the one in hand or
  than any that was answered - sent, held by a thread or installed; `InHand` that
  nothing newer than the challenge in hand was answered. `WaitsAreAnswered` needs
  that an open connection has a thread and that the Host is connected wherever it
  waits (`Wired`, `HostTypeOK`), and `GoneIsNotOk` that this Host never rebinds a
  thread (`OneDevice`).
* `DeviceRegistry_proofs`. All five properties. What the file promises is not
  inductive, since a save leaves it behind the dictionary for three system calls.
  `Whole` relates temporary file and file at each of them while no save overlaps
  another, which is all that `FileLoads` needs. `Calm` adds, for the calm
  behaviours, that only fresh processes save, by which registration or removal a
  fresh dictionary is ahead of the file, and that the file has what was answered.
* `SensorLink_proofs`. `TypeOK` says that no frame exceeds the buffer it is read into,
  for any bytes in the stream, late and foreign frames included. `SecretServedOnce`
  needs `Served`: the window is open in the first connection only, also while the
  secret's header has been written and its payload has not. `Challenges` counts the
  challenges that the remaining starts can make, so that their numbers suffice.
* `Collection_proofs`. A reading is in one place - with a thread, in the buffer, in
  the store - and its number has been given out (`Once`, `Numbered`), from which
  `CountedOnce` follows by counting; `NewestSurvives` needs that something is in
  buffer or store once a reading was stored. A message may bring any number of
  readings; `BoundedFacts` and `BoundedReadings` say what a bounded deque keeps.
* `Aggregate_proofs`. What `_weighted_avg` computes over any window.
  `MapThenSumSet` and `FoldLeft` are recursive; their values are proved by induction
  in the form of sets (`NatInSet`: a set with 0 and with each number the next has all
  of them, from the least-number principle; `SetInSet` for finite sets), and the
  recursion is first shown to have a solution (`FoldExists`), without which its
  definition would mean nothing. `WeightsRank`: the span is positive also for equal
  timestamps, so every weight is, and their sum, in any window of numbers.
  `RecentFavoured`: every value is between the extremes, hence the average. Where
  values rise with time, weights and values rise together (`Together`), so
  Chebyshev's inequality bounds the average from below by the mean; where they fall,
  the same for the negated values (`SumNegated`).
* `LiveFeed_proofs`. `OneLiveSocket` is inductive with the types of the page's state.
  `PageCollects` shows that server and page together implement `CollectionSpec` - to
  the server the page is one more caller of `collect` - so all of the above holds with
  pages attached (`ReadingsOfPage`).

Only model-checked: liveness (`Resyncs`, `ReadsAgain`, `Authenticates`,
`ReachesScreen`), since fairness and `ENABLED` are out of the prover's reach;
`NothingMisread`, whose argument follows the bytes of one frame into the reads of the
next command; and the runs that end in a violation, which need no proof.

## Not modelled

* Cryptography, TLS and the parsing of TPM quotes: calls or pure functions without
  behaviour over time; they appear as symbolic predicates where they are used.
* The build, run and provisioning scripts, except for the reset after a rebuild
  (`WipeStorage` in `TrustedApp`, the CLI in `DeviceRegistry`, the boot in
  `SensorLink`) and the commands they run on the device: they start processes one
  after the other.
* The UI's rendering, the device list, and endpoints that only read.
* The test TAs, the on-target tests and the OP-TEE example, which are not part of the
  deployed system; self-registration, which is disabled in the source.
* In `SensorUart`: challenges and readings of a second instance, and the initialisation
  of the UART by two instances at once.

## Plan

1. Done: `TrustedApp`, `SessionSpec`, `AttestedLink`, `EdgeDevice`,
   `DeviceRegistry`, `SensorLink`, `SensorUart`, `Collection`, `LiveFeed`, and the
   proofs of their safety properties except `NothingMisread`.
2. Left: a proof of `NothingMisread` for all payloads, and proofs of safety facts that the liveness properties rest on - what the
   stream holds after a READ has failed (`ReadsAgain`), that the page always has a
   timer, a usable socket or a close event to come (`ReachesScreen`).
