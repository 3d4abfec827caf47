# A TLA+ verification project for the ONVIF reference runtime

This directory specifies, model-checks and partly proves the logic of the
repository: the ONVIF reference runtime in `src/onvif/samples/reference-runtime/`,
its native media worker, and the camera adapters in `src/onvif/samples/adapters/`.
Paths below are relative to the reference runtime unless they begin with
`adapters/`, `src/onvif` or `src/av`.

Contents: 1 inventory, 2 modules and how they correspond to the code, 3 runs and
bounds, 4 fairness, 5 proofs, 6 noticed while modelling, 7 what is not modelled,
8 plan.

## 1. Inventory

The repository holds two Web of Things specifications (`src/av`, `src/onvif`) and
the programs around them. Its own program logic, as opposed to specification
text, generated catalogs and vendored schemas, is the reference runtime and the
adapters:

| part | state | operations | talks to |
|---|---|---|---|
| media fan-out queue `src/media/queue.ts` | per-subscriber slots, byte counts, reference counts, ended/draining | publish, discard, end, resume, finish, iterate | called by the media session; its release callback returns IPC credit |
| media session `src/media/session.ts`, `process.ts` | state, generations, pending control, staged units, credits, END watermark, timers, close result | open, play, pause, seek, close; handlers of frames, exit and timers | five pipes and a process handle to the worker |
| native worker `native-media/src/worker.c`, `ipc.c` | main loop, control thread, credit window, outgoing queue, RTSP and EOS state | command loop, bus polling, streaming threads, RTSP callbacks | pipes to the session; GStreamer and the RTSP server |
| payload parsers `native-media/src/metadata.c`, `jpeg.c`, `terminal.c`, `options.c` | the unit being assembled, the sequence window, terminal position | one packet at a time; flush by a control | the worker's streaming threads |
| media executor `src/media/executor.ts`, `policy.ts`, `protocol.ts` | owned sessions, capacity | open, close | the runtime (to resolve a stream), sessions |
| managed pull point `src/events/pullpoint.ts` | subscription resource, lease, delivery queue, continuity label, promises | create, synchronise, renew, pull, recover, deliver, stop | the device (SOAP), the application's listener |
| event client `src/events/consumer.ts` | open subscriptions | subscribe, close | pull points, media metadata |
| binding runtime `src/binding/runtime.ts`, `multiplexer.ts` | tracked interactions, managed subscriptions, clients | consume, interact, subscribe, close | transports, event client |
| executor and transport `src/binding/executor.ts`, `transport.ts`, `src/security/*` | the attempt, the challenge, recent nonces | execute | the device over HTTP(S) |
| discovery `src/discovery/*` | devices with watermarks and states, requests, inspection queue, revision, snapshot file | receive, probe, inspect, commit, reconcile, persist, start, close | multicast sockets, SOAP inspections, a file |
| directory publisher `src/publication/publisher.ts`, `directory.ts`, `http.ts` | registrations with intent, etag and lease, in memory and in a file | preflight, list, reconcile, put, renew, retire, persist, start | a Thing Description Directory over HTTP |
| published files `src/publication/files.ts`, `models.ts` | owned documents, manifest, lock | start, save, publish a bundle | the file system |
| projection `src/publication/snapshot-adapter.ts`, `src/projection/project.ts`, `src/catalog/requirements.ts`, `conditions.ts` | none between calls | inventory to snapshot to Thing Descriptions | called by the bridge and the CLI |
| gateway bridge `src/bridge.ts` | life cycle | start, refresh, reconcile, publish, close | discovery, publisher |
| camera adapters `adapters/src/*.cjs`, `adapters/native/linux/worker.cpp` | one capture process, its subscribers, leases, profile | describe, open, control, configure, serve, stop | the capture process, HTTP clients |
| catalog compiler, XML mapping, specification tools | none between calls | translation of one input | - |

What is hard in it:

- **Concurrency.** The TypeScript is single-threaded but every `await` lets other
  handlers run: `stop()` arrives at any await of a pull point, `close()` while a
  session is being opened, announcements during an inspection or a save. The
  worker is threaded: the main loop, a control thread and GStreamer's streaming
  threads share the credit window and the assemblers.
- **Ordering.** Commands, control answers and media data travel on separate
  pipes; WS-Discovery messages are delayed, repeated and reordered; so are RTP
  packets.
- **Failure.** Workers crash, hang or lie; requests and answers are lost, served
  twice or served late; saves fail; the process dies between a durable intent and
  the write it announces.
- **Bounds.** Credits, queues, subscribers, concurrent inspections, sequence
  identifiers: each has a maximum and a policy at that maximum.
- **Time.** Leases, deadlines and late answers race each other.
- **Two readings of one rule.** The same request is validated in TypeScript and in
  C; what one half of the program publishes, the other must be able to consume.

What makes each part correct: the queue releases each unit once, in order, within
its bounds, and strands no reader; the session never crosses a control boundary
and neither leaks nor invents credit, and its close result claims only what
happened; a unit that leaves the receive path is whole and every loss is reported;
a pull point owns one remote resource, cleans up once, labels gaps honestly and
always stops; a call that says it was not executed was not; what is closed owns
nothing; discovery never verifies a device with what is older than an
announcement it accepted, never reads where the operator does not allow it, and
never loses quarantine or watermarks; the publisher always recognises what it
wrote, never touches what it did not, and leaves nothing behind; the gateway's
files agree with each other after any failure; a projection exposes exactly what
is evidenced. `PROJECT.json` lists the hazards line by line with the properties
that would catch them.

## 2. Modules and code

The action-to-line correspondence is the `map` of `PROJECT.json`. Each module's
head comment states its abstraction.

| module | models | kind |
|---|---|---|
| `UnitLedger` | what a queue owes its producer | abstract: held or given back, once |
| `MediaQueue` | `media/queue.ts` | implements `UnitLedger` (`LedgerSpec`) |
| `MediaPipes` | pipes and process handle shared by both sides | shared state of the link |
| `MediaSession` | `media/session.ts`, `process.ts` | one action per handler |
| `MediaWorker` | `worker.c`, `ipc.c` | three steps per turn of the main loop, plus threads |
| `MediaLink` | session and worker composed | root: `link_transfer`, `link_life` |
| `MediaLinkProofs` | theorems about the end of a session and the traffic | section 5 |
| `Payload` | `metadata.c`, `jpeg.c`, `terminal.c` and the RTP probe | one track under packet faults |
| `MediaOpen` | `policy.ts`, `protocol.ts`, `options.c`, track negotiation | one opening |
| `MediaInput` | `Payload` and `MediaOpen` side by side | root: `input` |
| `MediaProofs` | theorems about `MediaQueue` and about the opening and the packets of `MediaInput` | section 5 |
| `PullPoint` | `events/pullpoint.ts` and the device's subscription resource | root: `pull_point` |
| `Runtime` | `runtime.ts`, `multiplexer.ts`, `consumer.ts`, `media/executor.ts` | root: `runtime` |
| `SecurityPolicy` | `security/policy.ts`, `logical-endpoint.ts`, `digest.ts` | pure decisions |
| `SoapMessage` | `soap.ts`, `request.ts`, `username-token.ts` | pure decisions |
| `SoapExchange` | `executor.ts`, `transport.ts` and a device | one call, up to three attempts |
| `BindingProofs` | theorems about `SoapExchange` and `Runtime` | section 5 |
| `Requirements` | `catalog/requirements.ts`, `conditions.ts`, `mappings.ts` | pure |
| `ThingForms` | `registry.ts`, `operation-policy.ts`, `forms.ts`, `contracts.ts` | pure |
| `Projection` | `snapshot-adapter.ts`, `project.ts` | observations in any order |
| `NativeBinding` | `SoapExchange` and `Projection` side by side | root: `exchange` |
| `Discovery` | `engine.ts`, `inventory.ts`, the snapshot file | one identity, one seed |
| `DiscoveryMessages` | `policy.ts`, `protocol.ts`, `datagrams.ts` | pure |
| `Reception` | `receive()` and `observe()` over those | two segments |
| `DiscoveryEngine` | `Discovery` and `Reception` side by side | root: `discovery` |
| `DiscoveryProofs` | theorems about `DiscoveryEngine` | section 5 |
| `Inspection` | requests, native reads, liveness rounds, shutdown | root: `inspection` |
| `DeviceProofs` | theorems about `PullPoint` and `Inspection`, what is asked of one device | section 5 |
| `Publisher` | `publisher.ts`, `state.ts`, the Directory | root: `publisher` |
| `PublisherProofs` | theorems about `Publisher` | section 5 |
| `DirectoryClient` | `directory.ts`, `http.ts` | listing, preflight |
| `Gateway` | `bridge.ts`, `files.ts`, `models.ts`, extends `DirectoryClient` | root: `gateway` |
| `GatewayProofs` | theorems about `Gateway` | section 5 |
| `CapturePolicy` | checks of `backend.cjs`, `main.cjs` | pure |
| `CaptureWorker` | `NativeWorker` and the capture process | operators on one worker |
| `CaptureAdapter` | `backend.cjs`, `semantic.cjs`, `server.cjs`, `main.cjs` | root: `adapter` |
| `AdapterProofs` | theorems about `CaptureAdapter` | section 5 |

Three roots put two views side by side: a behaviour of `MediaInput`, `NativeBinding`
or `DiscoveryEngine` follows one of them, chosen in the initial state, because the
two share decisions or options and no state. In more detail:

**MediaQueue.** A unit is its number in publication order with a size; a slot is
its number in creation order. `references` and `released` are the closure
variables of `publish`, `taken` is a history of what a reader got. `Publish` is
the whole loop over the subscribers, with direct hand-over to waiting readers,
evictions (live) or the exception (recorded) that ends the loop half-way, and the
`finally` that drops the publisher's own reference. How a read settles (value,
done or error) and the gap counters are left out.

**MediaSession, MediaWorker, MediaLink.** Every handler of the session is one
action because it runs to completion. The worker's loop is cut where its threads
can interleave: reading a command, polling the bus, acknowledging. Sequence
numbers are kept for the requests that are answered; a CREDIT takes a number as
well, but no answer refers to it. All units have the same size, so the unit and
byte windows coincide. Assumptions: a pipe delivers whole frames in order; the
operating system reports the process's `close` after its pipes end; a kill may
fail; GStreamer sends one PLAY response per control. An EOS message stays on the bus
across a PLAY response, and `poll_bus()` gives its END the current generation, as in
`worker.c`; the model remembers which generation an EOS message is of (`eos`) and which
generations were given to the END of an older one (`relabelled`), for the properties
only. What is done under two mutexes is two steps: the accepting test and the reading
of the generation in `send_data()` (`SendCheck`, `SendData`), the acceptance of a PLAY
and the resumption of the queue (`PlayAccepted`, `ResumeIpc`). A failure may come
before OPEN is read (`"early"`).

**Payload.** The bytes of a packet are the pair of its unit and its position, so
"whole" and "one unit's own" are visible. Entering the probe and acting on the
packet are two steps, because a control may flush the track in between. Sequence
numbers wrap within the bound.

**MediaOpen.** One opening is three validations of the same request - Node's
policy, the worker's decoder, the session's test of READY - over small sets of
requests, trust policies and SDP answers. Node reads a URI with the WHATWG URL class,
the worker with `g_uri`; a URI of the model is the origin Node reads and what the
worker makes of it: the same, another spelling of it (an IPv6 address not written as
WHATWG would), or nothing (a stray `%`).

**PullPoint.** `phase` is the await the controller is in; a request and its effect
on the device are one step, taken when the reply or its loss is seen. `drain`
distinguishes a delivery loop that has exited from one whose promise callback has
cleared it, so the window of `pullpoint.ts:329-332`, in which a record is queued
and no loop is started, is part of the model. Byte sizes and lease times are
abstracted to whether a record fits and whether a lease holds.

**Runtime.** Each interaction, subscription and session is the await it is in. A
pull point is `PullPoint` seen from outside (created or not, its stop confirmed or
not), a media session is `MediaLink` seen from outside.

**SoapExchange, SecurityPolicy, SoapMessage.** `phase` is the stage of
`exchange()`; the device executes a request in flight at most once and possibly
after the caller gave up. Envelopes and payloads are abstracted to which test they
would fail. `ExchangeNext` takes any outcome of the pure decisions; `NativeBinding`
feeds the same actions with what the decisions can be over small Forms, trust
policies, Digest headers and tokens, so every step of its `CallNext` is a step of
`ExchangeNext`.

**Requirements, ThingForms, Projection.** Pure translations, written as operators
on records; what moves is the inventory they are applied to, observation by
observation, with failures and losses. The catalog is a small one with every case
the code tells apart.

**Discovery.** One identity and one provisioned seed. `points` is the history of
the device's (InstanceId, MetadataVersion) pairs; each change raises one of the
two by one. Any message consistent with the history may arrive at any time: delay,
reordering, repetition and loss are all there. One without an AppSequence has instance
0 and counts only before the device has been ordered or verified. `epoch` and `inspectionGeneration`
are only ever compared with a running inspection's token and are kept as that
token's `fenced` reason; `revision` is kept as two comparisons (`unsaved`,
`moved`). Timers and liveness rounds are verdicts that any reconciliation may
reach. A snapshot that could not be read is never written (`boot = "unread"`). A
lock file left by a crash is assumed to be removed by the operator
(`src/onvif/support/notes/onvif-discovery.md:259`).

**Reception.** Which datagrams are believed: interface, sender, segment, request
correlation, deduplication, endpoint and scope policy; then where a read would be
sent. Addresses are a few bits. Options and interfaces may change at a restart,
which restores stored provenance. A seed that answers has its address stored as an
endpoint of the device (`InspectSeed`), and a stored seed outlives the options it came
from: `seeds` keeps it as it was first provisioned, `answered` is the history of which
device answered for which seed on which segment.

**Inspection.** What is outstanding: sends with their retransmissions, reads with
their deadlines, pages of an inventory, liveness rounds, the typed and the untyped
probe, bounded shutdown. Neither a send nor a read need ever settle.

**Publisher.** `pc` is the await `reconcileThing()` is in; `mem` and `durable` are
the registration in memory and in the state file; `wire` holds requests not served
yet, so that a request whose answer was given up may be served, at once, later or
never. A producer document is the observation it was made from and whether it is
marked stale. `overtaken` marks histories in which a given-up write is served
after a later request: the code cannot recognise those, and the properties that
exclude them say so. `expired` marks those in which the own registration expired
between two requests of one reconciliation that rely on it. Time counts ticks, `Second` of them to a second, because TTLs
are whole seconds and the check after a write tolerates one.

**DirectoryClient, Gateway.** The listing pages through a collection that others
change; the preflight runs its probe registration against a Directory with at most
one defect. In file mode a write may fail before or after its rename, and the
process may crash between any two awaits; a hash is the revision that first had
the content.

**CapturePolicy, CaptureWorker, CaptureAdapter.** Promise callbacks run in the turn
that settled the promise, so an action is one event of the process, of a timer or
of HTTP with all the code it resumes. The capture process may hang, fault, write to
stderr, die or end without a truthful receipt.

## 3. Runs and bounds

Every configuration has the name of the run's module, except the two of
`MediaLink`.

| run | configuration | checks | distinct states |
|---|---|---|---|
| `queue` | `MediaQueue.cfg` | `ReleasedOnceUnheld`, `Bounded`, `NoReaderStranded`, `SlotsExact`, `LedgerSpec`, `RecordedKeepsUnits` | 241 k |
| `link_transfer` | `MediaLinkTransfer.cfg` | `NoProtocolFailure`, `CreditConserved`, `GenerationsSeparate` | 4.07 M |
| `link_life` | `MediaLinkLife.cfg` | `CloseHonest`, `NeverReopened`, `CallsSettle` | 674 k |
| `input` | `MediaInput.cfg` | `OpenAgreed`, `UnitsWhole`, `LossReported` | 5.34 M |
| `adapter` | `CaptureAdapter.cfg` | `CameraReleased`, `SnapshotsAccounted`, `AdapterSettles` | 147 k |
| `exchange` | `NativeBinding.cfg` | `CertaintyHonest`, `CallSecured`, `ProjectionHonest`, `NeverFlips` | 1.67 M |
| `runtime` | `Runtime.cfg` | `OwnershipReleased`, `ClosesSettle` | 135 k |
| `inspection` | `Inspection.cfg` | `ListComplete`, `OutstandingBounded`, `RetirementJustified`, `WorkSettles` | 406 k |
| `discovery` | `DiscoveryEngine.cfg` | `InspectionsSound`, `Durable`, `NothingForgotten` | 1.08 M |
| `pull_point` | `PullPoint.cfg` | `CleanupHonest`, `DeliveryHonest`, `StopSettles` | 551 k |
| `publisher` | `Publisher.cfg` | `OwnershipRecognised`, `EntriesEnd`, `ForeignUntouched` | 3.14 M |
| `gateway` | `Gateway.cfg` | `TargetsBelieved`, `NothingAfterClose`, `BridgeSettles` | 232 k |

What each property says is stated above its definition; what a run shows is its
`about` in `PROJECT.json`. Why the bounds are enough for the cases of interest:

- *queue*: two subscribers at a time and three slots ever, so that a slot can be
  detached and replaced; four units with sizes 1, 2 and 4 against 2 units and 3
  bytes, so that a unit evicts one or two others and one never fits.
- *link_transfer*: three requests are OPEN, a control, and a control or CLOSE after
  it, so the answers of two controls and two generations of data overlap; two
  units against a queue of one exhaust the credits; the stream may end before, during
  and after a control, so that its EOS message is polled in the next generation. Of the
  faults only an abort and a failure before OPEN: the product with the life cycle is
  out of reach.
- *link_life*: every fault but an abort, in recorded mode, with one PAUSE or CLOSE after OPEN
  and one unit: what matters is the order of failures, deadlines and answers.
- *input*: units of up to three packets, two units, one network fault and one
  control: loss inside, before and after a unit, and a control at each step of the
  probe; header and wire limits so small that they are met.
- *adapter*: two HTTP connections, two readers and one further user; the
  `Scenarios` pair faults with the second user, and take HTTP, control and
  configuration apart, since these only meet through the queue of the session.
- *exchange*: two realms and two nonces suffice to tell a repeated from a changed
  challenge; the attempts are bounded by the code. Two services and two
  observations give an observation before, after and instead of another.
- *runtime*: two of each kind and three sessions against a capacity of two.
- *inspection*, *discovery*: sets of features that act on the same state; their
  full product is out of reach. Two changes of the device give reboot after
  reconfiguration and the reverse, each also with the seed and with two inspections at
  once (pairwise: the theorems hold for every set); three liveness rounds exceed the two that retire
  a device; one repeated or late message per kind reaches every order.
- *pull_point*: three events against a delivery queue of two overflow it; two
  restarts give three generations of the resource; every fault is enabled.
- *publisher*: three reconciliations over four instants, with one crash and one
  foreign write: enough for publish, change or renew, retire and the recovery of
  each. A second is two ticks, so that a lease can end between whole seconds.
- *gateway*: three entries with one per page, so that an entry can be added or
  removed on either side of the cursor; one defect, one failed write and one
  restart; two revisions, so that an old and a new document coexist.

Deadlock checking is off in all runs: a closed session, subscription or engine
stops, and the environment is bounded. That nothing stops too early is the
business of the liveness properties.

For each property there is a mutant in `PROJECT.json`: a plausible bug in the
modelled code, written as an operator beside the definition it replaces, under
which TLC finds the property violated. No run expects a violation.

## 4. Fairness

Liveness is claimed only of what the code itself drives; remote parties, workers
and consumers may stay silent for ever unless the code bounds its wait for them.

- `MediaLink!FairSpec`: the session's own timers fire (`OpenDeadline`,
  `ControlDeadline`, `EndDeadline`, `CloseDeadline`), and the operating system
  eventually reports the exit of a process that was killed (`Exited(FALSE)`).
  Nothing is assumed of the worker, of the pipes or of the consumer.
- `PullPoint!FairSpec`: the controller, whose every await is a request with a
  deadline; the return of a listener that is not waiting for its own `stop()`
  (`boundedCallback`); the promise callback that clears a finished delivery. A
  listener that does await `stop()` is not assumed to return by itself.
- `Runtime!FairSpec`: every await of the runtime's own work ends, because each is
  a request with a budget or the close of something that settles (`CallsSettle`,
  `StopSettles`).
- `Gateway!FairSpec`: the steps of the bridge, of the preflight and of each batch
  of file writes; a request ends with an answer or its timeout.
- `Inspection!InspectSpec`: windows expire, read deadlines fire, the fallback probe is
  made, a settled read is processed, and the shutdown goes on. Sends and reads are
  not assumed to settle.
- `CaptureAdapter!Spec`: what a process has written is read, its request and close
  timers fire, a child that ends or is killed is reported, HTTP answers and bodies
  end, the server starts or fails, the run command ends when told to. That the
  process writes anything is not assumed.

`queue`, `link_transfer`, `input`, `exchange`, `discovery` and `publisher` check
safety and step properties only and state no fairness.

## 5. Proofs

### The fan-out queue

`MediaProofs` (about 5600 obligations in all) proves, from `QueueAssumption` alone
(positive bounds and unit sizes, as the constructor of the queue validates them),
for every value of the constants:

- `TypeCorrect`: `Spec => []TypeOK`;
- `ReleaseExactlyOnce`: `Spec => []ReleasedOnceUnheld`, the reason for the module:
  the media session returns one credit per release;
- `SlotsBounded`: `Spec => []Bounded`;
- `ReadersServed`: `Spec => []NoReaderStranded`;
- `QueueInvariant`: `Spec => []IInv`, from which the four above follow;
- `LedgerImplemented`: `Spec => LedgerSpec`, the queue implements `UnitLedger`;
- `RecordedNeverEvicts`: `Spec => RecordedKeepsUnits`, an action property;
- `ReadersInOrder`: what a reader was given, with what is queued for it, ascends in
  publication order;
- `SlotsAlwaysExact`: `Spec => []SlotsExact`, that order and an exact byte count in
  every slot, within its bound.

`ReleasedOnceUnheld` is not inductive. A release happens when a counter reaches
zero, so the counter must equal the number of slots that hold the unit
(`CountExact`); dropping an entry lowers that number by exactly one only if a slot
holds a unit at most once, which follows from the strict order of its entries
(`Ordered`); and a detached slot must hold nothing, or it would count for ever
(`DetachedEmpty`). `NoReaderStranded` needs that an open slot is attached
(`OpenAttached`), or a read on it could wait for a publisher that does not know
it. `IInv` is the conjunction of these with the four properties. The core of the
argument is `RelinquishExact` (any set of holders may let go at once and the
releases stay exact) with `DetachSlots` for everything that detaches, and
`FanoutInv` for `publish`, which evicts, hands over, queues and drops its own
reference in one step. `AppendRest` is the fact about sequences behind it.

The refinement needs no mapping of its own: `IInv` holds before and after a step, so
`released` counts 0 or 1 on both sides according to who holds the unit (`SlotStep`),
and what the step changes is one accepted unit and a set of returned ones, which is
what `Ledger!Move` says. `RecordedNeverEvicts` follows the publisher through one
subscriber after the other (`Pushed`, `PushedOnto`): also when it throws half-way, an
entry that a recorded slot held is still there.

The byte count of a slot is kept by additions and subtractions, and `Bytes` is a fold
over its entries, of which the prover knows nothing. `BytesAre` shows that the fold is
the number of pairs of an entry and a byte of it (`Weight`), for which the theorems on
cardinality hold: a slot weighs what its oldest entries and the others do
(`BytesSplit`, by moving the pairs of the others down, `WeightShifted`), and one entry
more adds its size (`BytesAppend`). Every step then only keeps a slot, empties it, or
takes entries off at the front and puts one on at the end, with the same numbers
(`WeightMove`, `QueueMoves`); that a slot handed out later starts at zero is
`DetachedEmpty` again.

### An opening

`MediaProofs` proves about `InputSpec` of `MediaInput`, for every request, every trust
policy, every sequence of media lines and every choice of the server:

- `OpensAlwaysAgreed`: `InputSpec => []OpenAgreed`, both ends agree on what is opened;
- `InputInvariant`: `InputSpec => []InputInv`, from which it follows.

`OpenAgreed` compares the READY that the session accepted with the request it had
checked, and with the stream that feeds each track, at the end of a chain of seven
steps. `OpenInv` says what each end holds on the way. `Written`: what is on the pipes
is what the session wrote for a request it has validated and authorised, so that what
`options.c` tests again is known to hold as long as both read the same origin in the
URI; `ValidatorsAgree` says that a refusal has no other reason, and that no camera is
asked when they do not. `Selected`: a track is a
stream of the description that answers to its number, every track of a READY was
acknowledged, and no control of the description leaves the scope of the policy.
`Pads` is the part that is easily missed: a pad is matched by its payload type alone, and
goes to the first track with that type, which may not be its own. The track it belongs
to is then `Waiting`, and for ever, since a second pad of the type ends the session; so
that when every track has a pad, each has its own.

### The packets of a track

`MediaProofs` also proves about `InputSpec`, for every bound on the packets, the units,
the buffers and the queue, every number of faults and every order of steps:

- `UnitsAlwaysWhole`: `Unwrapped` implies `InputSpec => []UnitsWhole`, what leaves a
  track is whole and its own;
- `UnitInvariant`: `Unwrapped` implies `InputSpec => []UnitInv`, from which it follows;
- `LossesReported`: `InputSpec => LossReported`, an action property: a document in
  assembly that is given up is reported, unless the packet repeats the last one
  (section 6), without any hypothesis.

`Unwrapped` says that the camera sends fewer packets than there are sequence numbers
of RTP, and answers at most 256 plays. It is a hypothesis about the size of a
behaviour, not about the code, and the code needs it: `metadata.c` and `jpeg.c` know a
successor by `(last + 1) % 2^16` alone, so that a loss of exactly 65536 packets inside
a document is not seen by them, and the replay extension carries eight bits of the
CSeq, so that a packet delayed over 256 plays counts as one of the play in progress. A
theorem without the hypothesis would be false. The initial sequence number is the one of the model, two
before the wrap, so that a wrap is inside what is proved.

The assembler never sees a unit as such; it sees numbers, and the XML guard would
accept a document whose middle is missing. `UnitInv` therefore speaks of all packets
that are anywhere (`Around`: under way, in the probe, in the queue, in the assembler and
in the header reader) and says of any two of them what their numbers tell: one whose
number follows the other's is the next packet of the same unit or the first of another
(`Linked`), and none is ahead of the camera (`Past`). Then a document in assembly that
has one beginning is a prefix of one unit (`DocumentInv`), the headers of a frame are
those of its packets so far (`FrameInv`), and what is queued of a recorded stream began
in the play in progress (`TerminalInv`), which is why a flush before every PLAY is
enough to keep an old end from ending the new stream. `CameraInv` bounds the numbers so
that none is used twice; `RewriteExact` is the fact about sequences that makes an image
carry every header once and every native segment that no header overrides.

`LossesReported` needs of the assembler only that a document in assembly is not at the
same time one that is being discarded (`AssemblyInv`). `PushReported` follows
`media_metadata_push` through its early returns (`Noted` the SSRC and the sequence
number, `Wired` the bytes) and says of each what it has told when the document is gone.

### A native call

`BindingProofs` (about 900 obligations) proves about `ExchangeSpec`, for every set of
realms, every number of nonces and every input of every step:

- `CertaintyTrue`: `ExchangeSpec => []CertaintyHonest`, the promise of
  `binding/errors.ts` on which every caller's retry rests;
- `RequestsComplete`: `ExchangeSpec => []CredentialsComplete`, nothing is sent
  without the credentials of every scheme of the Form;
- `ChallengesNotReplayed`: `ExchangeSpec => []NoReplay`;
- `ExchangeInvariant`: `ExchangeSpec => []IInv`, from which the others follow.

`CertaintyHonest` speaks of finished calls and is not inductive. `WirePhase` adds
that a call which may still be repeated has nothing on the wire and was not
executed; `AnswerTrue`, that while an answer is awaited it says the truth about the
execution, so that a 401 or a Sender fault means "not executed" and a result means
"executed once"; `ClassifySound` is the fact about `exchange()` that a response is
called a result only if it confirms and a rejection only if it refuses.
`RequestsComplete` rests on `Gathered` (which phase has collected which
credential), `ChallengesNotReplayed` on `Answers` (the challenges signed so far
are those of the earlier attempts). The device's contract - a refusal means that
nothing was executed, a confirmation that the call was - is part of the model
(`Serve`), not of the code: a device that breaks it makes any certainty untrue.
The theorems are about `ExchangeSpec` and not `BindingSpec`, since the modules of
the projection use recursive operators; each call step of `NativeBinding` is one of
`ExchangeNext` with inputs from its small universes.

### The directory publisher

`PublisherProofs` proves about `Spec` of `Publisher`, from `PublisherAssumption`
(positive policy times, known faults), for every set of contracts, every fault and
every bound:

- `OwnershipAlwaysRecognised`: `Spec => []OwnershipRecognised`;
- `ForeignNeverTouched`: `Spec => ForeignUntouched`, an action property;
- `EntriesAlwaysEnd`: `Spec => []EntriesEnd`;
- `PublisherInvariant`: `Spec => []IInv`, on which the three rest.

`OwnershipRecognised` compares the Directory with the state file at every instant,
so the invariant must say what may still reach the Directory. `InSight`: until a
request is given up on the wire, at most one request is there, it is the awaited
one, and its intent was saved before it was sent. `Known`: what the Directory holds
is the producer or the intent of the state file and, in a live process, of memory.
`Undisturbed` adds, without another client and without an expiry between two requests
of one reconciliation (`Quiet`), that the entry stays the one that was read until the
write is served, so that every condition holds and no conflict arises; `Renewal`, that a
PATCH goes out only while the entry holds the very document that is wanted, so that
extending its lease leaves just that. `Conditional` is about foreign entries and holds for requests
given up as well: an etag that was read from an own entry, or that waits on the
wire as a condition, is never the etag of a foreign entry, because each write gets
a larger one. `EntriesEnd` needs a second invariant, `Settling`: a registration
without an intent claims nothing untrue (`Honest`) as long as nothing is out of
sight, and what `retire()` found missing stays missing. The theorems say nothing
after a write that was given up is served late (`overtaken`); that is the exception
the properties name, not one of the proof.

### The media link

`MediaLinkProofs` (about 6100 obligations) proves about `Spec` of `MediaLink`, from
`LinkAssumption` (a positive window, finite numbers of commands and units), in every mode. For every set of `Faults`:

- `CloseResultTrue`: `Spec => []CloseHonest`, the promise of `close()`;
- `ClosingIsFinal`: `Spec => NeverReopened`, an action property;
- `CloseInvariant`: `Spec => []CloseInv`, from which the first follows;
- `NothingRejected`: `Spec => []NoProtocolFailure`, the tests with which either side checks the
  other one fail only in the two cases named below;
- `CreditsConserved`: `Spec => []CreditConserved`;
- `GenerationsApart`: `Spec => []GenerationsSeparate`;
- `LinkInvariant`: `Spec => []IInv`, from which the three follow.

`CloseHonest` compares the result with the server and the exit of the process, and is
made true two or three messages earlier. `Stages` follows how a session on the server
comes about (an `OPEN` was sent, the worker opened, its SETUP went out), so that
"not-created" is true when no `OPEN` was sent. `LastWord` says that a `CLOSED` frame in
the pipe is the only one, of a process that has left its main loop, and true of the
server; `ReceiptTrue` says it of the receipt the session took, and `ResultTrue` carries
it to the result. `Settled` is what `beginClose()` leaves behind, which no late frame
may undo.

For the traffic the invariant says where everything is. `Numbers` and `Opening` relate
the counters of both sides. `Controls` is the core: the control the session awaits (or
abandoned when it closed) is at exactly one of four places - `Sent`, `Taken` by the
worker's control thread, `Accepted` by the server, `Answered` - and each place fixes
the generations, the thread and the paused flag of the worker; between controls both
sides agree. `CommandsFit` and `AnswersFit` bound what is in the two pipes. `UnitsFit`
orders the units under way and `UnitsKept` the ones the session staged or handed out.
`Credits` counts the whole window: credits of the worker, units in its queue and in the
pipe, units outstanding at the session, grants on their way back. It is whole while
both sides run, and never exceeded after that. `Ends` says of every `END` - in the pipe
or already accepted - that no unit of its generation behind its watermark is left or
will be sent, unless the generation is one that was relabelled. From these follows that no test rejects (`NoRejection`, with the lemmas
`FirstFrame` to `CommandAccepted` for each test), which the other parts need in turn:
a side that had failed would stop in the middle of a control.

Two exceptions are part of the properties, because the code behaves so (section 6). If
an EOS message of the old generation still waits on the GStreamer bus when a `PLAY` is
accepted, `worker.c` labels its `END` with the new one: `GenerationsSeparate` then does
not say that nothing follows that `END`, and `NoProtocolFailure` not that the session
accepts what does. And a worker that fails before it has read OPEN reports session 0,
which the session calls a protocol violation. A session that has failed in one of
these ways stops in the middle of a control, so the invariant distinguishes what holds
while it runs from what holds in any case; `CreditsConserved` has no exception.

### The runtime

`BindingProofs` also proves `OwnershipAlwaysReleased`,
`Spec => []OwnershipReleased`, from `RuntimeAssumption`, for any sets of interactions,
subscriptions and sessions and any capacity. The property speaks of a closed runtime;
its invariant `RInv` says who knows what at each stage of the shutdown. `Drained`:
whatever is tracked when `close()` is called is waited for, and nothing is tracked
later. `Owners`: a subscription on a device has an owner that still knows it, or is
among the errors that will be reported. `Working`: the workers that run are those of
the sessions between start and close, within the capacity, and the executor accepts no
session once it closes.

### The pull point

`DeviceProofs` (about 3700 obligations) proves about `Spec` of `PullPoint`, from
`PullAssumption`, for every capacity, number of events, restart budget, option and set
of faults:

- `CleanupAlwaysHonest`: `Spec => []CleanupHonest`, which excepts the listener's own
  `stop()` after an attempt of `recover()` to release the resource has failed
  (`release()` does not try again, `pullpoint.ts:439`, `458`);
- `DeliveryAlwaysHonest`: `Spec => []DeliveryHonest`;
- `PullInvariant`: `Spec => []IInv`, from which both follow.

`Ownership` says in which phases of the controller a usable resource exists and that a
restart is counted before its resource; `Resources` says what there is on the device
for each generation, past, present and future; `Ending` relates the two promises of a
subscription to its errors. For the delivery, a record's label is decided when it is
pulled and judged when it is logged, so the invariant follows the chain through its
three places: the log, the record being delivered and the queue (`Chain`, with
`ChainFrom` and `Follows`). `Label` says which label the next record must carry, which
needs to know that the device's inbox holds its newest events without a hole (`Inbox`).
`Accounted` is about loss: what was accepted is delivered, waiting, or diagnosed.

### The discovery engine

`DiscoveryProofs` (about 2900 obligations) proves about `Spec` of `DiscoveryEngine`, for
every number of SequenceIds, messages, changes, crashes and every scenario:

- `SavedIsOnDisk`: `Spec => []Durable`;
- `NothingIsForgotten`: `Spec => NothingForgotten`, an action property;
- `InspectionsAlwaysSound`: `Spec => []InspectionsSound`, from its two halves
  `InspectionsStayCurrent` (`InspectionsCurrent`, of the inventory) and
  `TargetsAlwaysGrounded` (`TargetsGrounded`, of the datagrams);
- `DiscoveryInvariant`: `Spec => []IInv`, from which all but the last half follow.

`Durable` is not inductive: that a revision counts as saved when a write succeeds is
right only if nothing moved since the snapshot was taken (`Saves`). A crash replaces the
inventory by the file, so that nothing is forgotten needs an order on records (`Kept`)
and three of them: what the disk holds is at most the snapshot under way, and that at
most the memory (`Ascending`). An unreadable file is the exception and is never written
to. `InspectionsCurrent` rests on `Sound`, which holds of all three records because each
may become the inventory, and on `Inspections`: a report that no fence has stopped is as
new as the latest announcement the inventory accepted. `Waiting` keeps the queue and the
stages of its jobs together.

`TargetsGrounded` has an invariant of its own, `RInv`, for any number of restarts and
messages: every segment an endpoint is recorded with is one the device named it on, or
one on which it answered for a seed with that address (`EndpointsTold`, with `Grounds`),
which is a fact about all runs of the engine, while its approval is
one about the present options (`EndpointsAllowed`) and holds after a restart only
because `restore()` approves anew. A repeated message adds where it was heard, so that
what is remembered must have been genuine (`Remembers`). The options, the hosts and the
datagrams are the sets of `Reception`; the proof does not look into them, but for what
`ValidateOptions` and `ParseDiscovery` test.

### The gateway

`GatewayProofs` (about 3250 obligations) proves about `Spec` of `Gateway`, for every
set of Directory contracts and defects, other clients' entries, revisions, faults,
crashes and changes:

- `TargetsAlwaysBelieved`: `Spec => []TargetsBelieved`, what the gateway believes of
  the Directory and of its files is so;
- `NothingOutlivesClose`: `Spec => []NothingAfterClose`;
- `GatewayInvariant`: `Spec => []GatewayInv`, from which both follow.

Of the Directory, `Gathered` says what a listing has collected: on a Directory that
shows its revision, as long as that has not moved, exactly the entries ranked before
the next offset, so that the last page completes one moment's collection. `Probed`
says where the probe is at each await of `preflight()`, and `Excluded` which defects
the steps so far rule out: a preflight that passes has excluded all that the contract
is about. `Removable` says that the probe is left behind only if a request was lost.

Of the files, `FilesConsistent` speaks of disk and manifest, and the manifest is saved
a step later than the document. `Passed` says that the documents a publication has
passed are on disk, which makes the index it writes last truthful. `Current` relates
the entries in memory to the disk: the next save makes official what was written last,
except a document that a crash has cut off (`orphaned`). `Alone` keeps two batches of a
bundle apart. `Closing` says what each stage of `close()` has already ended and what
cannot start behind it.

### Inspections

`DeviceProofs` also proves about `InspectSpec` of `Inspection`, from
`InspectionAssumption` (positive bounds), for every bound and every scenario:

- `OutstandingAlwaysBounded`: `InspectSpec => []OutstandingBounded`;
- `ListsComplete`: `InspectSpec => []ListComplete`;
- `RetirementsJustified`: `InspectSpec => RetirementJustified`, an action property;
- `InspectionInvariant`: `InspectSpec => []InspectionInv`, from which the three follow.

The number of sends bounds nothing by itself, because a retransmission is not admitted
again. `Outstanding` therefore bounds the sends left behind plus the *open* requests:
admission, which asks that fewer than `MaxRequests` requests are open and fewer than
`MaxRequests` sends under way, is the only step that raises the sum; an end trades one
for the other; a retransmission leaves it alone. `Shutdown` says that an engine that
closes has no open request and reads nothing, so that what each step of the shutdown
counts can only shrink afterwards. `Rounds` relates the device's failed rounds to the
history `missed`: a counted round is not after the last one evaluated, so the next one
is new, and a confirmed timeout is one of a read that was handed to the adapter. An
inspection that a Bye or a departure superseded commits nothing. `Paging` is about one inventory: as
long as it is paged on, nothing that the device gave was left out and no token had two
contents; the page that ends it decides for good.

### The camera adapters

`AdapterProofs` (about 3100 obligations) proves about `Spec` of `CaptureAdapter`, from
`CaptureAssumption` and `AdapterAssumption`, for every set of connections and readers,
every limit, configuration and scenario, and any number of frames, probes and profile
changes:

- `CameraAlwaysReleased`: `Spec => []CameraReleased`;
- `SnapshotsAlwaysAccounted`: `Spec => []SnapshotsAccounted`;
- `AdapterInvariant`: `Spec => []AdapterInv`, from which both follow.

The two assumptions say that limits are positive, that frames have positive sizes, of
which there is at least one, and that a server has finitely many connections.

The hard part is one worker and its process. Packets that the process has written and
the parent has not read, commands it has not read yet, a kill and a deadline are under
way at the same time, so `Sound` describes a worker with everything that is in its two
pipes: the hello comes first and is read once (`Greeted`), one request is unread, answered
once or lost with its process, and only answers of its own kind are under way (`Talk`),
nothing is awaited of a worker that closes (`Closes`), and whatever receipt is in the
pipe or was taken from it is the one the process ended with (`Receipted`). Each function
of the parent (`Shutdown`, `Kill`, `Fail`, `Enqueue`, `Reject`, `Receive`, `Finish`) and
each move of the process keeps `Sound`, stated as a lemma of its own. `Tracked` ties a worker to its
caller: the caller is in `active` exactly while its process has started and has not been
seen to finish, which is what keeps a second process from being started. `RunInv`
follows the run command: when the acquisition can begin, that a stopped run has waited
for it, and that `"closed"` was an honest outcome when it was set and stays one.

The leases are a sum over a set of connections. `SumSizes` is a fold, and the prover
knows nothing of folds; `SumSizesIs` shows that it is the number of pairs of a
connection and a unit of its size (`Weight`), for which a disjoint union adds up by
the theorems on cardinality. Releasing each lease at most once then keeps the total
(`ReleasedLeases`), and `CacheInv` keeps the cached frame within what is left.

### Only model-checked

Of `CallSecured` the parts about `SelectSecurity` and `SelectDigestChallenge`, and
`ProjectionHonest` and `NeverFlips` (recursive functions over data). Liveness under
fairness and what recursive definitions compute for every input are outside the reach of
the prover and stay with TLC.

## 6. Noticed while modelling

Behaviours of the code met while translating it. They are kept in the models, or
lie in the parts left out; none is stated as a property, and the properties that
would otherwise exclude them say so in their comments. Where a note or a test says
otherwise it is named.

*Media.*
- An EOS polled after a PLAY response is labelled with the new generation
  (`worker.c:137`, `1313-1319`; `src/onvif/support/notes/onvif-media.md:156-160`: END
  carries its generation and is never relabelled). It ends the new stream, and the
  units that follow are a protocol violation to the session. `relabelled` marks these
  histories; without that exception TLC finds `NoProtocolFailure` and
  `GenerationsSeparate` violated in `link_transfer`.
- END may name a sequence number that a control has flushed (`worker.c:1318`,
  `ipc.c:216-231`, `session.ts:599-605`; `onvif-node-media.md:169-171`, `222-223`);
  the session then waits for its watchdog.
- A worker that fails before it has read OPEN reports session 0 (`worker.c:1654-1664`),
  which a session that has sent OPEN takes for a protocol failure (`session.ts:380-384`).
- A backchannel packet may be on its way when the control has been acknowledged
  (`worker.c:595-603`, `session.ts:634`; `onvif-node-media.md:198`).
- Two tracks with one payload type end in `DuplicateDynamicTrack`
  (`worker.c:1025`). The RTP probe may label a sender report with track 4, which the
  decoder of the envelope refuses. A raw RTP header can push a packet past the wire
  limit that its payload observed. A duplicate and an expiry in one metadata
  document are not reported. The loss of the first packet of an ONVIF-JPEG frame
  fails the session. A streaming thread that has passed the accepting check can push
  into the assembler after a control has reset it.
- An abort reports "not-sent" although the call that resolves the stream may have
  been sent. An IPv6 host is normalised in TypeScript and not in C, and a `%` without two
  digits is an error only to `g_uri` (`policy.ts:36-52`, `options.c:96-129`): such a
  request passes Node's checks and is refused by the worker.

*Events and binding.*
- A lost Unsubscribe of `recover()` counts as done: the subscription ends "failed",
  not "uncertain" (`pullpoint.ts:439`; `onvif-events.md:158-159`, `166`).
- `create()` sets "active" even after `stop()` (`pullpoint.ts:261`); a batch pulled
  while `stop()` arrives is dropped without a gap diagnostic (`413`); an error
  listener that awaits `stop()` waits until its timeout (`478`).
- The undo of a failed subscription leaves its owner's entry (`consumer.ts:143`); the
  multiplexer's set of clients only grows (`multiplexer.ts:89`).

*Discovery.*
- A seed's inspection takes its token only when its report has arrived
  (`inventory.ts:509`, `engine.ts:392-396`; `onvif-discovery.md:152`,
  `engine.test.cjs:245`).
- A seed whose name is given another address, or another expected identity, at a later
  start is read at the new address (`engine.ts:389-397`), but its old address becomes
  the endpoint and its old expectation is what is checked (`inventory.ts:480`,
  `491-508`); `onvif-discovery.md:130-132` calls the expected EPR a check. The address of
  a seed that is no longer configured stays an endpoint of the device.
- A superseded inspection requeued into a full queue is lost until the next
  reconciliation (`engine.ts:321`). One that the device answered does not reset its
  failed rounds, and a device that returns keeps `suspectSince` and its failed
  rounds, so the next reconciliation may retire it again (`inventory.ts:321-326`,
  `469`).
- Outstanding sends may reach `2 * maxPendingRequests - 1`, since retransmissions
  are not admitted again (`engine.ts:225`).
- A failing send of one segment rejects `probe()`, and `schedule()` then skips its
  reconciliation (`engine.ts:418-420`). A typed request refused by the limit counts
  as "no match" and triggers the untyped probe. Reads cancelled by the inspection's
  own deadline, and a runtime timeout shorter than the read timeout, never count as
  failed liveness.
- A repeated message adds provenance before any correlation (`engine.ts:187`,
  `inventory.ts:187-205`); stored provenance keeps the interface of an older
  configuration (`engine.ts:363-367`). A lock left by a crash must be removed by the
  operator.

*Publication and gateway.*
- The publisher's own registration may expire between two requests of a
  reconciliation, and its ID is then quarantined for good (`publisher.ts:112`, `224`);
  `onvif-runtime.md:104-105` calls unknown producer changes conflicts, and
  `publisher-leases.test.cjs:177` expects an expiry to keep the ID. `QuarantineJustified`
  names this cause (`expired`).
- A failed save in the error path of one Thing aborts the batch (`publisher.ts:113`).
  A lost answer during preflight leaves the probe behind (`directory.ts:348`).
- A crash between the rename of a document and the save of the manifest leaves a file
  nobody owns (`files.ts:220`); the check of a document and its rename are two steps
  (`214-220`).
- The bridge is "running" before its initial publication, so that `reconcile()` may
  overlap it (`bridge.ts:130-131`, `168`); "failed" may follow "closed" (`83`).

*Projection.*
- `validatePolicy()` accepts security selections that `selectSecurity()` refuses
  (`project.ts:215-246`, `policy.ts:100`): the Forms are published and the runtime
  refuses the whole description (`ProjectionHonest` names the exception). It accepts
  duplicate overrides of a namespace, which throw only
  when a Form of that service is exposed. A duplicate resource identity of one device
  makes `adaptInventory()` throw for all (`snapshot-adapter.ts:137`), and so does an
  event policy for a device without pull points.
- `adaptInventory()` never fills `supportedOperations` or the operations of resources,
  so the resource descriptions of an inventory have no Forms. A group threshold out
  of range only warns when the index is loaded (`requirements.ts:441`).

*Adapters.* A worker's fault that is answered after an abort turns the close result
into "failed".

## 7. Not modelled

- *Media*: the byte-level decoder of frames and envelopes (`ipc.ts`; a pipe is assumed
  to deliver whole frames in order), diagnostics, backchannel audio,
  one-credit-write-at-a-time (`creditWriting`), the construction of the GStreamer pipeline, the registry of codecs.
- *Events*: decoding of notifications, clock offsets, the reduction of the request
  limit (only the number of negotiations).
- *Binding and security*: XML codecs; cryptography, which is abstracted to what it is
  computed over.
- *Discovery*: the opening of sockets, the XML of requests, the validation of a stored
  snapshot, the bounds on provenance and claims, registry evidence.
- *Publication*: a batch of several Things in one Directory; canonical JSON and
  hashing, which are abstracted to identity of content.
- *Projection, CLI*: the text of the generated documents.
- *Adapters*: device access, control values, the canonical form of evidence, the
  Windows worker beyond its gap and end answers.
- *Catalog compiler, XML mapping, specification and publication tools*: sequential,
  character-level translation of one input, without state that outlives a call;
  a model would be the transliteration of a parser.

## 8. Plan

In order of importance, what a next extension would add:

1. The batch of a publisher: several Things, a failed save in the error path of one.
2. The frame decoder (`ipc.ts`) against a reference over every chunking of a few short
   frames.
3. Backchannel audio and its race with the acknowledgement of a control.
