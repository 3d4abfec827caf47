--------------------------- MODULE CaptureAdapter ---------------------------
(****************************************************************************)
(* The camera adapter: CaptureBackend, CaptureSession (backend.cjs), the    *)
(* SemanticAdapter and its pump (semantic.cjs), the HTTP server             *)
(* (server.cjs) and the run command (main.cjs), over the NativeWorker of    *)
(* CaptureWorker.                                                           *)
(*                                                                          *)
(* One run command serves snapshots of one camera while another user of     *)
(* the same backend probes the camera with describe().  Promise callbacks   *)
(* run in the turn of the event loop that settled the promise, so an action *)
(* is one event (a packet, a timer, a signal, the exit of the child, an     *)
(* HTTP event) together with all the code it resumes.                       *)
(****************************************************************************)
EXTENDS CaptureWorker, CapturePolicy, FiniteSets, FiniteSetsExt

CONSTANTS Conns,            \* HTTP connections
          Readers,          \* holders of a snapshot token
          MaxQueuedBytes, MaxQueuedFrames, MaxSubscribers,
          MaxDescribes,     \* bound: probes by the other user
          MaxProfiles       \* bound: calls of configureProfile

ASSUME AdapterAssumption ==
  /\ {MaxQueuedBytes, MaxQueuedFrames, MaxSubscribers} \subseteq Nat \ {0}
  /\ {MaxDescribes, MaxProfiles} \subseteq Nat
  /\ IsFiniteSet(Conns)   \* a server accepts one connection after the other

VARIABLES
  phase,          \* what each caller of the backend awaits
  active,         \* CaptureBackend.active
  config,         \* the configuration: request, permission, grants, seconds, kind of refresh
  evidence,       \* CaptureBackend.cache for the target
  fault,          \* the fault that ended pump(): "none", "cancelled" or "fault"
  closeReason,    \* CaptureSession.closeReason
  sequence,       \* CaptureSession.sequence
  mode,           \* SemanticAdapter.modeId: that of the session, or another one
  cache,          \* SemanticAdapter.cache: size, mode and freshness of the last frame, or NoFrame
  inFlight,       \* SemanticAdapter.inFlight
  inFlightBytes,
  conn,           \* the handler of each connection and its lease
  server,         \* the HTTP server
  main,           \* the run command
  aborted,        \* controller.signal.aborted
  outcome,        \* what pump() returned
  describes, profiles

backend == <<phase, active, evidence, config>>
pumpVars == <<fault, closeReason, sequence, outcome>>
leases  == <<inFlight, inFlightBytes, conn>>
vars    == <<worker, scenario, backend, pumpVars, mode, cache, leases, server, main, aborted, describes, profiles>>

NoFrame == [size |-> 0, mode |-> None, fresh |-> FALSE]
NoLease == [phase |-> "idle", reader |-> None, size |-> 0, released |-> TRUE]

\* The configuration of a run, and what may be wrong with it when the scenario
\* is about configurations.
Camera   == [backend |-> "linux-v4l2", scope |-> BackendScopes["linux-v4l2"], selector |-> "exact",
             permits |-> TRUE, identity |-> "camera"]
Maxima   == [width |-> 2]
Approved == [target |-> Camera, mode |-> "m", digest |-> "d", output |-> "JPEG", duration |-> 2, limits |-> Maxima]
Mode     == [width |-> 2, cadence |-> [numerator |-> 30, denominator |-> 1]]
Evidence == [identity |-> "camera", kind |-> "operator-supplied", digest |-> "d", modes |-> [m |-> Mode]]
Good     == [request |-> Approved, permission |-> Approved, evidence |-> Evidence, seconds |-> 2,
             granted |-> {"publication", "device-access", "acquisition"}, refresh |-> "native-read-only"]
Configs ==
  IF "config" \notin scenario THEN {Good}
  ELSE {[Good EXCEPT !.request.target = t, !.permission.target = t] :
          t \in {[Camera EXCEPT !.backend = b] : b \in DOMAIN BackendScopes} \cup {[Camera EXCEPT !.selector = "pattern"]}}
       \cup {[Good EXCEPT !.request.mode = n, !.permission.mode = n] : n \in {"m", "other"}}
       \cup {[Good EXCEPT !.request.limits.width = n] : n \in 0..2}
       \cup {[Good EXCEPT !.request.duration = n, !.seconds = n] : n \in {0, 1, 3, 31}}
       \cup {[Good EXCEPT !.evidence.modes.m.cadence.denominator = n] : n \in {2, 7}}
       \cup {[Good EXCEPT !.evidence.identity = i] : i \in {"camera", "other"}}
       \cup {[Good EXCEPT !.granted = g] : g \in SUBSET Good.granted}

Init ==
  /\ scenario \in Scenarios
  /\ worker = [s \in Callers |-> NoWorker]
  /\ phase = [s \in Callers |-> "idle"]
  /\ config \in Configs /\ active = {} /\ evidence = config.evidence
  /\ fault = None /\ closeReason = None /\ sequence = 0 /\ outcome = None
  /\ mode = "session" /\ cache = NoFrame
  /\ inFlight = [r \in Readers |-> 0] /\ inFlightBytes = 0
  /\ conn = [c \in Conns |-> NoLease]
  /\ server = "down" /\ main = "init" /\ aborted = FALSE
  /\ describes = 0 /\ profiles = 0

-----------------------------------------------------------------------------
(* The callers of a worker.                                                 *)

Set(s, w)   == worker' = [worker EXCEPT ![s] = w]
Await(s, p) == phase' = [phase EXCEPT ![s] = p]

\* A request that was answered with an error, rejected or refused: describe()
\* and open() shut the worker down and wait for its exit; next() closes the
\* session, and pump() makes the snapshot unavailable and waits likewise.
\* A caller that waits for the exit already is not affected.
Rejected(s, w, code) ==
  /\ Set(s, IF phase[s] \in {"hello", "reply", "next"} THEN Shutdown(w) ELSE w)
  /\ Await(s, CASE phase[s] = "next" -> "draining"
                [] phase[s] \in {"hello", "reply"} -> "failing"
                [] OTHER -> phase[s])
  /\ IF phase[s] = "next"
     THEN /\ fault' = code /\ cache' = NoFrame
          /\ closeReason' = IF closeReason = None THEN "source-fault" ELSE closeReason
     ELSE UNCHANGED <<fault, cache, closeReason>>
  /\ UNCHANGED <<active, evidence, config, sequence, outcome, main>>

\* CaptureBackend: one worker at a time.
Free == active = {}

\* describe() with a native refresh: the worker is spawned and the request
\* waits for its hello.
Describe ==
  /\ describes < MaxDescribes /\ "describe" \in scenario /\ phase["describe"] = "idle" /\ Free
  /\ MayDescribe(config.request.target, config.refresh, config.granted)
  /\ describes' = describes + 1
  /\ active' = active \cup {"describe"}
  /\ Set("describe", Spawned) /\ Await("describe", "hello")
  /\ UNCHANGED <<evidence, config, pumpVars, mode, cache, leases, server, main, aborted, profiles, scenario>>

\* open() after its checks, or refused: cancelled, not
\* permitted, busy or other evidence.
Open ==
  IF ~aborted /\ Free /\ MayOpen(config.granted, config.request, config.permission, evidence, Maxima)
  THEN /\ active' = active \cup {"open"}
       /\ Set("open", Spawned) /\ Await("open", "hello") /\ main' = "opening"
  ELSE main' = "stopping" /\ UNCHANGED <<worker, phase, active>>

\* The hello resumes request(); its budget may be spent by then.
ReceiveHello(s) ==
  /\ Delivers(s) /\ Head(worker[s].out).kind = "hello"
  /\ LET w  == Receive([worker[s] EXCEPT !.out = Tail(@)], Packet("hello"))
         op == s
     IN  \/ /\ ~Busy(w) /\ ~(s = "open" /\ aborted)
            /\ Set(s, Enqueue(w, op, FALSE)) /\ Await(s, "reply")
            /\ UNCHANGED <<active, evidence, config, pumpVars, cache, main>>
         \/ /\ s = "open" /\ aborted
            /\ Rejected(s, Enqueue(w, op, TRUE), "cancelled")
         \/ Rejected(s, Fail(w), "fault")
  /\ UNCHANGED <<mode, leases, server, aborted, describes, profiles, scenario>>

\* SemanticAdapter.accept(): a frame that does not fit beside the leases is
\* dropped and the last one kept.
Accepted(p) ==
  IF p.size + inFlightBytes <= MaxQueuedBytes
  THEN [size |-> p.size, mode |-> mode, fresh |-> TRUE] ELSE cache

\* next(): the sequence numbers rise, and the JPEG's own dimensions are those of
\* the mode.
ValidFrame(p) == p.seq > sequence /\ p.jpeg = "mode"

\* CaptureSession.next() has a frame, a gap or the end; pump() hands the frame
\* to the adapter and asks for the next one, or closes the session.
Pumped(w, p) ==
  CASE p.kind = "end" \/ (p.kind = "frame" /\ (~ValidFrame(p) \/ mode # "session")) ->
         /\ Set("open", Shutdown(w)) /\ Await("open", "draining")
         /\ fault' = IF p.kind = "end" THEN None ELSE "fault"
         /\ closeReason' = IF closeReason # None THEN closeReason
                           ELSE IF p.kind = "frame" /\ ~ValidFrame(p) THEN "source-fault" ELSE "pump-ended"
         /\ cache' = NoFrame
         /\ UNCHANGED <<active, evidence, config, sequence, outcome, main>>
    [] OTHER ->
         /\ Set("open", Enqueue(w, "next", FALSE))
         /\ cache' = IF p.kind = "frame" THEN Accepted(p) ELSE cache
         /\ sequence' = IF p.kind = "frame" THEN p.seq ELSE sequence
         /\ UNCHANGED <<phase, active, evidence, config, fault, closeReason, outcome, main>>

\* open() has its answer: the session and its pump start, unless the
\* duration has already passed.
Opened(w) ==
  \/ /\ Set("open", Enqueue(w, "next", FALSE)) /\ Await("open", "next")
     /\ main' = "serving"
     /\ UNCHANGED <<active, evidence, config, pumpVars, cache>>
  \/ Rejected("open", w, "fault")

\* A packet after the hello: a receipt, the answer to a request that was
\* rejected meanwhile, or the answer that resumes the caller.
ReceivePacket(s) ==
  /\ Delivers(s) /\ Head(worker[s].out).kind # "hello"
  /\ LET p == Head(worker[s].out)
         w == Receive([worker[s] EXCEPT !.out = Tail(@)], p)
     IN  IF p.kind \in Receipts \/ ~worker[s].live
         THEN Set(s, w) /\ UNCHANGED <<backend, pumpVars, cache, main>>
         ELSE
           CASE p.kind = "fault"    -> Rejected(s, w, "fault")
           [] p.kind = "evidence" ->
                /\ Set(s, Shutdown(w)) /\ Await(s, "closing")
                /\ UNCHANGED <<active, evidence, config, pumpVars, cache, main>>
           [] p.kind = "opened"   -> Opened(w)
           [] OTHER               -> Pumped(w, p)
  /\ UNCHANGED <<mode, leases, server, aborted, describes, profiles, scenario>>

\* fail(): the start or request deadline, output on stderr, a broken pipe, or
\* a child that could not be spawned.
WorkerFails(s) ==
  /\ Alive(worker[s]) /\ ~worker[s].killed /\ ~worker[s].finished /\ "faults" \in scenario
  /\ Rejected(s, Fail(worker[s]), "fault")
  /\ UNCHANGED <<mode, leases, server, aborted, describes, profiles, scenario>>

RequestTimer(s) ==
  /\ ~worker[s].killed /\ ~worker[s].finished
  /\ worker[s].live \/ phase[s] = "hello"
  /\ Rejected(s, Fail(worker[s]), "fault")
  /\ UNCHANGED <<mode, leases, server, aborted, describes, profiles, scenario>>

CloseTimer(s) ==
  /\ worker[s].timer /\ ~worker[s].killed
  /\ Set(s, Kill(worker[s]))
  /\ UNCHANGED <<backend, pumpVars, mode, cache, leases, server, main, aborted, describes, profiles, scenario>>

\* The status that pump() returns for the close result and its own fault.
PumpStatus(ok, f) ==
  IF ok /\ (f = None \/ (f = "cancelled" /\ (aborted \/ closeReason = "duration-expired")))
  THEN "closed" ELSE "failed"

\* The close event of the child, after its output was read or given up:
\* finish(), and then whoever waited for the exit leaves the backend.
Closed(s) ==
  /\ worker[s].child = "exited" /\ ~worker[s].finished
  /\ worker[s].out = <<>> \/ worker[s].killed
  /\ LET w  == Finish(worker[s])
         ok == w.status = "closed"
     IN  /\ Set(s, w) /\ Await(s, "idle")
         /\ active' = active \ {s}
         /\ CASE s = "describe" ->
                   /\ \E d \in {"d", "changed"} :
                        evidence' = IF phase[s] = "closing" /\ ok
                                    THEN [evidence EXCEPT !.digest = d, !.kind = EvidenceKind(config.request.target.backend)]
                                    ELSE evidence
                   /\ UNCHANGED <<pumpVars, cache, main>>
              [] s # "describe" /\ phase[s] \in {"hello", "reply", "failing"} ->
                   main' = "stopping" /\ UNCHANGED <<evidence, pumpVars, cache>>
              [] OTHER ->
                   LET f == IF phase[s] = "next" THEN "fault" ELSE fault
                   IN  /\ fault' = f /\ cache' = NoFrame
                       /\ closeReason' = IF closeReason = None THEN "source-fault" ELSE closeReason
                       /\ outcome' = PumpStatus(ok, f)
                       /\ UNCHANGED <<evidence, sequence, main>>
  /\ UNCHANGED <<config, mode, leases, server, aborted, describes, profiles, scenario>>

\* CaptureSession.expiry: close("duration-expired") rejects the pending next().
Expire ==
  /\ phase["open"] = "next" /\ ~worker["open"].closing
  /\ fault' = "cancelled" /\ closeReason' = "duration-expired" /\ cache' = NoFrame
  /\ Set("open", Shutdown(worker["open"])) /\ Await("open", "draining")
  /\ UNCHANGED <<active, evidence, config, sequence, outcome, mode, leases, server, main, aborted, describes, profiles, scenario>>

-----------------------------------------------------------------------------
(* SemanticAdapter and the HTTP server.                                     *)

\* configureProfile(): frames of the old mode are given up.
ConfigureProfile ==
  /\ profiles < MaxProfiles /\ "control" \in scenario /\ profiles' = profiles + 1
  /\ mode' = IF mode = "session" THEN "other" ELSE "session"
  /\ cache' = NoFrame
  /\ UNCHANGED <<worker, backend, pumpVars, leases, server, main, aborted, describes, scenario>>

\* The clock passes maxSnapshotAgeMs.
FrameAges ==
  /\ cache.fresh
  /\ cache' = [cache EXCEPT !.fresh = FALSE]
  /\ UNCHANGED <<worker, backend, pumpVars, mode, leases, server, main, aborted, describes, profiles, scenario>>

\* What the middleware makes of a request with this token for this path; a
\* refusal is answered at once and changes nothing.
Route(token, path) ==
  CASE path = "snapshot" /\ token \in Readers -> "snapshot"
    [] path = "action" /\ token = "control"   -> "control"
    [] path \in {"td", "model"} /\ token = "control" -> "document"
    [] OTHER -> "refused"

Ready(c, s) == server = "ready" /\ s \in scenario /\ conn[c].phase = "idle"

\* acquireSnapshot() for a GET with a reader's token.
Acquire(c, r) ==
  /\ Ready(c, "http") /\ Route(r, "snapshot") = "snapshot"
  /\ cache # NoFrame /\ cache.fresh
  /\ inFlight[r] = 0
  /\ Cardinality({q \in Readers : inFlight[q] # 0})
       < (IF MaxSubscribers < MaxQueuedFrames THEN MaxSubscribers ELSE MaxQueuedFrames)
  /\ inFlightBytes + 2 * cache.size <= MaxQueuedBytes
  /\ inFlight' = [inFlight EXCEPT ![r] = cache.size]
  /\ inFlightBytes' = inFlightBytes + cache.size
  /\ conn' = [conn EXCEPT ![c] = [phase |-> "reading", reader |-> r, size |-> cache.size, released |-> FALSE]]
  /\ UNCHANGED <<worker, backend, pumpVars, mode, cache, server, main, aborted, describes, profiles, scenario>>

\* The bytes of the leases of some connections.
SumSizes(cs) == MapThenSumSet(LAMBDA c : conn[c].size, cs)

\* variant: release() is not idempotent.
ReleasedAgain(cs, next) ==
  /\ inFlight' = [r \in Readers |-> IF \E c \in cs : conn[c].reader = r THEN 0 ELSE inFlight[r]]
  /\ inFlightBytes' = inFlightBytes - SumSizes(cs)
  /\ conn' = [c \in Conns |-> IF c \in cs THEN [conn[c] EXCEPT !.phase = next[c], !.released = TRUE] ELSE conn[c]]

\* release() of the leases of the connections cs, each at most once.
Released(cs, next) ==
  LET now == {c \in cs : ~conn[c].released}
  IN  /\ inFlight' = [r \in Readers |-> IF \E c \in now : conn[c].reader = r THEN 0 ELSE inFlight[r]]
      /\ inFlightBytes' = inFlightBytes - SumSizes(now)
      /\ conn' = [c \in Conns |-> IF c \in cs THEN [conn[c] EXCEPT !.phase = next[c], !.released = TRUE] ELSE conn[c]]

Becomes(c, p) == [d \in Conns |-> IF d = c THEN p ELSE conn[d].phase]

\* The property read is done: the response is written, unless the peer has
\* gone, which ends the handler through its catch branch.
PropertyRead(c) ==
  /\ \/ conn[c].phase = "reading" /\ conn' = [conn EXCEPT ![c].phase = "writing"] /\ UNCHANGED <<inFlight, inFlightBytes>>
     \/ conn[c].phase = "gone" /\ Released({c}, Becomes(c, "idle"))
  /\ UNCHANGED <<worker, backend, pumpVars, mode, cache, server, main, aborted, describes, profiles, scenario>>

\* The response is finished, closed by the peer or destroyed by the write timer.
ResponseEnds(c) ==
  /\ conn[c].phase = "writing"
  /\ Released({c}, Becomes(c, "idle"))
  /\ UNCHANGED <<worker, backend, pumpVars, mode, cache, server, main, aborted, describes, profiles, scenario>>

PeerGone(c) ==
  /\ conn[c].phase = "reading"
  /\ Released({c}, Becomes(c, "gone"))
  /\ UNCHANGED <<worker, backend, pumpVars, mode, cache, server, main, aborted, describes, profiles, scenario>>

\* A control request: readBody() and then the action's answer, an abort or
\* the body deadline.
ControlRequest(c) ==
  /\ Ready(c, "control") /\ Route("control", "action") = "control"
  /\ conn' = [conn EXCEPT ![c] = [NoLease EXCEPT !.phase = "body"]]
  /\ UNCHANGED <<worker, backend, pumpVars, mode, cache, inFlight, inFlightBytes, server, main, aborted, describes, profiles, scenario>>

BodyEnds(c) ==
  /\ conn[c].phase = "body"
  /\ conn' = [conn EXCEPT ![c] = NoLease]
  /\ UNCHANGED <<worker, backend, pumpVars, mode, cache, inFlight, inFlightBytes, server, main, aborted, describes, profiles, scenario>>

-----------------------------------------------------------------------------
(* The run command.                                                         *)

\* run starts the server when the cached evidence has the configured mode.
Run ==
  /\ main = "init"
  /\ MayRun(config.granted, config.seconds, config.request.target, evidence, config.request.mode)
  /\ main' = "starting" /\ server' = "starting"
  /\ UNCHANGED <<worker, backend, pumpVars, mode, cache, leases, aborted, describes, profiles, scenario>>

\* startServer() succeeds, and acquisition is opened if it is allowed, or it
\* fails and has cleaned up.
ServerStarts ==
  /\ main = "starting"
  /\ \/ server' = "ready" /\ Open
     \/ /\ server' = "ready" /\ main' = IF aborted THEN "stopping" ELSE "serving"
        /\ UNCHANGED <<worker, phase, active>>
     \/ server' = "closed" /\ main' = "stopping" /\ UNCHANGED <<worker, phase, active>>
  /\ UNCHANGED <<evidence, config, pumpVars, mode, cache, leases, aborted, describes, profiles, scenario>>

\* SIGINT, SIGTERM or the timer of the run: the pending request of the session
\* or of open() is rejected; one that waits for the hello notices later.
Abort ==
  /\ ~aborted /\ main \in {"starting", "opening", "serving"}
  /\ aborted' = TRUE
  /\ IF worker["open"].live /\ phase["open"] \in {"reply", "next"}
     THEN /\ Set("open", Shutdown(Reject(worker["open"])))
          /\ Await("open", IF phase["open"] = "next" THEN "draining" ELSE "failing")
          /\ IF phase["open"] = "next"
             THEN /\ fault' = "cancelled" /\ cache' = NoFrame
                  /\ closeReason' = IF closeReason = None THEN "source-fault" ELSE closeReason
             ELSE UNCHANGED <<fault, cache, closeReason>>
     ELSE UNCHANGED <<worker, phase, fault, cache, closeReason>>
  /\ main' = IF main = "serving" THEN "stopping" ELSE main
  /\ UNCHANGED <<active, evidence, config, sequence, outcome, mode, leases, server, describes, profiles, scenario>>

\* The finally block: the acquisition is awaited, then the server closed with
\* all its connections.
RunEnds ==
  /\ main = "stopping" /\ phase["open"] = "idle"
  /\ main' = "stopped" /\ aborted' = TRUE
  /\ server' = "closed"
  /\ LET open == {c \in Conns : conn[c].phase # "idle"}
     IN  Released(open, [c \in Conns |-> IF conn[c].phase \in {"reading", "gone"} THEN "gone" ELSE "idle"])
  /\ UNCHANGED <<worker, backend, pumpVars, mode, cache, describes, profiles, scenario>>

-----------------------------------------------------------------------------
Process(s) ==
  /\ \/ ProcessHello(s) \/ ProcessDescribe(s) \/ ProcessOpen(s) \/ ProcessNext(s) \/ ProcessClose(s)
     \/ ProcessDies(s)
  /\ UNCHANGED <<backend, pumpVars, mode, cache, leases, server, main, aborted, describes, profiles, scenario>>

Killed(s) ==
  /\ worker[s].child = "dying" /\ ProcessDies(s)
  /\ UNCHANGED <<backend, pumpVars, mode, cache, leases, server, main, aborted, describes, profiles, scenario>>

Next ==
  \/ \E s \in Callers : \/ Process(s) \/ ReceiveHello(s) \/ ReceivePacket(s) \/ WorkerFails(s)
                        \/ RequestTimer(s) \/ CloseTimer(s) \/ Closed(s)
  \/ Describe \/ Expire
  \/ ConfigureProfile \/ FrameAges
  \/ \E c \in Conns : \/ \E r \in Readers : Acquire(c, r)
                      \/ PropertyRead(c) \/ ResponseEnds(c) \/ PeerGone(c) \/ ControlRequest(c) \/ BodyEnds(c)
  \/ Run \/ ServerStarts \/ Abort \/ RunEnds

\* Timers fire, events are dispatched, a killed process ends, in-process
\* promises settle; the capture process and the peers owe nothing.
Fairness ==
  /\ \A s \in Callers : /\ WF_vars(ReceiveHello(s)) /\ WF_vars(ReceivePacket(s)) /\ WF_vars(RequestTimer(s))
                        /\ WF_vars(CloseTimer(s)) /\ WF_vars(Closed(s)) /\ WF_vars(Killed(s))
  /\ \A c \in Conns : WF_vars(PropertyRead(c)) /\ WF_vars(ResponseEnds(c)) /\ WF_vars(BodyEnds(c))
  /\ WF_vars(ServerStarts) /\ WF_vars(RunEnds)

Spec == Init /\ [][Next]_vars /\ Fairness

-----------------------------------------------------------------------------
\* The camera has at most one process: while a child of the backend lives, no
\* other is started (CaptureBackend.active is given back only after the exit
\* of the child), the evidence that an acquisition was opened for is not
\* replaced during it, and a run that has stopped leaves no child and no lease.
OneCamera ==
  /\ Cardinality({s \in Callers : Alive(worker[s])}) <= 1
  /\ \A s \in Callers : Alive(worker[s]) => s \in active
  /\ Alive(worker["open"]) => "acquisition" \in config.granted /\ evidence.digest = config.request.digest
  /\ main = "stopped" => ~Alive(worker["open"]) /\ inFlightBytes = 0

\* A close result claims no more than the process did: "closed" only if it
\* ended by itself with a clean receipt and answered no request with a fault,
\* "released" only if it released the camera; and pump() reports "closed" only
\* for a run that was stopped, that expired or that came to the end.
ReceiptHonest ==
  /\ \A s \in Callers : LET w == worker[s] IN
       /\ w.status = "closed" => w.code = 0 /\ w.end = "clean" /\ ~w.torn
       /\ w.resources = "released" => w.end \in {"clean", "stop-failed"}
  /\ outcome = "closed" => worker["open"].code = 0 /\ (fault = None \/ aborted \/ closeReason = "duration-expired")

\* The camera is one process's at a time and is given back as reported.
CameraReleased == OneCamera /\ ReceiptHonest

\* The leases are accounted for exactly, one for each reader, and together
\* with the cached frame they fit the memory that the limits allow; a frame
\* that can be served is of the configured mode and of a running acquisition.
SnapshotsAccounted ==
  /\ \A r \in Readers : LET held == {c \in Conns : ~conn[c].released /\ conn[c].reader = r} IN
       Cardinality(held) <= 1 /\ inFlight[r] = SumSizes(held)
  /\ inFlightBytes = SumSizes({c \in Conns : ~conn[c].released})
  /\ cache.size + inFlightBytes <= MaxQueuedBytes
  /\ cache # NoFrame => cache.mode = mode /\ phase["open"] = "next"

\* Every run that is told to stop stops, every describe() settles and every
\* snapshot is given back, whatever the capture process and the peers do.
AdapterSettles ==
  /\ aborted ~> main = "stopped"
  /\ \A s \in Callers : phase[s] \in {"hello", "reply", "closing", "failing", "draining"}
                          ~> phase[s] \in {"idle", "next"}
  /\ \A c \in Conns : ~conn[c].released ~> conn[c].released

=============================================================================
