---------------------------- MODULE CaptureWorker ----------------------------
(****************************************************************************)
(* The NativeWorker of the camera adapters (adapters/src/backend.cjs) and   *)
(* the capture process it spawns (adapters/native/linux/worker.cpp, with    *)
(* the gap and end answers of uvc/windows/worker.cpp).                      *)
(*                                                                          *)
(* The process answers one line at a time and always ends with a receipt;   *)
(* it may also hang, write to stderr or die.  The NativeWorker side is a    *)
(* set of operators on the record of one worker: CaptureAdapter applies     *)
(* them and adds what the awaiting caller does next in the same turn of     *)
(* the event loop.                                                          *)
(****************************************************************************)
EXTENDS Integers, Sequences

CONSTANTS Sizes,       \* payload sizes of a frame
          MaxFrames,   \* bound: answers to next that one process gives
          Scenarios    \* what may happen in one behaviour: "faults" of the process, "describe" by
                       \* another user, "http" snapshots, "control" requests and profile changes,
                       \* "config": any configuration; one member is chosen

ASSUME CaptureAssumption ==
  /\ Sizes \subseteq Nat \ {0} /\ Sizes # {} /\ MaxFrames \in Nat
  /\ Scenarios \subseteq SUBSET {"faults", "describe", "http", "control", "config"}

VARIABLES worker,      \* for each caller, its NativeWorker and child process
          scenario     \* the chosen member of Scenarios

None == "none"
Packet(kind) == [kind |-> kind, seq |-> 0, size |-> 0, jpeg |-> None]

Callers  == {"describe", "open"}
Receipts == {"clean", "stop-failed", "unreleased"}   \* what source->close() may report
Payloads == IF "http" \in scenario THEN Sizes ELSE {CHOOSE z \in Sizes : TRUE}
Reported == IF "faults" \in scenario THEN Receipts ELSE {"clean"}
Faults   == IF "faults" \in scenario THEN Receipts ELSE {}
\* jpegDimensions() of a frame: those of the mode, or others.
Jpegs    == IF "faults" \in scenario THEN {"mode", "other"} ELSE {"mode"}
Gaps     == {p \in {Packet("gap")} : "faults" \in scenario}

FramePacket(n, z, j) == [kind |-> "frame", seq |-> n, size |-> z, jpeg |-> j]

NoWorker ==
  [child |-> None, in |-> <<>>, out |-> <<>>, code |-> -1, torn |-> FALSE, sent |-> 0, end |-> None,
   hello |-> "wait", pending |-> None, live |-> FALSE, faults |-> FALSE, receipt |-> None,
   closing |-> FALSE, timer |-> FALSE, killed |-> FALSE, finished |-> FALSE,
   status |-> None, resources |-> None]

\* NativeWorker.constructor: the child is spawned and the start timer armed.
Spawned == [NoWorker EXCEPT !.child = "starting"]

Alive(w) == w.child \in {"starting", "idle", "dying"}

-----------------------------------------------------------------------------
(* The process.                                                             *)

\* finish(): the source is closed, the receipt written, the process exits.
Ended(w, packets, r, code) ==
  [w EXCEPT !.child = "exited", !.code = code, !.end = r,
            !.in = IF @ = <<>> THEN @ ELSE Tail(@),
            !.out = @ \o packets \o <<Packet(r)>>]

ExitCode(r) == IF r = "clean" THEN 0 ELSE 1

\* A Fault thrown while a command is served: fault, receipt, exit 1.
Faulted(w, r) == Ended(w, <<Packet("fault")>>, r, 1)

Answered(w, p) == [w EXCEPT !.in = Tail(@), !.out = Append(@, p)]

\* A frame or a gap takes the next sequence number.
Supplied(w, p) == [Answered(w, p) EXCEPT !.sent = w.sent + 1]

ProcessHello(s) ==
  /\ worker[s].child = "starting"
  /\ worker' = [worker EXCEPT ![s].child = "idle", ![s].out = Append(@, Packet("hello"))]

Reads(s, command) == worker[s].child = "idle" /\ worker[s].in # <<>> /\ Head(worker[s].in) = command

ProcessDescribe(s) ==
  /\ Reads(s, "describe")
  /\ \/ worker' = [worker EXCEPT ![s] = Answered(@, Packet("evidence"))]
     \/ \E r \in Reported \ {"clean"} : worker' = [worker EXCEPT ![s] = Ended(@, <<Packet("evidence")>>, r, 1)]
     \/ \E r \in Faults : worker' = [worker EXCEPT ![s] = Faulted(@, r)]

ProcessOpen(s) ==
  /\ Reads(s, "open")
  /\ \/ worker' = [worker EXCEPT ![s] = Answered(@, Packet("opened"))]
     \/ \E r \in Faults : worker' = [worker EXCEPT ![s] = Faulted(@, r)]

ProcessNext(s) ==
  /\ Reads(s, "next")
  /\ \/ /\ worker[s].sent < MaxFrames
        /\ \E p \in {FramePacket(worker[s].sent + 1, z, j) : z \in Payloads, j \in Jpegs} \cup Gaps :
             worker' = [worker EXCEPT ![s] = Supplied(@, p)]
     \/ \E r \in Reported : worker' = [worker EXCEPT ![s] = Ended(@, <<Packet("end")>>, r, ExitCode(r))]
     \/ \E r \in Faults : worker' = [worker EXCEPT ![s] = Faulted(@, r)]

\* close, end of input and the process's own deadline all lead to finish().
ProcessClose(s) ==
  /\ worker[s].child = "idle"
  /\ \E r \in Reported : worker' = [worker EXCEPT ![s] = Ended(@, <<>>, r, ExitCode(r))]

\* A crash, or the signal sent by kill(); the last packet may be cut short.
ProcessDies(s) ==
  /\ worker[s].child = "dying" \/ (Alive(worker[s]) /\ "faults" \in scenario)
  /\ \E cut \in BOOLEAN :
       /\ cut => ~worker[s].killed
       /\ worker' = [worker EXCEPT ![s].child = "exited", ![s].code = 2, ![s].torn = cut]

-----------------------------------------------------------------------------
(* NativeWorker: what each handler does to the worker's record.             *)

Kill(w) == [w EXCEPT !.killed = TRUE, !.closing = TRUE,
                     !.child = IF @ = "exited" THEN @ ELSE "dying"]

Reject(w) == [w EXCEPT !.live = FALSE]

\* fail(): recorded once; everything that waits is rejected and the child killed.
Fail(w) ==
  IF w.finished \/ w.killed THEN w
  ELSE Kill([Reject(w) EXCEPT !.faults = TRUE, !.hello = IF @ = "wait" THEN "failed" ELSE @])

\* variant: the close deadline is not armed.
ShutdownUntimed(w) ==
  IF w.finished \/ w.closing THEN w
  ELSE [Reject(w) EXCEPT !.closing = TRUE, !.in = Append(@, "close")]

\* shutdown(): rejects what waits, arms the close deadline and ends stdin.
Shutdown(w) ==
  IF w.finished \/ w.closing THEN w
  ELSE [Reject(w) EXCEPT !.closing = TRUE, !.timer = TRUE, !.in = Append(@, "close")]

\* request() after the hello: refused as Busy or entered into pending; the
\* signal may be aborted already, and then the line is written after the end
\* of stdin and lost.
Busy(w) == w.finished \/ w.closing \/ w.pending # None

Enqueue(w, op, aborted) ==
  LET entered == [w EXCEPT !.pending = op, !.live = TRUE]
  IN  IF aborted THEN Shutdown(Reject(entered)) ELSE [entered EXCEPT !.in = Append(@, op)]

Kinds(op) == CASE op = "describe" -> {"evidence"}
               [] op = "open"     -> {"opened"}
               [] op = "next"     -> {"frame", "gap", "end"}
               [] OTHER           -> {}

\* PacketDecoder: a packet is handed over once its header and body are
\* complete; nothing is read any more after a kill.
Delivers(s) == worker[s].out # <<>> /\ ~worker[s].killed

\* receive() for one packet.
Receive(w, p) ==
  CASE p.kind = "hello" -> IF w.hello = "wait" THEN [w EXCEPT !.hello = "ok"] ELSE Fail(w)
    [] p.kind \in Receipts /\ w.hello = "ok" -> [w EXCEPT !.receipt = p.kind]
    [] p.kind = "fault" /\ w.pending # None ->
         [Reject(w) EXCEPT !.pending = None, !.faults = TRUE]
    [] p.kind \in Kinds(w.pending) -> [Reject(w) EXCEPT !.pending = None]
    [] OTHER -> Fail(w)

\* variant: the result follows the receipt although the child was killed.
ResultTrusting(w) ==
  [status |-> IF w.receipt = "clean" THEN "closed" ELSE IF w.receipt = None THEN "forced" ELSE "failed",
   resources |-> IF w.receipt \in {None, "unreleased"} THEN "unknown" ELSE "released"]

\* The close result that finish() resolves.
Result(w) ==
  LET cleanExit == w.code = 0 /\ w.receipt # None /\ ~w.killed
      faults    == w.faults \/ w.torn
  IN  [status |-> IF cleanExit /\ w.receipt = "clean" /\ ~faults THEN "closed"
                  ELSE IF w.killed \/ w.receipt = None THEN "forced" ELSE "failed",
       resources |-> IF w.killed \/ w.receipt \in {None, "unreleased"} THEN "unknown" ELSE "released"]

\* finish(): everything that waits is rejected and the result resolved; a
\* finished worker is only asked for its result and its exit.
Finish(w) ==
  [NoWorker EXCEPT !.finished = TRUE, !.child = w.child, !.code = w.code, !.end = w.end, !.torn = w.torn,
                   !.status = Result(w).status, !.resources = Result(w).resources]

=============================================================================
