----------------------------- MODULE MediaWorker -----------------------------
(***************************************************************************)
(* The native media worker (native-media/src/worker.c, ipc.c): the main    *)
(* loop, the thread of a native control, the RTSP callbacks and the data   *)
(* path.  An iteration of the loop is three steps, between which the other *)
(* threads run: read a command, poll the bus and drain the events, send    *)
(* READY or a control receipt.  RTSP_RESPONSE, GAP and DIAGNOSTIC frames   *)
(* are left out; of the events only END is kept.  The frame in the hands   *)
(* of the writer thread counts as being in the data pipe.  An EOS message  *)
(* on the bus carries no generation; that the model remembers of which one *)
(* it is, and which labels were wrong, serves the properties only.         *)
(***************************************************************************)
EXTENDS MediaPipes

VARIABLES
  loop,                \* the next step of the main loop: command, bus, ack, close
  done, error,         \* leave the loop; error_exit
  opened, pipeline,    \* open_received; open_native() has run
  wGeneration, pendingGeneration,
  wRequest, closeRequest,
  pendingControl, controlReady, thread, \* the control thread: none, starting, running
  ready, readySent, paused,
  accepting, suspended,
  resuming,            \* a PLAY was accepted, the queue is about to be resumed
  passed,              \* send_data() has passed its test of accepting
  sending,             \* the generation send_data() has read, or 0
  frames, credits, wSequence,           \* MediaIpc
  eos, streamEnded,    \* EOS messages on the bus, by generation; no more samples
  relabelled,          \* history: generations given to the END of an older one
  wFailure,
  setupSent, rtsp,     \* SETUP was sent; the request that awaits a response
  server               \* the server's RTSP session: none, alive or ended

ipcVars == <<accepting, suspended, resuming, passed, sending, frames, credits, wSequence>>
streamVars == <<eos, streamEnded, relabelled>>
openVars == <<opened, pipeline>>
controlVars == <<pendingGeneration, pendingControl, controlReady, thread, paused>>
loopVars == <<loop, done, error, closeRequest>>
rtspVars == <<setupSent, rtsp, server>>
workerVars == <<ipcVars, streamVars, openVars, controlVars, loopVars, rtspVars,
                wGeneration, wRequest, ready, readySent, wFailure>>

WorkerInit ==
  /\ loop = "command" /\ done = FALSE /\ error = FALSE
  /\ opened = FALSE /\ pipeline = FALSE
  /\ wGeneration = 0 /\ pendingGeneration = 0 /\ wRequest = 0 /\ closeRequest = 0
  /\ pendingControl = "none" /\ controlReady = "none" /\ thread = "none"
  /\ ready = FALSE /\ readySent = FALSE /\ paused = FALSE
  /\ accepting = FALSE /\ suspended = FALSE /\ resuming = FALSE
  /\ passed = FALSE /\ sending = 0
  /\ frames = << >> /\ credits = 0 /\ wSequence = 0
  /\ eos = {} /\ streamEnded = FALSE /\ relabelled = {}
  /\ wFailure = "none" /\ setupSent = FALSE /\ rtsp = "none" /\ server = "none"

Running == exit = "running"
Failing(cause) == IF wFailure = "none" THEN cause ELSE wFailure

-----------------------------------------------------------------------------
\* control(): a control is taken when the session is ready and no other one
\* is under way; what is queued is flushed and its credits come back.
Busy(m) == \/ ~ready \/ pendingControl # "none" \/ thread # "none"
           \/ m.kind = "SEEK" /\ Live

\* Variant: the credits of the flushed frames are lost.
TakeControlLeaky(m) ==
  /\ pendingControl' = m.kind /\ wRequest' = m.seq
  /\ accepting' = FALSE /\ suspended' = TRUE
  /\ frames' = << >> /\ UNCHANGED <<credits, resuming, passed, sending, wSequence>>
  /\ pendingGeneration' = IF m.kind = "PAUSE" THEN pendingGeneration ELSE wGeneration + 1
  /\ thread' = "starting"
  /\ UNCHANGED <<wFailure, controlReady, paused>>
TakeControl(m) ==
  /\ pendingControl' = m.kind /\ wRequest' = m.seq
  /\ accepting' = FALSE /\ suspended' = TRUE
  /\ frames' = << >> /\ credits' = credits + Len(frames)
  /\ pendingGeneration' = IF m.kind = "PAUSE" THEN pendingGeneration ELSE wGeneration + 1
  /\ thread' = "starting"
  /\ UNCHANGED <<wFailure, controlReady, paused, resuming, passed, sending, wSequence>>

\* The command step of the loop, without a command to read.
LoopIdle ==
  /\ Running /\ loop = "command"
  /\ loop' = "bus"
  /\ UNCHANGED <<pipes, ipcVars, streamVars, openVars, controlVars, done, error, closeRequest,
                 rtspVars, wGeneration, wRequest, ready, readySent, wFailure>>

\* The command does not fit the session: OPEN was not first, or the
\* generation is not the current one (CREDIT and CLOSE may be older).
Mismatch(m) ==
  /\ m.kind # "OPEN"
  /\ \/ ~opened
     \/ m.kind \notin {"CREDIT", "CLOSE"} /\ m.gen # wGeneration
     \/ m.gen > wGeneration

\* The command step of the loop, by command.
LoopCommand ==
  LET m == Head(commands)
      reject == wFailure' = Failing("protocol")
                /\ UNCHANGED <<opened, wRequest, closeRequest, done, ipcVars, controlVars>>
  IN /\ Running /\ loop = "command" /\ commands # << >>
     /\ loop' = "bus"
     /\ commands' = Tail(commands)
     /\ CASE m.kind = "EOF" ->
               /\ done' = TRUE
               /\ wFailure' = IF secrets = "destroyed" THEN Failing("native") ELSE wFailure
               /\ UNCHANGED <<opened, wRequest, closeRequest, ipcVars, controlVars>>
          [] m.kind = "OPEN" ->
               IF opened THEN reject
               ELSE /\ opened' = TRUE /\ wRequest' = m.seq
                    /\ UNCHANGED <<closeRequest, done, wFailure, ipcVars, controlVars>>
          [] OTHER ->
               IF Mismatch(m) THEN reject
               ELSE CASE m.kind = "CLOSE" ->
                           /\ done' = TRUE /\ closeRequest' = m.seq
                           /\ UNCHANGED <<opened, wRequest, wFailure, ipcVars, controlVars>>
                      [] m.kind = "CREDIT" ->
                           IF ~pipeline \/ m.units > QueueUnits - credits THEN reject
                           ELSE /\ credits' = credits + m.units
                                /\ UNCHANGED <<opened, wRequest, closeRequest, done, wFailure,
                                     accepting, suspended, resuming, passed, sending, frames,
                                     wSequence, controlVars>>
                      [] OTHER ->
                           IF ~pipeline \/ Busy(m) THEN reject
                           ELSE TakeControl(m) /\ UNCHANGED <<opened, closeRequest, done>>
     /\ UNCHANGED <<control, data, secrets, exit, streamVars, pipeline, error, rtspVars,
                    wGeneration, ready, readySent>>

\* open_native(), once OPEN and the security material have been read.
OpenNative ==
  /\ Running /\ loop = "bus"
  /\ opened /\ secrets = "written" /\ ~pipeline /\ ~done /\ wFailure = "none"
  /\ pipeline' = TRUE /\ wGeneration' = 1 /\ credits' = QueueUnits
  /\ UNCHANGED <<pipes, accepting, suspended, resuming, passed, sending, frames, wSequence,
                 streamVars, opened, controlVars, loopVars, rtspVars, wRequest, ready, readySent,
                 wFailure>>

\* poll_bus(), the failure test and drain(): every EOS message becomes an END
\* with the last allocated data sequence and, whatever generation it is of,
\* the current one; a failure is reported and ends the loop.
LoopBus ==
  LET failed == wFailure # "none"
      errors == IF failed THEN << Frame("ERROR", opened, wGeneration, wRequest) >> ELSE << >>
      ends == [i \in 1..Cardinality(eos) |->
                 EndFrame(opened, wGeneration, wRequest, wSequence)]
  IN /\ Running /\ loop = "bus"
     /\ control' = control \o errors \o ends
     /\ eos' = {}
     /\ relabelled' = relabelled \cup (IF eos \subseteq {wGeneration} THEN {} ELSE {wGeneration})
     /\ done' = (done \/ failed) /\ error' = failed
     /\ loop' = IF done' THEN "close" ELSE "ack"
     /\ UNCHANGED <<commands, data, secrets, exit, ipcVars, streamEnded, openVars, controlVars,
                    closeRequest, rtspVars, wGeneration, wRequest, ready, readySent, wFailure>>

\* The last step of the loop: READY after the first accepted PLAY, and the
\* receipt of a control once its thread has ended.
LoopAck ==
  LET acked == controlReady # "none" /\ thread = "none"
      readies == IF ready /\ ~readySent
                 THEN << Frame("READY", TRUE, wGeneration, wRequest) >> ELSE << >>
      acks == IF acked
              THEN << ControlFrame(wGeneration, wRequest, controlReady,
                                   IF paused THEN "paused" ELSE "playing") >> ELSE << >>
  IN /\ Running /\ loop = "ack"
     /\ control' = control \o readies \o acks
     /\ readySent' = ready
     /\ controlReady' = IF acked THEN "none" ELSE controlReady
     /\ loop' = "command"
     /\ UNCHANGED <<commands, data, secrets, exit, ipcVars, streamVars, openVars, pendingGeneration,
                    pendingControl, thread, paused, done, error, closeRequest, rtspVars,
                    wGeneration, wRequest, ready, wFailure>>

-----------------------------------------------------------------------------
\* native_control(): the request goes out; the thread may end before or after
\* the response.
SendControl ==
  /\ Running /\ thread = "starting"
  /\ IF pendingControl = "PAUSE" /\ paused
     THEN wFailure' = Failing("protocol") /\ thread' = "none" /\ UNCHANGED rtsp
     ELSE /\ rtsp' = IF pendingControl = "PAUSE" THEN "PAUSE" ELSE "PLAY"
          /\ thread' = "running" /\ UNCHANGED wFailure
  /\ UNCHANGED <<pipes, ipcVars, streamVars, openVars, pendingGeneration, pendingControl,
                 controlReady, paused, loopVars, setupSent, server, wGeneration, wRequest,
                 ready, readySent>>
ThreadEnds ==
  /\ Running /\ thread = "running"
  /\ thread' = "none"
  /\ UNCHANGED <<pipes, ipcVars, streamVars, openVars, pendingGeneration, pendingControl,
                 controlReady, paused, loopVars, rtspVars, wGeneration, wRequest, ready,
                 readySent, wFailure>>

\* before_send() and after_response() of SETUP; the server may not have got it.
Setup ==
  /\ Running /\ pipeline /\ ~setupSent /\ wFailure = "none"
  /\ setupSent' = TRUE
  /\ \/ server' = "alive" /\ rtsp' = "PLAY"
     \/ "native" \in Faults /\ UNCHANGED <<server, rtsp>>
  /\ UNCHANGED <<pipes, ipcVars, streamVars, openVars, controlVars, loopVars, wGeneration,
                 wRequest, ready, readySent, wFailure>>

\* after_response() of a successful PLAY: the next generation begins, and the
\* EOS messages that wait on the bus stay there ...
PlayAccepted ==
  /\ Running /\ rtsp = "PLAY" /\ server = "alive" /\ ~resuming
  /\ rtsp' = "none"
  /\ wGeneration' = IF pendingGeneration # 0 THEN pendingGeneration ELSE wGeneration
  /\ pendingGeneration' = 0
  /\ paused' = FALSE
  /\ controlReady' = pendingControl /\ pendingControl' = "none"
  /\ ready' = TRUE /\ accepting' = TRUE /\ resuming' = TRUE
  /\ streamEnded' = FALSE
  /\ UNCHANGED <<pipes, suspended, passed, sending, frames, credits, wSequence, eos, relabelled,
                 openVars, thread, loopVars, setupSent, server, wRequest, readySent, wFailure>>

\* ... and, under another mutex, the queue takes data again.
ResumeIpc ==
  /\ Running /\ resuming
  /\ resuming' = FALSE /\ suspended' = FALSE
  /\ UNCHANGED <<pipes, accepting, passed, sending, frames, credits, wSequence, streamVars,
                 openVars, controlVars, loopVars, rtspVars, wGeneration, wRequest, ready,
                 readySent, wFailure>>

\* after_response() of a successful PAUSE.
PauseAccepted ==
  /\ Running /\ rtsp = "PAUSE" /\ server = "alive" /\ ~resuming
  /\ rtsp' = "none"
  /\ paused' = TRUE
  /\ controlReady' = pendingControl /\ pendingControl' = "none"
  /\ UNCHANGED <<pipes, ipcVars, streamVars, openVars, pendingGeneration, thread, loopVars,
                 setupSent, server, wGeneration, wRequest, ready, readySent, wFailure>>

\* fail() from the native side: a rejected request, an error on the bus, an
\* overdue operation; before OPEN was read ("early"), unusable security material
\* or no OPEN in time.
NativeFailure ==
  /\ Running /\ (IF opened THEN "native" ELSE "early") \in Faults /\ wFailure = "none"
  /\ wFailure' = "native"
  /\ rtsp' = "none"
  /\ UNCHANGED <<pipes, ipcVars, streamVars, openVars, controlVars, loopVars, setupSent, server,
                 wGeneration, wRequest, ready, readySent>>

\* The server drops the session by itself.
Expire ==
  /\ "expire" \in Faults /\ server = "alive"
  /\ server' = "ended"
  /\ UNCHANGED <<pipes, ipcVars, streamVars, openVars, controlVars, loopVars, setupSent, rtsp,
                 wGeneration, wRequest, ready, readySent, wFailure>>

-----------------------------------------------------------------------------
\* send_data() tests without a mutex whether data is accepted ...
SendCheck ==
  /\ Running /\ accepting /\ ~passed /\ sending = 0 /\ ~streamEnded /\ server = "alive"
  /\ wSequence < MaxData
  /\ passed' = TRUE
  /\ UNCHANGED <<pipes, accepting, suspended, resuming, sending, frames, credits, wSequence,
                 streamVars, openVars, controlVars, loopVars, rtspVars, wGeneration, wRequest,
                 ready, readySent, wFailure>>

\* ... reads the generation under one ...
SendData ==
  /\ Running /\ passed
  /\ passed' = FALSE /\ sending' = wGeneration
  /\ UNCHANGED <<pipes, accepting, suspended, resuming, frames, credits, wSequence, streamVars,
                 openVars, controlVars, loopVars, rtspVars, wGeneration, wRequest, ready,
                 readySent, wFailure>>

\* ... and media_ipc_data() enqueues under another: nothing while suspended;
\* without room or credit a live unit is dropped and a recorded one waits.
RoomUnchecked == Len(frames) < QueueUnits   \* variant: the credit is not tested
Room == Len(frames) < QueueUnits /\ credits > 0
MediaIpcData ==
  /\ Running /\ sending # 0
  /\ suspended \/ Room \/ Live
  /\ sending' = 0
  /\ IF ~suspended /\ Room
     THEN /\ wSequence' = wSequence + 1
          /\ frames' = Append(frames, [gen |-> sending, seq |-> wSequence + 1])
          /\ credits' = credits - 1
     ELSE UNCHANGED <<wSequence, frames, credits>>
  /\ UNCHANGED <<pipes, accepting, suspended, resuming, passed, streamVars, openVars, controlVars,
                 loopVars, rtspVars, wGeneration, wRequest, ready, readySent, wFailure>>

\* writer(): the oldest frame goes out on fd 3.
Writer ==
  /\ Running /\ frames # << >>
  /\ data' = Append(data, Head(frames))
  /\ frames' = Tail(frames)
  /\ UNCHANGED <<commands, control, secrets, exit, accepting, suspended, resuming, passed, sending,
                 credits, wSequence, streamVars, openVars, controlVars, loopVars, rtspVars,
                 wGeneration, wRequest, ready, readySent, wFailure>>

\* The stream of a generation ends: all its samples have passed send_data().
EndOfStream ==
  /\ Running /\ ready /\ ~streamEnded /\ ~passed /\ sending = 0
  /\ streamEnded' = TRUE /\ eos' = eos \cup {wGeneration}
  /\ UNCHANGED <<pipes, ipcVars, relabelled, openVars, controlVars, loopVars, rtspVars,
                 wGeneration, wRequest, ready, readySent, wFailure>>

-----------------------------------------------------------------------------
\* close_native() and the exit of the process.  The TEARDOWN is answered
\* (ok, or gone for 454), or it is not.
RemoteTrusting(teardown) ==   \* variant: no answer is taken for success
  IF ~setupSent THEN "not-created" ELSE IF teardown = "gone" THEN "already-ended" ELSE "acknowledged"
Remote(teardown) ==
  CASE ~setupSent      -> "not-created"
    [] setupSent /\ teardown = "ok"   -> "acknowledged"
    [] setupSent /\ teardown = "gone" -> "already-ended"
    [] OTHER           -> "uncertain"

CloseNative(teardown, local) ==
  /\ Running /\ loop = "close"
  /\ local \/ "local" \in Faults
  /\ CASE teardown = "ok"   -> server = "alive" /\ server' = "ended"
       [] teardown = "gone" -> server = "ended" /\ UNCHANGED server
       [] OTHER             -> (server = "none" \/ "native" \in Faults) /\ UNCHANGED server
  /\ accepting' = FALSE /\ suspended' = TRUE /\ frames' = << >>
  /\ control' = Append(control, ClosedFrame(opened, wGeneration, closeRequest, Remote(teardown), local))
  /\ exit' = IF ~local THEN "3" ELSE IF error THEN "2" ELSE "0"
  /\ UNCHANGED <<commands, data, secrets, resuming, passed, sending, credits, wSequence,
                 streamVars, openVars, controlVars, loopVars, setupSent, rtsp, wGeneration,
                 wRequest, ready, readySent, wFailure>>

\* The process dies.
Crash ==
  /\ Running /\ "crash" \in Faults
  /\ exit' = "crashed"
  /\ UNCHANGED <<commands, control, data, secrets, workerVars>>

WorkerNext ==
  \/ LoopIdle \/ LoopCommand \/ OpenNative \/ LoopBus \/ LoopAck
  \/ SendControl \/ ThreadEnds \/ Setup \/ PlayAccepted \/ ResumeIpc \/ PauseAccepted
  \/ NativeFailure \/ Expire \/ SendCheck \/ SendData \/ MediaIpcData \/ Writer \/ EndOfStream
  \/ \E teardown \in {"ok", "gone", "none"}, local \in BOOLEAN : CloseNative(teardown, local)
  \/ Crash
=============================================================================
