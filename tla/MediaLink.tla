------------------------------ MODULE MediaLink ------------------------------
(***************************************************************************)
(* One owned media session end to end: the Node session (MediaSession) and *)
(* the native worker (MediaWorker) over the private pipes of MediaPipes.   *)
(* The two sides interleave freely; each pipe is first in, first out, and  *)
(* the control pipe and the data pipe are not ordered with each other.     *)
(***************************************************************************)
EXTENDS MediaSession, MediaWorker

vars == <<pipes, sessionVars, workerVars>>

Init == PipesInit /\ SessionInit /\ WorkerInit

Next == \/ SessionNext /\ UNCHANGED workerVars
        \/ WorkerNext /\ UNCHANGED sessionVars

Spec == Init /\ [][Next]_vars

-----------------------------------------------------------------------------
\* The worker never takes the session's traffic for a protocol violation, and
\* the session the worker's in two cases only: whatever the order in which the
\* pipes are read, the correlation, generation, sequence and credit tests of
\* control(), data() and flushCredits() in session.ts and of the command loop of
\* worker.c accept what the peer sends, unless an END was labelled with a
\* generation newer than the stream that ended (poll_bus() and event() in
\* worker.c label an EOS message when they read it), or the worker failed
\* before it had read an OPEN that was already sent (its ERROR and CLOSED then
\* carry no session).
NoProtocolFailure ==
  /\ wFailure # "protocol"
  /\ failure = "protocol" => relabelled # {} \/ (~opened /\ wFailure # "none")

\* Credits are neither lost nor made: while both sides run, the window that
\* OPEN granted is what the worker may still send, what lies in its queue and
\* in the data pipe, what the session has not given back, and the CREDIT
\* commands under way; and what the session owes credit for is in one place
\* each: a unit is staged, held by a consumer queue, or noted for the next
\* CREDIT.
Grants(queue) == UNION {{i} \X (1..queue[i].units) : i \in DOMAIN queue}
Granted == Cardinality(Grants(commands))
CreditConserved ==
  /\ (Open /\ pipeline /\ loop # "close" /\ exit = "running")
     => credits + Len(frames) + Len(data) + outstandingUnits + Granted = QueueUnits
  /\ Open => outstandingUnits = Cardinality(held) + Len(staged) + creditUnits

\* No unit crosses a control boundary: consumers hold only units labelled with
\* the acknowledged generation, nothing while a control awaits its receipt, and
\* what waits for a receipt belongs to the generation it will acknowledge.
NoStaleDelivery ==
  /\ \A u \in held : u.gen = generation
  /\ ~Idle => held = {}
  /\ \A u \in Units(staged) : u.gen = expectedGeneration /\ u.gen > generation

\* Only the acknowledged generation is reported complete, and only when nothing
\* of it can still arrive: no unit is in the worker's queue or in the data pipe.
\* A generation that the worker gave to the END of an older one is excepted:
\* there an EOS message that outlived a PLAY or SEEK ends the new stream early.
EndIsFinal ==
  (Open /\ ending.complete) =>
    /\ ending.gen = generation
    /\ ending.gen \notin relabelled =>
         \A u \in Units(frames) \cup Units(data) : u.gen # ending.gen

\* Between controls the public state is the worker's: the generation it
\* labels data with, and whether the RTSP session is paused.
StateAcknowledged ==
  (state \in {"playing", "paused"} /\ exit = "running") =>
    /\ generation <= wGeneration
    /\ Idle => /\ generation = wGeneration
               /\ (state = "paused") = paused
               /\ pendingControl = "none" /\ controlReady = "none" /\ thread = "none"

\* Generations are kept apart (data(), control() and finishGeneration() in
\* session.ts): nothing of another one is delivered, nothing of this one
\* follows its own END, and session and worker agree on which one it is.
GenerationsSeparate == NoStaleDelivery /\ EndIsFinal /\ StateAcknowledged

\* The close result claims no more than what happened: a remote session is
\* reported gone only if it is, and a local cleanup only after the worker
\* released everything and exited with code 0.
CloseHonest ==
  state = "closed" =>
    /\ result.remote \in {"acknowledged", "already-ended", "not-created"} => server # "alive"
    /\ result.localCleanup => exit = "0"
    /\ ~result.failed => result.remote # "uncertain" /\ exit = "0"

\* A session that has begun to close stays so, whatever READY, CONTROL, END
\* or data frame is still on its way, and hands nothing to its consumers.
NeverReopened ==
  [][(state \in {"closing", "closed"}) =>
       (state' \in {state, "closed"} /\ held' = {} /\ generation' = generation)]_vars

-----------------------------------------------------------------------------
\* The timers of session.ts fire; nothing is assumed of the worker, of the
\* consumer or of the pipes.
Fairness ==
  /\ WF_vars(OpenDeadline /\ UNCHANGED workerVars)
  /\ WF_vars(ControlDeadline /\ UNCHANGED workerVars)
  /\ WF_vars(EndDeadline /\ UNCHANGED workerVars)
  /\ WF_vars(CloseDeadline /\ UNCHANGED workerVars)
  /\ WF_vars(Exited(FALSE) /\ UNCHANGED workerVars)

FairSpec == Spec /\ Fairness

\* Every promise settles: startMediaSession() by READY or a failure that closes
\* the session; play(), pause() and seek(), acknowledged or failed; an accepted
\* END completes its generation, is superseded by a control or fails the
\* session, so that consumers never wait for a watermark for ever; and close()
\* reports its result even if the worker never answers and never exits.
CallsSettle ==
  /\ state = "opening" ~> state # "opening"
  /\ ~Idle ~> Idle
  /\ (ending # NoEnd /\ ~ending.complete) ~> (ending = NoEnd \/ ending.complete)
  /\ state = "closing" ~> state = "closed"

=============================================================================
