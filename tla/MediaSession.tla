---------------------------- MODULE MediaSession ----------------------------
(***************************************************************************)
(* NativeSession (media/session.ts): the Node side of one owned media      *)
(* session.  Every event handler runs to completion, so each is one        *)
(* action.  The units that its consumer queues hold are the set held; the  *)
(* queues themselves are the module MediaQueue.  Diagnostics, the          *)
(* backchannel and the counters of the close result are left out.          *)
(***************************************************************************)
EXTENDS MediaPipes

VARIABLES
  state, generation, expectedGeneration, openSent,
  commandSequence, closeSequence, dataSequence,
  pending, abandoned,  \* the control that awaits its receipt, or did at close
  ending,              \* the END observation of a generation
  staged,              \* units received ahead of READY or of the receipt
  held,                \* units in the consumer queues
  creditUnits, outstandingUnits,
  failure,             \* cause of the first failure
  receipt,             \* the CLOSED receipt
  timer,               \* none, close (closeTimer runs) or kill (killTimer)
  result               \* the MediaCloseResult

sessionVars == <<state, generation, expectedGeneration, openSent, commandSequence,
                 closeSequence, dataSequence, pending, abandoned, ending, staged, held,
                 creditUnits, outstandingUnits, failure, receipt, timer, result>>

NoControl == [kind |-> "none", seq |-> 0, gen |-> 0]
NoEnd == [gen |-> 0, watermark |-> 0, complete |-> FALSE]
NoReceipt == [remote |-> "none", localCleanup |-> FALSE]
NoResult == [remote |-> "none", localCleanup |-> FALSE, failed |-> FALSE]

SessionInit ==
  /\ state = "opening" /\ generation = 0 /\ expectedGeneration = 1 /\ openSent = FALSE
  /\ commandSequence = 0 /\ closeSequence = 0 /\ dataSequence = 0
  /\ pending = NoControl /\ abandoned = NoControl
  /\ ending = NoEnd
  /\ staged = << >> /\ held = {}
  /\ creditUnits = 0 /\ outstandingUnits = 0
  /\ failure = "none" /\ receipt = NoReceipt /\ timer = "none" /\ result = NoResult

Open == state \in {"opening", "playing", "paused"}
Idle == pending = NoControl
Units(queue) == {queue[i] : i \in DOMAIN queue}
Cause(cause) == IF failure = "none" THEN cause ELSE failure

-----------------------------------------------------------------------------
\* secrets.destroy(): what was not written yet, or is still being written when
\* OPEN has not followed, may not reach the worker.
Destroyed(s) == IF openSent THEN {s} ELSE IF s = "empty" THEN {"destroyed"} ELSE {s, "destroyed"}

\* beginClose(): everything local is settled and released at once; CLOSE is
\* sent when the worker has an OPEN and has not answered with CLOSED,
\* otherwise the command pipe is destroyed.
BeginClose(cause, acknowledged) ==
  /\ state' = "closing" /\ failure' = Cause(cause)
  /\ ending' = NoEnd
  /\ abandoned' = pending /\ pending' = NoControl
  /\ staged' = << >> /\ held' = {} /\ creditUnits' = 0
  /\ secrets' \in Destroyed(secrets)
  /\ timer' = "close"
  /\ IF acknowledged
     THEN /\ commandSequence' = commandSequence + 1
          /\ closeSequence' = commandSequence + 1
          /\ commands' = Append(commands, Command("CLOSE", generation, commandSequence + 1, 0))
     ELSE /\ commands' = Append(commands, Command("EOF", 0, 0, 0))
          /\ UNCHANGED <<commandSequence, closeSequence>>

\* What beginClose() may change, and what a handler that only fails leaves.
closeVars == <<state, failure, ending, abandoned, pending, staged, held, creditUnits,
               secrets, timer, commandSequence, closeSequence, commands>>
restVars == <<generation, expectedGeneration, openSent, dataSequence, outstandingUnits,
              receipt, result, data, exit>>

\* fail(): the first failure is kept, and an open session begins to close.
Fail(cause) ==
  IF Open THEN BeginClose(cause, openSent /\ receipt = NoReceipt)
  ELSE /\ failure' = Cause(cause)
       /\ UNCHANGED <<state, ending, abandoned, pending, staged, held, creditUnits, secrets,
                      timer, commandSequence, closeSequence, commands>>

\* close(), and the causes that reach fail() from outside: the abort signal,
\* a failed or overdue pipe write, a stderr flood; the deadlines of READY, of
\* a control receipt and of an END watermark.
Close == Open /\ BeginClose("none", openSent /\ receipt = NoReceipt)
         /\ UNCHANGED <<restVars, control>>
Abort == Open /\ "abort" \in Faults /\ Fail("abort") /\ UNCHANGED <<restVars, control>>
OpenDeadline == state = "opening" /\ Fail("deadline") /\ UNCHANGED <<restVars, control>>
ControlDeadline == Open /\ ~Idle /\ Fail("deadline") /\ UNCHANGED <<restVars, control>>
EndDeadlineDisarmed ==   \* variant: no deadline once the session is paused
  /\ state # "paused" /\ Open /\ ending # NoEnd /\ ~ending.complete
  /\ Fail("deadline") /\ UNCHANGED <<restVars, control>>
EndDeadline == /\ Open /\ ending # NoEnd /\ ~ending.complete
               /\ Fail("deadline") /\ UNCHANGED <<restVars, control>>

-----------------------------------------------------------------------------
\* beginOpen(): SECURITY is written when HELLO arrives (OnHello); once it is
\* on its way, and only while opening, OPEN follows.
SendOpen ==
  /\ state = "opening" /\ secrets = "written" /\ ~openSent
  /\ openSent' = TRUE
  /\ commandSequence' = commandSequence + 1
  /\ commands' = Append(commands, Command("OPEN", 0, commandSequence + 1, 0))
  /\ UNCHANGED <<control, data, secrets, exit, state, generation, expectedGeneration,
                 closeSequence, dataSequence, pending, abandoned, ending, staged, held,
                 creditUnits, outstandingUnits, failure, receipt, timer, result>>

OpenSequence == 1

\* The correlation test of control(): the frame belongs to this session.
Belongs(m) ==
  \/ ~openSent /\ ~m.own /\ m.gen = 0 /\ m.seq = 0
  \/ m.own /\ m.gen <= expectedGeneration /\ m.seq <= commandSequence

\* finishGeneration(): the generation is complete when the data pipe has
\* reached the watermark; data beyond it is an error.
FinishedEarly(end, gen, last) ==   \* variant: END alone completes
  IF end.gen = gen THEN [end EXCEPT !.complete = TRUE] ELSE end
Finished(end, gen, last) ==
  IF end.gen = gen /\ end.gen # 0 /\ last = end.watermark
  THEN [end EXCEPT !.complete = TRUE] ELSE end
Overrun(end, gen, last) == end.gen = gen /\ end.gen # 0 /\ last > end.watermark

Received(kind) == /\ state # "closed" /\ control # << >>
                  /\ Head(control).kind = kind
                  /\ control' = Tail(control)

\* control(): HELLO.
OnHello ==
  /\ Received("HELLO")
  /\ secrets' = IF state = "opening" THEN "written" ELSE secrets
  /\ UNCHANGED <<commands, data, exit, sessionVars>>

\* control(): READY opens the session; after a cancellation it is only noted.
OnReadyReopens ==   \* variant: a late READY is taken like a timely one
  /\ Received("READY")
  /\ generation' = 1 /\ state' = "playing"
  /\ UNCHANGED <<failure, ending, abandoned, pending, staged, held, creditUnits, secrets, timer,
                 commandSequence, closeSequence, commands, expectedGeneration, openSent,
                 dataSequence, outstandingUnits, receipt, result, data, exit>>
OnReady ==
  LET m == Head(control)
  IN /\ Received("READY")
     /\ IF \/ ~Belongs(m) \/ ~openSent \/ m.gen # 1 \/ m.seq # OpenSequence
           \/ state \notin {"opening", "closing"} \/ Overrun(ending, 1, dataSequence)
        THEN Fail("protocol") /\ UNCHANGED <<generation>>
        ELSE IF state = "closing" THEN UNCHANGED <<closeVars, generation>>
        ELSE /\ generation' = 1 /\ state' = "playing"
             /\ held' = held \cup Units(staged) /\ staged' = << >>
             /\ ending' = Finished(ending, 1, dataSequence)
             /\ UNCHANGED <<failure, abandoned, pending, creditUnits, secrets, timer,
                            commandSequence, closeSequence, commands>>
     /\ UNCHANGED <<expectedGeneration, openSent, dataSequence, outstandingUnits, receipt,
                    result, data, exit>>

\* The state a control leads to.
StateAfter(kind) == IF kind = "PAUSE" THEN "paused" ELSE "playing"

\* control(): the receipt of the pending control; during a close it can only
\* answer the abandoned one.
OnControl ==
  LET m == Head(control)
      asked == IF ~Idle THEN pending ELSE IF state = "closing" THEN abandoned ELSE NoControl
  IN /\ Received("CONTROL")
     /\ IF \/ ~Belongs(m) \/ asked = NoControl \/ m.seq # asked.seq \/ m.gen # asked.gen
           \/ m.command # asked.kind \/ m.state # StateAfter(asked.kind)
           \/ state # "closing" /\ Overrun(ending, m.gen, dataSequence)
        THEN Fail("protocol") /\ UNCHANGED <<generation>>
        ELSE IF state = "closing"
        THEN /\ abandoned' = NoControl
             /\ UNCHANGED <<state, failure, ending, pending, staged, held, creditUnits, secrets,
                            timer, commandSequence, closeSequence, commands, generation>>
        ELSE /\ generation' = m.gen /\ state' = StateAfter(asked.kind)
             /\ held' = held \cup Units(staged) /\ staged' = << >>
             /\ pending' = NoControl
             /\ ending' = Finished(ending, m.gen, dataSequence)
             /\ UNCHANGED <<failure, abandoned, creditUnits, secrets, timer,
                            commandSequence, closeSequence, commands>>
     /\ UNCHANGED <<expectedGeneration, openSent, dataSequence, outstandingUnits, receipt,
                    result, data, exit>>

\* control(): CLOSED is accepted once; an unsolicited one begins the close.
OnClosed ==
  LET m == Head(control)
  IN /\ Received("CLOSED")
     /\ IF \/ ~Belongs(m) \/ receipt # NoReceipt \/ m.gen < generation
           \/ m.seq # 0 /\ m.seq # closeSequence
        THEN Fail("protocol") /\ UNCHANGED receipt
        ELSE /\ receipt' = [remote |-> m.remote, localCleanup |-> m.localCleanup]
             /\ IF Open THEN BeginClose("native", FALSE) ELSE UNCHANGED closeVars
     /\ UNCHANGED <<generation, expectedGeneration, openSent, dataSequence, outstandingUnits,
                    result, data, exit>>

\* control(): ERROR.
OnError ==
  LET m == Head(control)
  IN /\ Received("ERROR")
     /\ Fail(IF Belongs(m) THEN "native" ELSE "protocol")
     /\ UNCHANGED restVars

\* control(): END of a generation that has not been superseded.
OnEnd ==
  LET m == Head(control)
      late == m.gen < generation \/ ~Open \/ (~Idle /\ m.gen = generation)
      end == [gen |-> m.gen, watermark |-> m.watermark, complete |-> FALSE]
      current == Idle /\ state # "opening"
  IN /\ Received("END")
     /\ IF \/ ~Belongs(m)
           \/ ~late /\ ending # NoEnd
           \/ ~late /\ current /\ Overrun(end, generation, dataSequence)
        THEN Fail("protocol")
        ELSE /\ ending' = IF late THEN ending
                          ELSE IF current THEN Finished(end, generation, dataSequence) ELSE end
             /\ UNCHANGED <<state, failure, abandoned, pending, staged, held, creditUnits, secrets,
                            timer, commandSequence, closeSequence, commands>>
     /\ UNCHANGED restVars

-----------------------------------------------------------------------------
\* data(): a unit of a superseded generation, or of the one a control is
\* about to supersede, is released; one of a generation not acknowledged yet
\* is staged; any other goes to the consumer queues.
ObsoleteAfterAck(u) == u.gen < generation   \* variant: old units flow until the receipt
Obsolete(u) == u.gen < generation \/ (~Idle /\ u.gen = generation)
Ahead(u) == state = "opening" \/ u.gen # generation

OnData ==
  LET u == Head(data)
      crowded == Len(staged) >= QueueUnits
  IN /\ state # "closed" /\ data # << >>
     /\ data' = Tail(data)
     /\ IF ~Open THEN UNCHANGED <<closeVars, dataSequence, outstandingUnits>>
        ELSE IF \/ ~openSent \/ u.gen > expectedGeneration \/ u.seq <= dataSequence
                \/ ending.gen = u.gen /\ u.seq > ending.watermark
                \/ outstandingUnits + 1 > QueueUnits
                \/ ~Obsolete(u) /\ Ahead(u) /\ crowded /\ ~Live
                \/ Idle /\ state # "opening" /\ Overrun(ending, generation, u.seq)
        THEN Fail("protocol") /\ UNCHANGED <<dataSequence, outstandingUnits>>
        ELSE /\ dataSequence' = u.seq /\ outstandingUnits' = outstandingUnits + 1
             /\ ending' = IF Idle /\ state # "opening"
                          THEN Finished(ending, generation, u.seq) ELSE ending
             /\ creditUnits' = IF Obsolete(u) \/ (Ahead(u) /\ crowded)
                               THEN creditUnits + 1 ELSE creditUnits
             /\ staged' = IF Obsolete(u) \/ ~Ahead(u) THEN staged
                          ELSE Append(IF crowded THEN Tail(staged) ELSE staged, u)
             /\ held' = IF Obsolete(u) \/ Ahead(u) THEN held ELSE held \cup {u}
             /\ UNCHANGED <<state, failure, abandoned, pending, secrets, timer,
                            commandSequence, closeSequence, commands>>
     /\ UNCHANGED <<control, generation, expectedGeneration, openSent, receipt, result, exit>>

\* A consumer queue releases a unit (it was read, evicted or detached), and
\* credit() notes it.
Consume(u) ==
  /\ Open /\ u \in held
  /\ held' = held \ {u} /\ creditUnits' = creditUnits + 1
  /\ UNCHANGED <<pipes, state, generation, expectedGeneration, openSent, commandSequence,
                 closeSequence, dataSequence, pending, abandoned, ending, staged,
                 outstandingUnits, failure, receipt, timer, result>>

\* flushCredits(), run by the watchdog.
FlushCredits ==
  /\ Open /\ creditUnits > 0
  /\ IF creditUnits > outstandingUnits
     THEN Fail("protocol") /\ UNCHANGED outstandingUnits
     ELSE /\ outstandingUnits' = outstandingUnits - creditUnits
          /\ creditUnits' = 0
          /\ commands' = Append(commands, Command("CREDIT", generation, 0, creditUnits))
          /\ UNCHANGED <<state, failure, ending, abandoned, pending, staged, held, secrets,
                         timer, commandSequence, closeSequence>>
  /\ UNCHANGED <<control, data, exit, generation, expectedGeneration, openSent, dataSequence,
                 receipt, result>>

\* command(): play(), pause() and seek().  The queued units are discarded;
\* PLAY and SEEK also forget an END and let the queues accept units again.
IssueControl(kind) ==
  LET gen == IF kind = "PAUSE" THEN generation ELSE generation + 1
      seq == commandSequence + 1
  IN /\ state \in {"playing", "paused"} /\ Idle
     /\ ~(kind = "PAUSE" /\ state = "paused")
     /\ kind = "SEEK" => ~Live
     /\ commandSequence < MaxRequests
     /\ commandSequence' = seq /\ expectedGeneration' = gen
     /\ pending' = [kind |-> kind, seq |-> seq, gen |-> gen]
     /\ held' = {} /\ creditUnits' = creditUnits + Cardinality(held)
     /\ ending' = IF kind = "PAUSE" THEN ending ELSE NoEnd
     /\ commands' = Append(commands, Command(kind, generation, seq, 0))
     /\ UNCHANGED <<control, data, secrets, exit, state, generation, openSent, closeSequence,
                    dataSequence, abandoned, staged, outstandingUnits, failure, receipt,
                    timer, result>>

-----------------------------------------------------------------------------
\* The worker is gone: a control pipe that ends without a receipt, or a data
\* pipe that ends before the END watermark, is a failure.
PipeEnd ==
  /\ exit # "running"
  /\ \/ state # "closed" /\ control = << >> /\ receipt = NoReceipt
     \/ Open /\ data = << >> /\ ~ending.complete
  /\ Fail("pipe")
  /\ UNCHANGED <<restVars, control>>

\* closeTimer: the command pipe is destroyed, a worker that still runs is
\* killed, which may not succeed, and killTimer is started.
CloseDeadline ==
  /\ state = "closing" /\ timer = "close"
  /\ timer' = "kill" /\ failure' = Cause("deadline")
  /\ exit' \in IF exit = "running" THEN {"killed", "running"} ELSE {exit}
  /\ commands' = Append(commands, Command("EOF", 0, 0, 0))
  /\ UNCHANGED <<control, data, secrets, state, generation, expectedGeneration,
                 openSent, commandSequence, closeSequence, dataSequence, pending, abandoned,
                 ending, staged, held, creditUnits, outstandingUnits, receipt, result>>

\* exited(): on the close event of the process, which follows the end of all
\* its pipes, or unobserved when killTimer fires.
ResultOptimistic(observed) ==   \* variant: an exit alone is taken for a cleanup
  LET remote == IF receipt # NoReceipt THEN receipt.remote
                ELSE IF openSent /\ ~observed THEN "uncertain" ELSE "not-created"
  IN [remote |-> remote, localCleanup |-> observed, failed |-> failure # "none"]
Result(observed) ==
  LET remote == IF receipt # NoReceipt THEN receipt.remote
                ELSE IF openSent THEN "uncertain" ELSE "not-created"
  IN [remote |-> remote,
      localCleanup |-> receipt.localCleanup /\ observed /\ exit = "0",
      failed |-> failure # "none" \/ ~observed \/ exit # "0" \/ remote = "uncertain"]

Exited(observed) ==
  /\ state # "closed"
  /\ IF observed THEN exit # "running" /\ control = << >> /\ data = << >>
                 ELSE timer = "kill"
  /\ state' = "closed"
  /\ result' = Result(observed)
  /\ failure' = IF result'.failed THEN Cause("exit") ELSE failure
  /\ ending' = NoEnd /\ pending' = NoControl
  /\ staged' = << >> /\ held' = {} /\ creditUnits' = 0
  /\ secrets' \in Destroyed(secrets)
  /\ timer' = "none"
  /\ commands' = Append(commands, Command("EOF", 0, 0, 0))
  /\ UNCHANGED <<control, data, exit, generation, expectedGeneration, openSent, commandSequence,
                 closeSequence, dataSequence, abandoned, outstandingUnits, receipt>>

SessionNext ==
  \/ Close \/ Abort \/ OpenDeadline \/ ControlDeadline \/ EndDeadline
  \/ SendOpen \/ OnHello \/ OnReady \/ OnControl \/ OnClosed \/ OnError \/ OnEnd \/ OnData
  \/ \E u \in held : Consume(u)
  \/ FlushCredits
  \/ \E kind \in Kinds : IssueControl(kind)
  \/ PipeEnd \/ CloseDeadline
  \/ Exited(TRUE) \/ Exited(FALSE)
=============================================================================
