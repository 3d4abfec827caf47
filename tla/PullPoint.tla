------------------------------ MODULE PullPoint ------------------------------
(***************************************************************************)
(* OwnedPullPoint (events/pullpoint.ts): one managed ONVIF event           *)
(* subscription.  The controller creates a subscription resource on the    *)
(* device, pulls notifications, renews or replaces the resource, and       *)
(* unsubscribes when it stops; a second chain of promises delivers the     *)
(* notifications to the listener.  phase is the await the controller is in.*)
(* A request and its effect on the device are one step, taken when the     *)
(* reply (or its loss) is seen; stop() and the delivery run in between.    *)
(* Of time only the order of events is kept: a lease may be found expired  *)
(* or due for renewal at any turn of the loop.                             *)
(***************************************************************************)
EXTENDS Integers, Sequences, FiniteSetsExt

CONSTANTS MessageLimit,    \* messageLimit of a pull
          MaxQueued,       \* maxQueuedMessages, active delivery included
          MaxRestarts,     \* maxRestarts; 0 also stands for restartOnExpiry = false
          Synchronize,     \* the synchronize option
          Renewal,         \* the renewal option
          Faults,          \* the faults that may happen
          MaxEvents        \* bound: events the device produces

ASSUME PullAssumption ==
  /\ MessageLimit \in Nat \ {0} /\ MaxQueued \in Nat \ {0} /\ MaxRestarts \in Nat
  /\ Synchronize \in BOOLEAN /\ Renewal \in BOOLEAN /\ MaxEvents \in Nat
  /\ Faults \subseteq {"drop", "expire", "lost", "reject", "limit", "clock", "listener"}

VARIABLES
  phase, state, stopRequested, aborted,
  errors,              \* what finish() collects
  remote, stopped,     \* the promises remoteStopped and stopPromise
  generation,          \* 0 while there is no endpoint
  endpointGone, cleanupAttempted, restarts, negotiations,
  continuity, diagnosed,                     \* diagnosed: a gap was reported
  queue, active, drain, awaiting, log,       \* the delivery; log is what was delivered
  accepted,                                  \* the number of records ever queued
  resource, inbox, produced, unsubscribes, orphan  \* the device

ctl == <<phase, state, stopRequested, aborted, errors, remote, stopped>>
own == <<generation, endpointGone, cleanupAttempted, restarts, negotiations>>
gap == <<continuity, diagnosed>>
delivery == <<queue, active, drain, awaiting, log, accepted>>
device == <<resource, inbox, produced, unsubscribes, orphan>>
vars == <<ctl, own, gap, delivery, device>>

Generation == 1..(MaxRestarts + 1)
NoRecord == [event |-> 0, continuity |-> "none"]

Init ==
  /\ phase = "creating" /\ state = "creating" /\ stopRequested = FALSE /\ aborted = FALSE
  /\ errors = {} /\ remote = "pending" /\ stopped = "pending"
  /\ generation = 0 /\ endpointGone = FALSE /\ cleanupAttempted = FALSE
  /\ restarts = 0 /\ negotiations = 0
  /\ continuity = "initial" /\ diagnosed = FALSE
  /\ queue = << >> /\ active = NoRecord /\ drain = "none" /\ awaiting = FALSE
  /\ log = << >> /\ accepted = 0
  /\ resource = [g \in Generation |-> "none"] /\ inbox = << >> /\ produced = 0
  /\ unsubscribes = [g \in Generation |-> 0] /\ orphan = FALSE

-----------------------------------------------------------------------------
\* diagnostic() of severity gap.
Gap == continuity' = "gap" /\ diagnosed' = TRUE

DeliveryFailed == drain = "failed"

\* The test at the head of release().
Owned == generation # 0 /\ ~endpointGone /\ ~cleanupAttempted

\* finish() up to its first await: the resource, if it is owned, is
\* unsubscribed; otherwise the remote side counts as settled.
Finish(es, owned) ==
  /\ stopRequested' = TRUE /\ aborted' = TRUE /\ state' = "closing"
  /\ errors' = errors \cup es
  /\ phase' = IF owned THEN "cleaning" ELSE "settling"
  /\ remote' = IF owned THEN remote ELSE "resolved"
  /\ cleanupAttempted' = (cleanupAttempted \/ owned)
  /\ UNCHANGED stopped

\* The controller goes on to await p.
Await(p, s) == /\ phase' = p /\ state' = s
               /\ UNCHANGED <<stopRequested, aborted, errors, remote, stopped>>

\* create(), which fails before it sends when the abort signal is set.
StartCreate ==
  IF aborted THEN Finish({"aborted"}, FALSE)
             ELSE Await("creating", "recovering") /\ UNCHANGED cleanupAttempted

\* recover(): a resource that may still exist is released before it is
\* replaced, within the restart budget.
Replace(gone) ==
  /\ endpointGone' = gone
  /\ IF restarts >= MaxRestarts
     THEN Finish({"expired"}, ~gone) /\ UNCHANGED restarts
     ELSE IF gone
     THEN StartCreate /\ restarts' = restarts + 1
     ELSE Await("releasing", "recovering") /\ cleanupAttempted' = TRUE /\ UNCHANGED restarts
  /\ UNCHANGED <<generation, negotiations>>
RecoverSilently(gone) == Replace(gone) /\ UNCHANGED gap   \* variant: no gap is reported
Recover(gone) == Replace(gone) /\ Gap

-----------------------------------------------------------------------------
\* The reply to CreatePullPointSubscription, in create(): the resource is
\* owned from then on, even if its endpoint or its lease is unusable.  A
\* request that was sent and never answered may leave a resource behind.
Create(outcome) ==
  LET g == generation + 1
  IN /\ phase = "creating"
     /\ \/ /\ outcome \in {"ok", "unusable"}
           /\ outcome = "unusable" => "reject" \in Faults
           /\ generation' = g /\ endpointGone' = FALSE
           /\ resource' = [resource EXCEPT ![g] = "alive"] /\ inbox' = << >>
           /\ CASE outcome = "unusable"      -> Finish({"invalid"}, TRUE)
                [] Synchronize /\ outcome = "ok" ->
                     IF aborted THEN Finish({"aborted"}, TRUE)
                     ELSE Await("synchronizing", state) /\ cleanupAttempted' = FALSE
                [] OTHER -> Await("loop", "active") /\ cleanupAttempted' = FALSE
           /\ UNCHANGED orphan
        \/ /\ outcome = "failed" /\ (aborted \/ Faults \cap {"lost", "reject"} # {})
           /\ orphan' \in IF aborted \/ "lost" \in Faults THEN BOOLEAN ELSE {orphan}
           /\ orphan => orphan'
           /\ Finish({"create"}, Owned)
           /\ UNCHANGED <<generation, endpointGone, resource, inbox>>
     /\ UNCHANGED <<restarts, negotiations, gap, delivery, produced, unsubscribes>>

\* SetSynchronizationPoint, in create().
Synchronized ==
  /\ phase = "synchronizing"
  /\ \/ resource[generation] = "alive" /\ Await("loop", "active") /\ UNCHANGED cleanupAttempted
     \/ /\ aborted \/ resource[generation] # "alive" \/ Faults \cap {"lost", "reject"} # {}
        /\ Finish({"sync"}, Owned)
  /\ UNCHANGED <<generation, endpointGone, restarts, negotiations, gap, delivery, device>>

\* The head of the loop of run().
Loop ==
  /\ phase = "loop"
  /\ \/ /\ stopRequested \/ DeliveryFailed
        /\ Finish(IF stopRequested THEN {} ELSE {"delivery"}, Owned)
        /\ UNCHANGED <<generation, endpointGone, restarts, negotiations, gap>>
     \/ /\ ~stopRequested /\ ~DeliveryFailed
        /\ \/ "expire" \in Faults /\ Recover(FALSE)
           \/ /\ \/ Renewal /\ Await("renewing", state)
                 \/ Await("pulling", state)
              /\ UNCHANGED <<own, gap>>
  /\ UNCHANGED <<delivery, device>>

\* The catch block of a pull that failed for the given reason.
PullFailed(reason) ==
  IF DeliveryFailed
  THEN Finish({"delivery"}, Owned)
       /\ UNCHANGED <<generation, endpointGone, restarts, negotiations, gap>>
  ELSE IF stopRequested
  THEN Finish({}, Owned) /\ Gap /\ UNCHANGED <<generation, endpointGone, restarts, negotiations>>
  ELSE CASE reason = "limit" /\ negotiations < 2 ->
              /\ negotiations' = negotiations + 1 /\ Await("loop", state)
              /\ UNCHANGED <<generation, endpointGone, cleanupAttempted, restarts, gap>>
         [] reason = "unknown" -> Recover(TRUE)
         [] OTHER -> /\ Finish({"pull"}, Owned) /\ Gap
                     /\ UNCHANGED <<generation, endpointGone, restarts, negotiations>>

\* Renew: its failure is not told apart from a failed delivery.
Renew ==
  /\ phase = "renewing"
  /\ \/ /\ resource[generation] = "alive"
        /\ IF aborted THEN PullFailed("aborted")
           ELSE /\ Await("pulling", state) /\ UNCHANGED own
                /\ \/ UNCHANGED gap
                   \/ "clock" \in Faults /\ Gap
     \/ /\ resource[generation] = "alive" /\ "reject" \in Faults   \* timing() fails
        /\ Finish({"invalid"}, Owned)
        /\ UNCHANGED <<generation, endpointGone, restarts, negotiations, gap>>
     \/ /\ resource[generation] # "alive" /\ ~stopRequested
        /\ Recover(TRUE)
     \/ /\ stopRequested \/ aborted \/ Faults \cap {"lost", "reject"} # {}
        /\ Finish(IF stopRequested THEN {} ELSE {"renew"}, Owned) /\ Gap
        /\ UNCHANGED <<generation, endpointGone, restarts, negotiations>>
  /\ UNCHANGED <<delivery, device>>

-----------------------------------------------------------------------------
\* enqueue() of a batch: what exceeds the capacity is an overflow.  The first
\* record starts drain(), which takes the oldest record at once.
Room == MaxQueued - Len(queue) - (IF active = NoRecord THEN 0 ELSE 1)

Labelled(events, first) ==
  [i \in 1..Len(events) |->
     [event |-> events[i], continuity |-> IF i = 1 THEN first ELSE "continuous"]]

Enqueue(records) ==
  LET all == queue \o records
  IN /\ accepted' = accepted + Len(records)
     /\ IF records # << >> /\ drain = "none"
        THEN /\ active' = Head(all) /\ queue' = Tail(all) /\ drain' = "running"
             /\ UNCHANGED <<awaiting, log>>
        ELSE queue' = all /\ UNCHANGED <<active, drain, awaiting, log>>

\* A pull that was answered with the k oldest messages: they are queued unless
\* a stop came first or the answer is malformed.
Pulled ==
  \E k \in 0..Min({MessageLimit, Len(inbox)}), regressed \in {FALSE} \cup {"clock" \in Faults} :
    LET first == IF regressed THEN "gap" ELSE continuity
        fitting == SubSeq(inbox, 1, Min({k, Room}))
    IN /\ phase = "pulling" /\ resource[generation] = "alive"
       /\ inbox' = SubSeq(inbox, k + 1, Len(inbox))
       /\ \/ /\ "reject" \in Faults
             /\ Finish({"invalid"}, Owned) /\ UNCHANGED <<gap, delivery>>
          \/ /\ stopRequested
             /\ Finish({}, Owned)
             /\ IF regressed THEN Gap ELSE UNCHANGED gap
             /\ UNCHANGED delivery
          \/ /\ ~stopRequested
             /\ Enqueue(Labelled(fitting, first))
             /\ IF k > Room
                THEN Finish({"overflow"}, Owned) /\ Gap
                ELSE /\ Await("loop", state) /\ UNCHANGED cleanupAttempted
                     /\ continuity' = IF k > 0 THEN "continuous" ELSE first
                     /\ diagnosed' = (diagnosed \/ regressed)
       /\ UNCHANGED <<generation, endpointGone, restarts, negotiations, resource, produced,
                      unsubscribes, orphan>>

\* A pull that failed; the device may have drained messages all the same.
PullFails ==
  /\ phase = "pulling"
  /\ \/ resource[generation] # "alive" /\ PullFailed("unknown") /\ UNCHANGED inbox
     \/ "limit" \in Faults /\ PullFailed("limit") /\ UNCHANGED inbox
     \/ /\ aborted \/ Faults \cap {"lost", "reject"} # {}
        /\ PullFailed("failed")
        /\ \E k \in 0..(IF aborted \/ "lost" \in Faults THEN Min({MessageLimit, Len(inbox)}) ELSE 0) :
             inbox' = SubSeq(inbox, k + 1, Len(inbox))
  /\ UNCHANGED <<delivery, resource, produced, unsubscribes, orphan>>

-----------------------------------------------------------------------------
\* Unsubscribe: confirmed, also by the fault that the resource does not
\* exist, or lost, with or without its effect.
Unsubscribed ==
  /\ unsubscribes' = [unsubscribes EXCEPT ![generation] = @ + 1]
  /\ resource' = [resource EXCEPT ![generation] = "gone"]
  /\ inbox' = << >>
UnsubscribeLost ==
  /\ Faults \cap {"lost", "reject"} # {}
  /\ \/ Unsubscribed
     \/ /\ unsubscribes' = [unsubscribes EXCEPT ![generation] = @ + 1]
        /\ UNCHANGED <<resource, inbox>>

\* release() awaited by recover(); a failure ends the subscription.
Release ==
  /\ phase = "releasing"
  /\ \/ /\ Unsubscribed
        /\ endpointGone' = TRUE /\ restarts' = restarts + 1
        /\ StartCreate
     \/ /\ UnsubscribeLost
        /\ Finish({"cleanup"}, Owned) /\ UNCHANGED <<endpointGone, restarts>>
  /\ UNCHANGED <<generation, negotiations, gap, delivery, produced, orphan>>

\* release() awaited by finish().
Clean ==
  /\ phase = "cleaning"
  /\ \/ /\ Unsubscribed /\ endpointGone' = TRUE
        /\ remote' = "resolved" /\ UNCHANGED <<errors, state>>
     \/ /\ UnsubscribeLost
        /\ remote' = "rejected" /\ errors' = errors \cup {"cleanup"} /\ state' = "uncertain"
        /\ UNCHANGED endpointGone
  /\ phase' = "settling"
  /\ UNCHANGED <<stopRequested, aborted, stopped, generation, cleanupAttempted, restarts,
                 negotiations, gap, delivery, produced, orphan>>

\* The rest of finish(): it waits for the delivery, reports what was not
\* delivered, and settles stopPromise, after the error listener if there is
\* one to call.
SettleEager ==   \* variant: the delivery is not awaited
  /\ phase = "settling"
  /\ phase' = "done" /\ state' = "closed" /\ stopped' = "resolved" /\ queue' = << >>
  /\ UNCHANGED <<stopRequested, aborted, errors, remote, own, gap, active, drain, awaiting, log, accepted, device>>
Settle ==
  LET es == errors \cup (IF DeliveryFailed THEN {"delivery"} ELSE {})
  IN /\ phase = "settling" /\ drain # "running"
     /\ queue' = << >> /\ IF queue # << >> THEN Gap ELSE UNCHANGED gap
     /\ errors' = es
     /\ IF es # {}
        THEN /\ phase' = "notifying" /\ UNCHANGED stopped
             /\ state' = IF state = "uncertain" THEN state ELSE "failed"
        ELSE phase' = "done" /\ state' = "closed" /\ stopped' = "resolved"
     /\ UNCHANGED <<stopRequested, aborted, remote, own, active, drain, awaiting, log, accepted, device>>
Notify ==
  /\ phase = "notifying"
  /\ phase' = "done" /\ stopped' = "rejected"
  /\ UNCHANGED <<state, stopRequested, aborted, errors, remote, own, gap, delivery, device>>

-----------------------------------------------------------------------------
\* externalStop(), from stop(), close() or the caller's signal.
RequestStop ==
  /\ stopRequested' = TRUE /\ aborted' = TRUE
  /\ state' = IF stopRequested THEN state ELSE "closing"
  /\ UNCHANGED <<phase, errors, remote, stopped>>
Stop == ~stopRequested /\ RequestStop /\ UNCHANGED <<own, gap, delivery, device>>

\* stop() called and awaited by the listener itself: it gets remoteStopped.
CallbackStops ==
  /\ active # NoRecord /\ ~awaiting
  /\ awaiting' = TRUE /\ RequestStop
  /\ UNCHANGED <<own, gap, queue, active, drain, log, accepted, device>>

\* drain(): the next record, unless a stop was requested.
Advance ==
  IF queue # << >> /\ ~stopRequested
  THEN active' = Head(queue) /\ queue' = Tail(queue) /\ UNCHANGED drain
  ELSE active' = NoRecord /\ drain' = "exited" /\ UNCHANGED queue

CallbackReturnsAfterStop ==   \* variant: the listener is given stopPromise
  /\ active # NoRecord /\ (awaiting => stopped # "pending")
  /\ log' = Append(log, active) /\ awaiting' = FALSE
  /\ Advance
  /\ UNCHANGED <<ctl, own, gap, accepted, device>>
CallbackReturns ==
  /\ active # NoRecord /\ (awaiting => remote # "pending")
  /\ log' = Append(log, active) /\ awaiting' = FALSE
  /\ Advance
  /\ UNCHANGED <<ctl, own, gap, accepted, device>>

\* The listener throws or exceeds deliveryTimeoutMs.
CallbackFails ==
  /\ active # NoRecord
  /\ "listener" \in Faults \/ (awaiting /\ remote = "rejected")
  /\ active' = NoRecord /\ awaiting' = FALSE /\ drain' = "failed"
  /\ Gap /\ aborted' = TRUE
  /\ UNCHANGED <<phase, state, stopRequested, errors, remote, stopped, own, queue, log, accepted, device>>

\* The reaction of enqueue() to the end of drain().
DrainCleared ==
  /\ drain = "exited" /\ drain' = "none"
  /\ UNCHANGED <<ctl, own, gap, queue, active, awaiting, log, accepted, device>>

\* The device: an event reaches the subscription if there is one; a reboot or
\* an expired lease removes it with all it holds.
Event ==
  /\ produced < MaxEvents
  /\ produced' = produced + 1
  /\ inbox' = IF generation # 0 /\ resource[generation] = "alive"
              THEN Append(inbox, produced + 1) ELSE inbox
  /\ UNCHANGED <<ctl, own, gap, delivery, resource, unsubscribes, orphan>>
Drop ==
  /\ "drop" \in Faults /\ generation # 0 /\ resource[generation] = "alive"
  /\ resource' = [resource EXCEPT ![generation] = "gone"] /\ inbox' = << >>
  /\ UNCHANGED <<ctl, own, gap, delivery, produced, unsubscribes, orphan>>

Controller ==
  \/ \E outcome \in {"ok", "unusable", "failed"} : Create(outcome)
  \/ Synchronized \/ Loop \/ Renew \/ Pulled \/ PullFails \/ Release \/ Clean \/ Settle \/ Notify

Next == \/ Controller \/ Stop \/ CallbackStops \/ CallbackReturns \/ CallbackFails \/ DrainCleared
        \/ Event \/ Drop

Spec == Init /\ [][Next]_vars

\* Every request has a deadline, so the controller's awaits end, and a listener
\* that is not waiting for its own stop() returns or times out.  One that is may
\* not rely on its timeout: only on remoteStopped.
FairSpec == Spec /\ WF_vars(Controller) /\ WF_vars(CallbackReturns) /\ WF_vars(DrainCleared)

-----------------------------------------------------------------------------
\* recover() never leaves a subscription behind on the device: a resource is
\* gone before the next one is created, whatever was lost on the way.
OneResource == \A g \in 1..(generation - 1) : resource[g] = "gone"

\* release(): a resource is unsubscribed at most once, although recover(),
\* finish() and every stop() may ask for it and an answer may be lost.
UnsubscribeOnce == \A g \in Generation : unsubscribes[g] <= 1

\* finish(): "closed" means that nothing is left: no resource on the device, no
\* listener running, nothing queued, and stopPromise resolved.
ClosedClean ==
  state = "closed" =>
    /\ ~orphan /\ \A g \in Generation : resource[g] # "alive"
    /\ drain # "running" /\ active = NoRecord /\ queue = << >> /\ stopped = "resolved"

\* The listener that awaits its own stop() is told "resolved" only when the
\* resource is gone.  It is told so as well when recover() already tried to
\* release the resource and failed ("cleanup"): release() then does nothing, and
\* the failure is among the errors that end the subscription.
RemoteConfirmed ==
  (remote = "resolved" /\ generation # 0 /\ "cleanup" \notin errors) => resource[generation] = "gone"

\* What was created on the device is released once, and finish() and stop()
\* report no cleanup that did not happen, but for a listener's own stop() after
\* a failed recovery (RemoteConfirmed).
CleanupHonest == OneResource /\ UnsubscribeOnce /\ ClosedClean /\ RemoteConfirmed

\* The continuity label is honest: a record labelled continuous is the device's
\* next event after the record delivered before it, across generations.
ContinuityHonest ==
  \A i \in 1..Len(log) :
    /\ IF i = 1 THEN log[i].continuity # "continuous" ELSE log[i].continuity # "initial"
    /\ i > 1 => /\ log[i].event > log[i - 1].event
                /\ log[i].continuity = "continuous" => log[i].event = log[i - 1].event + 1

\* enqueue() bounds what waits and what is being delivered together.
CapacityBounded == Len(queue) + (IF active = NoRecord THEN 0 ELSE 1) <= MaxQueued

\* finish(): a record that was queued and not delivered was reported as a gap.
UndeliveredDiagnosed == (phase = "done" /\ accepted # Len(log)) => diagnosed

\* What the listener is handed (enqueue, drain, finish) is bounded, in order and
\* labelled as continuous only where it is, and what it misses is diagnosed.
DeliveryHonest == ContinuityHonest /\ CapacityBounded /\ UndeliveredDiagnosed

\* stop() settles, also when the listener awaits it and when every request
\* of the cleanup is lost.
StopSettles == stopRequested ~> phase = "done" /\ stopped # "pending"
=============================================================================
