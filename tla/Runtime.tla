------------------------------- MODULE Runtime -------------------------------
(***************************************************************************)
(* Ownership in the native runtime: what a runtime and a media executor    *)
(* have started they must have ended when close() settles.  Runtime        *)
(* (binding/runtime.ts) tracks interactions, MultiplexFactory              *)
(* (multiplexer.ts) owns ordinary HTTP clients and their subscriptions,    *)
(* NativeEventClient (events/consumer.ts) owns native event subscriptions, *)
(* and MediaExecutor (media/executor.ts) owns native sessions, which it    *)
(* opens through a tracked call of the runtime.                            *)
(*                                                                         *)
(* Every await is a step; what a remote party answers is a choice.  A pull *)
(* point is PullPoint seen from outside: created or not, and its stop      *)
(* confirmed or not.  A media session is MediaLink seen from outside.      *)
(***************************************************************************)
EXTENDS Naturals, FiniteSets

CONSTANTS Plain, Events, Managed, Media,        \* interactions a host may start
          MaxManaged, MaxEvents, MaxMedia       \* 64, 64 and 32 in the code

ASSUME RuntimeAssumption == MaxManaged \in Nat /\ MaxEvents \in Nat /\ MaxMedia \in Nat

VARIABLES
  used,      \* what this host uses: one of the four families
  stage,     \* close(): "open", "pending", "events", "factories", "transport", "closed"
  waiting,   \* the promises shutdown() awaits first
  failed,    \* the shutdown collected an error
  service,   \* consume(): "none", "starting", "ready", "failed"
  plain,     \* an ordinary interaction: "none", "credential", "running", "done", "failed"
  clients,   \* HTTP clients of the factories
  links,     \* ordinary subscriptions of the factories
  event,     \* "none", "linking", "creating", "registering", "undoing", "owned", "stopping", "ended"
  owned,     \* NativeEventClient.owned
  uncertain, \* event subscriptions whose stop rejected
  managed,   \* "none", "active", "closing", "closed", "uncertain"
  remote,    \* subscriptions that exist on a device
  media,     \* "none", "resolving", "securing", "starting", "open", "closing", "ended"
  calls,     \* resolver calls in flight
  aborted,   \* controllers that have been aborted
  workers,   \* worker processes that run
  executor   \* MediaExecutor.close(): "open", "closing", "closed"

runtimeVars == <<stage, waiting, failed, service>>
plainVars == <<plain, clients, links>>
eventVars == <<event, owned, uncertain>>
mediaVars == <<media, calls, aborted, workers, executor>>
vars == <<used, runtimeVars, plainVars, eventVars, managed, remote, mediaVars>>

Accepting == stage = "open"
Tracked == {x \in {"consume"} : service = "starting"}
           \cup {p \in Plain : plain[p] \in {"credential", "running"}}
           \cup {e \in Events : event[e] \in {"linking", "creating", "registering", "undoing"}}
           \cup {m \in Managed : managed[m] = "closing"}
           \cup calls

Init ==
  /\ used \in {Plain \cup Events, Events \cup Managed, Media, Plain \cup Managed}
  /\ stage = "open" /\ waiting = {} /\ failed = FALSE /\ service = "none"
  /\ plain = [p \in Plain |-> "none"] /\ clients = {} /\ links = {}
  /\ event = [e \in Events |-> "none"] /\ owned = {} /\ uncertain = {}
  /\ managed = [m \in Managed |-> "none"] /\ remote = {}
  /\ media = [m \in Media |-> "none"] /\ calls = {} /\ aborted = {} /\ workers = {}
  /\ executor = "open"

-----------------------------------------------------------------------------
\* consume(): the service is registered before the first await, so that a close
\* in between still finds it.
Consume ==
  /\ Accepting /\ service = "none" /\ service' = "starting"
  /\ UNCHANGED <<used, stage, waiting, failed, plainVars, eventVars, managed, remote, mediaVars>>
Consumed ==
  /\ service = "starting" /\ service' \in {"ready", "failed"}
  /\ UNCHANGED <<used, stage, waiting, failed, plainVars, eventVars, managed, remote, mediaVars>>

\* An interaction: a native Form is executed as SoapExchange describes; for an
\* ordinary one plain() authorises it, looks up its credential and makes a
\* client of its own, which stays with the factory.
Interact(p) ==
  /\ p \in used /\ Accepting /\ service = "ready" /\ plain[p] = "none"
  /\ plain' = [plain EXCEPT ![p] = "credential"]
  /\ UNCHANGED <<used, runtimeVars, clients, links, eventVars, managed, remote, mediaVars>>
MakeClient(p) ==
  /\ plain[p] = "credential"
  /\ \/ plain' = [plain EXCEPT ![p] = "running"] /\ clients' \in {clients, clients \cup {p}}
     \/ plain' = [plain EXCEPT ![p] = "failed"] /\ UNCHANGED clients
  /\ UNCHANGED <<used, runtimeVars, links, eventVars, managed, remote, mediaVars>>
\* The request of the interaction ends; a subscription is noted for unlinking in
\* place of an earlier one of the same href, and unlinkResource() forgets it.
Interacted(p) ==
  /\ plain[p] = "running"
  /\ plain' = [plain EXCEPT ![p] = "done"]
  /\ \E q \in {{}} \cup {{x} : x \in links} : links' \in {links \ q, (links \ q) \cup ({p} \cap clients)}
  /\ UNCHANGED <<used, runtimeVars, clients, eventVars, managed, remote, mediaVars>>

-----------------------------------------------------------------------------
\* NativeEventClient.subscribeEvent(): refused while the client closes, for a
\* name that is starting and beyond the capacity.
Starting == {e \in Events : event[e] \in {"linking", "creating", "registering", "undoing"}}
SubscribeEvent(e) ==
  /\ e \in used /\ Accepting /\ service = "ready" /\ event[e] = "none"
  /\ Cardinality(owned) + Cardinality(Starting) < MaxEvents
  /\ event' = [event EXCEPT ![e] = "linking"]
  /\ UNCHANGED <<used, runtimeVars, plainVars, owned, uncertain, managed, remote, mediaVars>>

\* node-wot calls subscribeResource(), which is tracked once more: after a
\* close() in between it is refused.
LinkEvent(e) ==
  /\ event[e] = "linking"
  /\ event' = [event EXCEPT ![e] = IF Accepting THEN "creating" ELSE "ended"]
  /\ UNCHANGED <<used, runtimeVars, plainVars, owned, uncertain, managed, remote, mediaVars>>
\* startPullPoint() ends: nothing was created, or the subscription is owned.
CreateEvent(e) ==
  /\ event[e] = "creating"
  /\ \/ event' = [event EXCEPT ![e] = "ended"] /\ UNCHANGED <<owned, remote>>
     \/ /\ event' = [event EXCEPT ![e] = "registering"]
        /\ owned' = owned \cup {e} /\ remote' = remote \cup {e}
  /\ UNCHANGED <<used, runtimeVars, plainVars, uncertain, managed, mediaVars>>
\* node-wot returns its own subscription, or fails and the pull point is
\* stopped; its entry in the owned set stays.
RegisterEvent(e) ==
  /\ event[e] = "registering"
  /\ event' \in {[event EXCEPT ![e] = "owned"], [event EXCEPT ![e] = "undoing"]}
  /\ UNCHANGED <<used, runtimeVars, plainVars, owned, uncertain, managed, remote, mediaVars>>
UndoEvent(e) ==
  /\ event[e] = "undoing"
  /\ event' = [event EXCEPT ![e] = "ended"]
  /\ \/ remote' = remote \ {e} /\ UNCHANGED uncertain
     \/ remote' \in {remote, remote \ {e}} /\ uncertain' = uncertain \cup {e}
  /\ UNCHANGED <<used, runtimeVars, plainVars, owned, managed, mediaVars>>

\* OwnedEvent.stop() or the end of the pull point itself: a confirmed stop
\* leaves the owned set, a failed one stays for close() to report.
StopEvent(e) ==
  /\ event[e] = "owned"
  /\ event' = [event EXCEPT ![e] = "stopping"]
  /\ UNCHANGED <<used, runtimeVars, plainVars, owned, uncertain, managed, remote, mediaVars>>
EventStopped(e) ==
  /\ event[e] = "stopping"
  /\ event' = [event EXCEPT ![e] = "ended"]
  /\ \/ owned' = owned \ {e} /\ remote' = remote \ {e} /\ UNCHANGED uncertain
     \/ uncertain' = uncertain \cup {e} /\ remote' \in {remote, remote \ {e}} /\ UNCHANGED owned
  /\ UNCHANGED <<used, runtimeVars, plainVars, managed, mediaVars>>

-----------------------------------------------------------------------------
\* manageSubscription(): a resource the host created is owned from here on.
Subscriptions == {m \in Managed : managed[m] \in {"active", "closing", "uncertain"}}
Manage(m) ==
  /\ m \in used /\ Accepting /\ service = "ready" /\ managed[m] = "none"
  /\ Cardinality(Subscriptions) < MaxManaged
  /\ managed' = [managed EXCEPT ![m] = "active"] /\ remote' = remote \cup {m}
  /\ UNCHANGED <<used, runtimeVars, plainVars, eventVars, mediaVars>>
\* OwnedSubscription.stop(): the cleanup is tracked even while closing.
StopManaged(m) ==
  /\ managed[m] = "active"
  /\ managed' = [managed EXCEPT ![m] = "closing"]
  /\ UNCHANGED <<used, runtimeVars, plainVars, eventVars, remote, mediaVars>>
ManagedStopped(m) ==
  /\ managed[m] = "closing"
  /\ \/ managed' = [managed EXCEPT ![m] = "closed"] /\ remote' = remote \ {m}
     \/ managed' = [managed EXCEPT ![m] = "uncertain"] /\ remote' \in {remote, remote \ {m}}
  /\ UNCHANGED <<used, runtimeVars, plainVars, eventVars, mediaVars>>

-----------------------------------------------------------------------------
\* Runtime.close(): no more interactions; shutdown() awaits those that run and
\* stops the managed subscriptions.
Close ==
  /\ Accepting /\ stage' = "pending"
  /\ managed' = [m \in Managed |-> IF managed[m] = "active" THEN "closing" ELSE managed[m]]
  /\ waiting' = Tracked \cup Subscriptions
  /\ UNCHANGED <<used, failed, service, plainVars, eventVars, remote, mediaVars>>
PendingSettledPassive ==  \* variant: awaits the event subscriptions without stopping them
  /\ stage = "pending" /\ waiting \cap Tracked = {}
  /\ stage' = "events" /\ failed' = (failed \/ \E m \in Managed : managed[m] = "uncertain")
  /\ UNCHANGED <<used, waiting, service, plainVars, eventVars, managed, remote, mediaVars>>
PendingSettled ==
  /\ stage = "pending" /\ waiting \cap Tracked = {}
  /\ stage' = "events"
  /\ failed' = (failed \/ \E m \in Managed : managed[m] = "uncertain")
  /\ event' = [e \in Events |-> IF e \in owned /\ event[e] = "owned" THEN "stopping" ELSE event[e]]
  /\ UNCHANGED <<used, waiting, service, plainVars, owned, uncertain, managed, remote, mediaVars>>
\* NativeEventClient.close(): waits for every owned subscription, also for one
\* whose stop was requested before; one that was not confirmed is an error.
EventsClosed ==
  /\ stage = "events" /\ \A e \in owned : event[e] = "ended"
  /\ stage' = "factories" /\ failed' = (failed \/ owned \cap uncertain # {})
  /\ UNCHANGED <<used, waiting, service, plainVars, eventVars, managed, remote, mediaVars>>
\* MultiplexFactory.close(): unlinks what is subscribed, stops every client.
FactoriesClosed ==
  /\ stage = "factories" /\ stage' = "transport"
  /\ failed' \in IF links = {} THEN {failed} ELSE {failed, TRUE}
  /\ links' = {} /\ clients' = {}
  /\ UNCHANGED <<used, waiting, service, plain, eventVars, managed, remote, mediaVars>>
\* Servients, codecs and the transport, which awaits its own requests.
TransportClosed ==
  /\ stage = "transport" /\ calls = {} /\ stage' = "closed"
  /\ UNCHANGED <<used, waiting, failed, service, plainVars, eventVars, managed, remote, mediaVars>>

-----------------------------------------------------------------------------
\* MediaExecutor.openMedia(): bounded by what is pending and what is open; the
\* URI is resolved through the runtime.
Pending == {m \in Media : media[m] \in {"resolving", "securing", "starting"}}
Sessions == {m \in Media : media[m] \in {"open", "closing"}}
OpenMedia(m) ==
  /\ m \in used /\ executor = "open" /\ service = "ready" /\ media[m] = "none"
  /\ Cardinality(Pending) + Cardinality(Sessions) < MaxMedia
  /\ IF Accepting
     THEN media' = [media EXCEPT ![m] = "resolving"] /\ calls' = calls \cup {m}
     ELSE media' = [media EXCEPT ![m] = "ended"] /\ UNCHANGED calls
  /\ UNCHANGED <<used, runtimeVars, plainVars, eventVars, managed, remote, aborted, workers, executor>>
\* The resolver call ends, whether or not open() still awaits it.
Resolved(m) ==
  /\ m \in calls /\ calls' = calls \ {m}
  /\ media' \in IF media[m] = "resolving" /\ m \notin aborted
                THEN {[media EXCEPT ![m] = "securing"], [media EXCEPT ![m] = "ended"]} ELSE {media}
  /\ UNCHANGED <<used, runtimeVars, plainVars, eventVars, managed, remote, aborted, workers, executor>>
\* The host's security resolver answers; the worker is spawned unless open() was
\* aborted meanwhile.
Secured(m) ==
  /\ media[m] = "securing"
  /\ \/ /\ m \notin aborted /\ executor = "open"
        /\ media' = [media EXCEPT ![m] = "starting"] /\ workers' = workers \cup {m}
     \/ media' = [media EXCEPT ![m] = "ended"] /\ UNCHANGED workers
  /\ UNCHANGED <<used, runtimeVars, plainVars, eventVars, managed, remote, calls, aborted, executor>>
\* startMediaSession() fails and has closed its worker, or the session is open;
\* one that is not wanted any more is closed before open() rejects.
WantedAlways(m) == TRUE  \* variant: a late session is handed out after close()
Wanted(m) == executor = "open" /\ m \notin aborted
Started(m) ==
  /\ media[m] = "starting"
  /\ \/ media' = [media EXCEPT ![m] = "ended"] /\ workers' = workers \ {m}
     \/ media' = [media EXCEPT ![m] = IF Wanted(m) THEN "open" ELSE "closing"] /\ UNCHANGED workers
  /\ UNCHANGED <<used, runtimeVars, plainVars, eventVars, managed, remote, calls, aborted, executor>>
\* The request's signal or the deadline of open(); what abortable() awaits is
\* rejected, a session closes by itself.
Abort(m) ==
  /\ media[m] \in {"resolving", "securing", "starting", "open"} /\ m \notin aborted
  /\ aborted' = aborted \cup {m}
  /\ media' = [media EXCEPT ![m] = IF @ = "open" THEN "closing" ELSE @]
  /\ UNCHANGED <<used, runtimeVars, plainVars, eventVars, managed, remote, calls, workers, executor>>
Rejected(m) ==
  /\ media[m] \in {"resolving", "securing"} /\ m \in aborted
  /\ media' = [media EXCEPT ![m] = "ended"]
  /\ UNCHANGED <<used, runtimeVars, plainVars, eventVars, managed, remote, calls, aborted, workers, executor>>
\* The session closes, by its consumer, by its own failure or by the executor.
CloseSession(m) ==
  /\ media[m] = "open" /\ media' = [media EXCEPT ![m] = "closing"]
  /\ UNCHANGED <<used, runtimeVars, plainVars, eventVars, managed, remote, calls, aborted, workers, executor>>
SessionClosed(m) ==
  /\ media[m] = "closing"
  /\ media' = [media EXCEPT ![m] = "ended"] /\ workers' = workers \ {m}
  /\ UNCHANGED <<used, runtimeVars, plainVars, eventVars, managed, remote, calls, aborted, executor>>

\* MediaExecutor.close(): aborts what is pending, closes what is open, and waits
\* for both; a session that became open afterwards would not be waited for.
CloseExecutor ==
  /\ executor = "open" /\ executor' = "closing"
  /\ aborted' = aborted \cup Pending
  /\ media' = [m \in Media |-> IF media[m] = "open" THEN "closing" ELSE media[m]]
  /\ UNCHANGED <<used, runtimeVars, plainVars, eventVars, managed, remote, calls, workers>>
ExecutorClosed ==
  /\ executor = "closing" /\ Pending = {} /\ \A m \in Media : media[m] # "closing"
  /\ executor' = "closed"
  /\ UNCHANGED <<used, runtimeVars, plainVars, eventVars, managed, remote, media, calls, aborted, workers>>

-----------------------------------------------------------------------------
Host == \/ Consume \/ Close \/ CloseExecutor
        \/ \E p \in Plain : Interact(p)
        \/ \E e \in Events : SubscribeEvent(e) \/ StopEvent(e)
        \/ \E m \in Managed : Manage(m) \/ StopManaged(m)
        \/ \E m \in Media : OpenMedia(m) \/ Abort(m) \/ CloseSession(m)

\* Every await ends: requests, lookups and stops have deadlines.
Work == \/ Consumed \/ PendingSettled \/ EventsClosed \/ FactoriesClosed \/ TransportClosed \/ ExecutorClosed
        \/ \E p \in Plain : MakeClient(p) \/ Interacted(p)
        \/ \E e \in Events : LinkEvent(e) \/ CreateEvent(e) \/ RegisterEvent(e) \/ UndoEvent(e) \/ EventStopped(e)
        \/ \E m \in Managed : ManagedStopped(m)
        \/ \E m \in Media : Resolved(m) \/ Rejected(m) \/ Secured(m) \/ Started(m) \/ SessionClosed(m)

Next == Host \/ Work
Spec == Init /\ [][Next]_vars
FairSpec == Spec /\ WF_vars(Work)

-----------------------------------------------------------------------------
\* Runtime.close() leaves nothing behind: no tracked work, no HTTP client, no
\* ordinary subscription, and a subscription may remain on a device only if the
\* close rejected with the cleanup that was not confirmed.
ClosedOwnsNothing ==
  stage = "closed" =>
    /\ Tracked = {} /\ clients = {} /\ links = {}
    /\ remote # {} => failed

\* A media session ends with its executor: when close() resolves no open is
\* pending and no worker runs, and the workers that run, those being closed
\* included, never exceed the capacity.
MediaOwned ==
  /\ executor = "closed" => workers = {} /\ Pending = {}
  /\ Cardinality(workers) <= MaxMedia

\* Both owners give up everything they own before they report themselves closed.
OwnershipReleased == ClosedOwnsNothing /\ MediaOwned

\* Whatever is in flight, both close() promises settle.
ClosesSettle == (stage = "pending" ~> stage = "closed") /\ (executor = "closing" ~> executor = "closed")
=============================================================================
