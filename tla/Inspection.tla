------------------------------ MODULE Inspection ------------------------------
(***************************************************************************)
(* What the discovery engine (discovery/engine.ts) has in flight: the      *)
(* Probe and Resolve requests of one segment with their retransmissions,   *)
(* and the native inspection of one device (discovery/inspect.ts) through  *)
(* a read adapter (discovery/read-adapters.ts), with the liveness rounds   *)
(* that lead to the retirement of a device and the bounded shutdown.       *)
(*                                                                         *)
(* Neither a send nor a native read need ever settle.  The engine gives    *)
(* up on them by timers, so that time is only seen in which timer has run  *)
(* out: every timer is a flag, or an action, of its own.  The snapshots,   *)
(* the ordering of the announcements and the queue of inspections are      *)
(* modelled by Discovery.                                                  *)
(***************************************************************************)
EXTENDS Integers, FiniteSets, SequencesExt

CONSTANTS MaxRequests,                \* maxPendingRequests
          Retransmissions,            \* attempts of one request
          MaxReads,                   \* maxConcurrentInspections
          MaxPages, MaxResources,     \* bounds of one paged inventory
          Budget,                     \* maxRequestsPerInspection
          MaxRounds,                  \* rounds of a behaviour
          Scenarios                   \* sets of Features, of which a behaviour has one

\* What a behaviour may meet: requests, with failing sends and the untyped
\* fallback; native reads, with refusals; liveness rounds of a device that says
\* Bye or becomes stale; paged inventories; close().
Features == {"probe", "fails", "fallback", "reads", "refusals", "liveness", "bye", "stale",
             "list", "close"}

ASSUME InspectionAssumption ==
  /\ {MaxRequests, Retransmissions, MaxReads, MaxPages, MaxResources, Budget} \subseteq Nat \ {0}
  /\ MaxRounds \in Nat
  /\ Scenarios \subseteq SUBSET Features

VARIABLES
  life, unconfirmed,      \* the engine's state; what its shutdown could not confirm
  round,                  \* the liveness round
  requests, probing,      \* the open requests, and what probe() still waits for
  hung,                   \* sends of ended requests that have not settled
  dev, job,               \* the device in the inventory; its running inspection
  stuck,                  \* native reads that were given up and have not settled
  listing,                \* the inventory being paged
  scenario,
  missed                  \* rounds that left a read unanswered, since the device last answered

network == <<requests, probing, hung>>
reading == <<job, stuck, listing>>
inspectVars == <<life, unconfirmed, round, network, dev, reading, scenario, missed>>

Slot == 1..MaxRequests
NoRequest == [kind |-> "none", stage |-> "none", attempt |-> 0, matches |-> 0, late |-> FALSE]
NotProbing == [stage |-> "none", slots |-> {}, count |-> 0]
NoJob == [stage |-> "none"]
NoListing == [stage |-> "none", page |-> 0, values |-> {}, refs |-> {}, told |-> {}, more |-> TRUE]

InspectInit ==
  /\ life = "running" /\ unconfirmed = {} /\ round = 1
  /\ requests = [s \in Slot |-> NoRequest] /\ probing = NotProbing /\ hung = 0
  /\ dev = [state |-> "candidate", suspect |-> "no", overdue |-> FALSE,
            verified |-> FALSE, failed |-> 0, last |-> 0]
  /\ job = NoJob /\ stuck = 0 /\ listing = NoListing
  /\ scenario \in Scenarios /\ missed = {}

-----------------------------------------------------------------------------
\* request(): the sends of open requests and of those that have ended count
\* against the same bound as the requests themselves.
Open(r) == {s \in Slot : r[s].stage # "none"}
Sending(r) == hung + Cardinality({s \in Slot : r[s].stage = "sending"})
Admits(r) == Cardinality(Open(r)) < MaxRequests /\ Sending(r) < MaxRequests

\* The request is registered and its first attempt sent before the first await.
Request(r, kind) ==
  IF Admits(r)
  THEN LET s == CHOOSE x \in Slot : r[x].stage = "none"
       IN [r EXCEPT ![s] = [NoRequest EXCEPT !.kind = kind, !.stage = "sending"]]
  ELSE r

\* finally of request(): a send that has not settled stays in `sending`.
Ends(s) ==
  /\ requests' = [requests EXCEPT ![s] = NoRequest]
  /\ hung' = hung + IF requests[s].stage = "sending" THEN 1 ELSE 0

\* What waits for a request learns of its end.  Promise.all() of probe() rejects
\* with the first failure; the other request goes on without it.
Learns(s, failed) ==
  probing' = IF s \notin probing.slots THEN probing
             ELSE IF failed THEN NotProbing
             ELSE [probing EXCEPT !.slots = @ \ {s}, !.count = @ + requests[s].matches]

\* probe(): joins the probe under way, or starts a round of its own.
Probe ==
  /\ "probe" \in scenario /\ life = "running" /\ probing = NotProbing /\ round < MaxRounds
  /\ round' = round + 1
  /\ LET device == Request(requests, "device")
         both == Request(device, "legacy")
     IN /\ requests' = both
        /\ probing' = [stage |-> "typed", slots |-> Open(both) \ Open(requests), count |-> 0]
  /\ UNCHANGED <<life, unconfirmed, hung, dev, reading, scenario, missed>>

\* Both typed requests are over: a segment that nobody has answered on is probed
\* once more without types, if that is configured.
Fallback ==
  /\ probing.stage # "none" /\ probing.slots = {}
  /\ IF probing.stage = "typed" /\ "fallback" \in scenario /\ probing.count = 0 /\ life = "running"
     THEN /\ requests' = Request(requests, "untyped")
          /\ probing' = [probing EXCEPT !.stage = "untyped", !.slots = Open(requests') \ Open(requests)]
     ELSE probing' = NotProbing /\ UNCHANGED requests
  /\ UNCHANGED <<life, unconfirmed, round, hung, dev, reading, scenario, missed>>

\* resolve() of an endpoint on the segment.
Resolve ==
  /\ "probe" \in scenario /\ life = "running" /\ Admits(requests)
  /\ requests' = Request(requests, "resolve")
  /\ UNCHANGED <<life, unconfirmed, round, probing, hung, dev, reading, scenario, missed>>

Sent(s) ==
  /\ requests[s].stage = "sending"
  /\ requests' = [requests EXCEPT
       ![s].stage = IF requests[s].attempt + 1 < Retransmissions THEN "pause" ELSE "window",
       ![s].attempt = @ + 1]
  /\ UNCHANGED <<life, unconfirmed, round, probing, hung, dev, reading, scenario, missed>>
SendFails(s) ==
  /\ "fails" \in scenario /\ requests[s].stage = "sending"
  /\ requests' = [requests EXCEPT ![s] = NoRequest] /\ Learns(s, TRUE)
  /\ UNCHANGED <<life, unconfirmed, round, hung, dev, reading, scenario, missed>>

\* The pause between two attempts is over: the same message is sent again.
Retransmit(s) ==
  /\ requests[s].stage = "pause" /\ ~requests[s].late
  /\ requests' = [requests EXCEPT ![s].stage = "sending"]
  /\ UNCHANGED <<life, unconfirmed, round, probing, hung, dev, reading, scenario, missed>>

\* The window of a request is over; its timer may only fire later.
WindowOver(s) ==
  /\ requests[s].stage # "none" /\ ~requests[s].late
  /\ requests' = [requests EXCEPT ![s].late = TRUE]
  /\ UNCHANGED <<life, unconfirmed, round, probing, hung, dev, reading, scenario, missed>>
ExpireSettled(s) ==   \* variant: the send is awaited without the timer
  /\ requests[s].late /\ requests[s].stage # "sending"
  /\ Ends(s) /\ Learns(s, FALSE)
  /\ UNCHANGED <<life, unconfirmed, round, dev, reading, scenario, missed>>
Expire(s) ==
  /\ requests[s].late
  /\ Ends(s) /\ Learns(s, FALSE)
  /\ UNCHANGED <<life, unconfirmed, round, dev, reading, scenario, missed>>

\* A matching answer counts while its request is open and its window not over.
\* One is enough to tell.
Matches(s) ==
  /\ requests[s].stage # "none" /\ ~requests[s].late /\ requests[s].matches = 0
  /\ requests' = [requests EXCEPT ![s].matches = 1]
  /\ UNCHANGED <<life, unconfirmed, round, probing, hung, dev, reading, scenario, missed>>

\* A send that outlived its request settles after all.
HungSettles ==
  /\ hung > 0 /\ hung' = hung - 1
  /\ UNCHANGED <<life, unconfirmed, round, requests, probing, dev, reading, scenario, missed>>

-----------------------------------------------------------------------------
\* nativeFailure(): what an error of the adapter establishes.  Only an answer of
\* the device shows that it is there; a refusal by this side does not.
NativeFailure(error) ==
  CASE error = "AuthenticationFailed" -> [status |-> "denied", responded |-> TRUE]
    [] error \in {"PolicyDenied", "InvalidSecurity"} -> [status |-> "denied", responded |-> FALSE]
    [] error = "UnsupportedCapability" -> [status |-> "unsupported", responded |-> FALSE]
    [] error = "ActionNotSupported" -> [status |-> "unsupported", responded |-> TRUE]
    [] error = "SoapFault" -> [status |-> "fault", responded |-> TRUE]
    [] error = "XmlLimit" -> [status |-> "truncated", responded |-> FALSE]
    [] error = "InvalidXml" -> [status |-> "fault", responded |-> FALSE]
    [] OTHER -> [status |-> "unknown", responded |-> FALSE]
Errors == {"SoapFault", "ConnectionFailed"} \cup
          (IF "refusals" \in scenario
           THEN {"AuthenticationFailed", "PolicyDenied", "UnsupportedCapability", "ActionNotSupported",
                 "XmlLimit", "InvalidXml"} ELSE {})
Known == [status |-> "known", responded |-> TRUE]
Misshapen == [status |-> "fault", responded |-> TRUE]   \* an answer that does not fit its contract
Timeout == [status |-> "timeout", responded |-> FALSE]
Truncated == [status |-> "truncated", responded |-> FALSE]

\* The reads of inspect(), in order.  GetCapabilities stands in for GetServices
\* only when the device itself has said that it does not support it; then the
\* inventories of the known services are paged.
FirstReads == <<"GetServices", "GetDeviceInformation", "GetScopes", "GetEndpointReference">>
Decisive == {"GetDeviceInformation", "GetEndpointReference"} \cup
            (IF "list" \in scenario THEN {"GetServices", "GetCapabilities"} ELSE {})
NewJob == [stage |-> "reading", step |-> 1, called |-> FALSE, reads |-> 0, aborted |-> FALSE,
           round |-> round, fenced |-> FALSE, responsive |-> FALSE, confirmed |-> FALSE,
           known |-> {}, legacy |-> FALSE, silent |-> FALSE]
Current(j) ==
  IF j.step <= Len(FirstReads) THEN FirstReads[j.step]
  ELSE IF j.step = Len(FirstReads) + 1 /\ j.legacy THEN "GetCapabilities" ELSE "page"
Services(j) == {"GetServices", "GetCapabilities"} \cap j.known # {}
Pages(j) == Current(j) = "page" /\ "list" \in scenario /\ listing.stage = "paging" /\ Services(j)
MayRead == job.stage = "reading" /\ ~job.called /\ (Current(job) # "page" \/ Pages(job))

Legacy(outcome) == outcome.status = "unsupported" /\ outcome.responded

\* read(): the outcome is recorded, and the next read is due.  A timeout by
\* cancellation says nothing of the device.
Record(j, outcome, deadline) ==
  [j EXCEPT !.called = FALSE, !.step = IF Current(j) = "page" THEN @ ELSE @ + 1, !.reads = @ + 1,
            !.responsive = @ \/ outcome.responded,
            !.confirmed = @ \/ (outcome.status = "timeout" /\ deadline),
            !.known = @ \cup (IF outcome.status = "known" THEN {Current(j)} \cap Decisive ELSE {}),
            !.legacy = @ \/ (Current(j) = "GetServices" /\ Legacy(outcome))]

\* list(): the items of a page are taken one by one, up to one that is one too
\* many.  A token that changes or a reference that repeats is a fault of the device.
Taken(l, p, n) == l.values \cup {p.items[i] : i \in 1..n}
Full(values) == Cardinality(values) >= MaxResources
Changes(values, item) == \E v \in values : v[1] = item[1] /\ v # item
RefusedFull(l, p, n) == Full(Taken(l, p, n - 1))   \* variant: a changed token is not noticed
Refused(l, p, n) == Full(Taken(l, p, n - 1)) \/ Changes(Taken(l, p, n - 1), p.items[n])

Token == {"a", "b"}
Page == [items : UNION {[1..n -> Token \X {1, 2}] : n \in 0..2}, next : 0..2]   \* 0: no NextStartReference
TurnPage(l, p) ==
  LET refused == {n \in 1..Len(p.items) : Refused(l, p, n)}
      values == Taken(l, p, IF refused = {} THEN Len(p.items) ELSE Min(refused) - 1)
      turned == [l EXCEPT !.values = values, !.told = @ \cup ToSet(p.items), !.page = @ + 1]
  IN IF refused # {} THEN [turned EXCEPT !.stage = IF Full(values) THEN "truncated" ELSE "fault"]
     ELSE IF p.next = 0 THEN [turned EXCEPT !.stage = "known", !.more = FALSE]
     ELSE IF p.next \in l.refs THEN [turned EXCEPT !.stage = "fault"]
     ELSE [turned EXCEPT !.refs = @ \cup {p.next},
                         !.stage = IF turned.page = MaxPages THEN "truncated" ELSE "paging"]
EndsList(status) == listing' = IF Pages(job) THEN [listing EXCEPT !.stage = status] ELSE listing

\* read(): the budget is spent, or the inspection aborted; nothing is recorded.
BudgetSpent ==
  /\ MayRead /\ (job.reads >= Budget \/ job.aborted)
  /\ job' = [job EXCEPT !.step = IF Current(job) = "page" THEN @ ELSE @ + 1]
  /\ EndsList("truncated")
  /\ UNCHANGED <<life, unconfirmed, round, network, dev, stuck, scenario, missed>>

\* executeReadonly(): refused when as many reads are outstanding, abandoned ones
\* included, or handed to the adapter.
ReadConcurrency ==
  /\ MayRead /\ job.reads < Budget /\ ~job.aborted /\ stuck >= MaxReads
  /\ job' = Record(job, Truncated, FALSE) /\ EndsList("truncated")
  /\ UNCHANGED <<life, unconfirmed, round, network, dev, stuck, scenario, missed>>
Call ==
  /\ MayRead /\ job.reads < Budget /\ ~job.aborted /\ stuck < MaxReads
  /\ job' = [job EXCEPT !.called = TRUE]
  /\ UNCHANGED <<life, unconfirmed, round, network, dev, stuck, listing, scenario, missed>>

\* The adapter's result comes in time.
Answer ==
  /\ job.stage = "reading" /\ job.called
  /\ \/ /\ job' = Record(job, Known, FALSE)
        /\ IF Pages(job) THEN \E p \in Page : listing' = TurnPage(listing, p) ELSE UNCHANGED listing
     \/ job' = Record(job, Misshapen, FALSE) /\ EndsList("fault")
     \/ \E error \in Errors : LET outcome == NativeFailure(error)
                              IN job' = Record(job, outcome, FALSE) /\ EndsList(outcome.status)
  /\ UNCHANGED <<life, unconfirmed, round, network, dev, stuck, scenario, missed>>

\* The deadline of the read, or of the whole inspection, is over first: the race
\* is decided, and the adapter's work is left behind.
ReadDeadline ==
  /\ job.stage = "reading" /\ job.called
  /\ job' = [Record(job, Timeout, TRUE) EXCEPT !.silent = TRUE]
  /\ stuck' = stuck + 1 /\ EndsList("timeout")
  /\ UNCHANGED <<life, unconfirmed, round, network, dev, scenario, missed>>
Aborted(j) == [IF j.called THEN Record(j, Timeout, FALSE) ELSE j EXCEPT !.aborted = TRUE]
Abandon ==
  IF job.stage = "reading"
  THEN /\ job' = Aborted(job) /\ stuck' = stuck + IF job.called THEN 1 ELSE 0
       /\ IF job.called THEN EndsList("timeout") ELSE UNCHANGED listing
  ELSE UNCHANGED reading
InspectionDeadline ==
  /\ job.stage = "reading" /\ ~job.aborted /\ Abandon
  /\ UNCHANGED <<life, unconfirmed, round, network, dev, scenario, missed>>
StuckSettles ==
  /\ stuck > 0 /\ stuck' = stuck - 1
  /\ UNCHANGED <<life, unconfirmed, round, network, dev, job, listing, scenario, missed>>

-----------------------------------------------------------------------------
\* inspect(), or an enqueue() by an announcement: the round is the one that the
\* job starts in.
Starts(cond) ==
  IF cond /\ job = NoJob
  THEN job' = NewJob /\ listing' = [NoListing EXCEPT !.stage = "paging"]
  ELSE job' = (IF job.stage # "none" /\ dev'.state # dev.state /\ dev'.state = "departed"
               THEN [job EXCEPT !.fenced = TRUE] ELSE job)
       /\ UNCHANGED listing
Inspect ==
  /\ "reads" \in scenario /\ life = "running" /\ job = NoJob
  /\ UNCHANGED dev /\ Starts(TRUE)
  /\ UNCHANGED <<life, unconfirmed, round, network, stuck, scenario, missed>>

\* mergeMetadata() of an announcement that is news: a running inspection is
\* superseded; a Bye only makes the device suspect.
Announced(d) ==
  /\ "liveness" \in scenario /\ life = "running" /\ dev' = d
  /\ job' = IF job.stage = "none" THEN job ELSE [job EXCEPT !.fenced = TRUE]
  /\ UNCHANGED <<life, unconfirmed, round, network, stuck, listing, scenario, missed>>
Bye == "bye" \in scenario /\ Announced([dev EXCEPT !.state = "suspect", !.suspect = IF @ = "no" THEN "recent" ELSE @])
Hello == Announced([dev EXCEPT !.state = IF @ \in {"departed", "verified"} THEN "candidate" ELSE @,
                               !.overdue = IF dev.verified THEN @ ELSE FALSE])

\* staleMs and departureGraceMs run out.
Overdue ==
  /\ ~dev.overdue /\ "stale" \in scenario /\ dev' = [dev EXCEPT !.overdue = TRUE]
  /\ UNCHANGED <<life, unconfirmed, round, network, reading, scenario, missed>>
GraceOver ==
  /\ dev.suspect = "recent" /\ dev' = [dev EXCEPT !.suspect = "over"]
  /\ UNCHANGED <<life, unconfirmed, round, network, reading, scenario, missed>>

\* reconcile() of the inventory: what is overdue is stale, from when it was due;
\* retirement takes the grace time and two failed rounds.
Retired(d) ==
  IF d.state # "departed" /\ d.suspect = "over" /\ d.failed >= 2
  THEN [d EXCEPT !.state = "departed"] ELSE d
Reconciled(d) ==
  {Retired(IF d.overdue /\ d.state \notin {"suspect", "departed"}
           THEN [d EXCEPT !.state = "stale", !.suspect = IF @ = "no" THEN since ELSE @] ELSE d) :
     since \in {"recent", "over"}}

\* reconcile() of the engine begins a round; what is not verified is inspected.
Reconcile ==
  /\ "liveness" \in scenario /\ life = "running" /\ round < MaxRounds
  /\ round' = round + 1
  /\ dev' \in Reconciled(dev)
  /\ \E due \in (IF dev'.state = "verified" THEN BOOLEAN ELSE {dev'.state # "departed"}) :
       IF due /\ job = NoJob
       THEN job' = [NewJob EXCEPT !.round = round'] /\ listing' = [NoListing EXCEPT !.stage = "paging"]
       ELSE Starts(FALSE)
  /\ UNCHANGED <<life, unconfirmed, network, stuck, scenario, missed>>

\* liveness(): a round counts once, and only a read that met its deadline counts.
LivenessEachTime(d, j) ==   \* variant: every inspection counts
  [d EXCEPT !.last = j.round,
            !.failed = IF j.responsive THEN 0 ELSE IF j.confirmed /\ @ < 2 THEN @ + 1 ELSE @]
Liveness(d, j) ==
  IF j.round <= d.last THEN d
  ELSE [d EXCEPT !.last = j.round,
                 !.failed = IF j.responsive THEN 0 ELSE IF j.confirmed /\ @ < 2 THEN @ + 1 ELSE @]
CommitInspection(d, j) ==
  LET verified == {"GetEndpointReference", "GetDeviceInformation"} \subseteq j.known
      v == IF verified THEN [d EXCEPT !.state = "verified", !.suspect = "no", !.verified = TRUE,
                                      !.overdue = FALSE]
           ELSE d
  IN IF j.responsive THEN [v EXCEPT !.failed = 0] ELSE v

\* The reads are over; runInspection() commits the report unless it has been
\* superseded, does not fit, or the engine closes.
Complete ==
  /\ job.stage = "reading" /\ ~job.called /\ ~MayRead
  /\ \E fits \in {TRUE, "refusals" \notin scenario} :
       LET commits == life = "running" /\ ~job.fenced /\ fits
       IN /\ dev' \in (IF commits THEN Reconciled(Liveness(CommitInspection(dev, job), job))
                       ELSE IF life = "running" THEN Reconciled(dev) ELSE {dev})
          /\ missed' = IF ~commits THEN missed ELSE IF job.responsive THEN {}
                       ELSE IF job.silent THEN missed \cup {job.round} ELSE missed
  /\ job' = NoJob
  /\ UNCHANGED <<life, unconfirmed, round, network, stuck, listing, scenario>>

-----------------------------------------------------------------------------
\* shutdown(): everything is aborted at once; the inspector is given
\* readTimeoutMs to confirm that nothing of it is outstanding.
Close ==
  /\ "close" \in scenario /\ life = "running" /\ life' = "closing"
  /\ hung' = Sending(requests)
  /\ requests' = [s \in Slot |-> NoRequest] /\ probing' = NotProbing
  /\ Abandon
  /\ UNCHANGED <<unconfirmed, round, dev, scenario, missed>>
InspectorClosed ==
  /\ life = "closing" /\ stuck = 0 /\ life' = "waiting"
  /\ UNCHANGED <<unconfirmed, round, network, dev, reading, scenario, missed>>
InspectorDeadline ==
  /\ life = "closing" /\ stuck > 0 /\ life' = "waiting" /\ unconfirmed' = unconfirmed \cup {"reads"}
  /\ UNCHANGED <<round, network, dev, reading, scenario, missed>>
\* Then the work in flight has settled, and the sends are counted.
ClosedUncounted ==   \* variant: the sends are not looked at
  /\ life = "waiting" /\ job = NoJob /\ life' = "closed"
  /\ UNCHANGED <<unconfirmed, round, network, dev, reading, scenario, missed>>
Closed ==
  /\ life = "waiting" /\ job = NoJob /\ life' = "closed"
  /\ unconfirmed' = unconfirmed \cup (IF hung > 0 THEN {"sends"} ELSE {})
  /\ UNCHANGED <<round, network, dev, reading, scenario, missed>>

InspectNext ==
  \/ Probe \/ Fallback \/ Resolve \/ HungSettles
  \/ \E s \in Slot : Sent(s) \/ SendFails(s) \/ Retransmit(s) \/ WindowOver(s) \/ Expire(s) \/ Matches(s)
  \/ BudgetSpent \/ ReadConcurrency \/ Call \/ Answer \/ ReadDeadline \/ InspectionDeadline
  \/ StuckSettles \/ Inspect \/ Bye \/ Hello \/ Overdue \/ GraceOver \/ Reconcile \/ Complete
  \/ Close \/ InspectorClosed \/ InspectorDeadline \/ Closed

\* Timers fire and promises that have settled are acted upon; neither a send nor
\* a native read need ever settle.
Fairness ==
  /\ \A s \in Slot : WF_inspectVars(WindowOver(s) \/ Expire(s))
  /\ WF_inspectVars(Fallback)
  /\ WF_inspectVars(BudgetSpent \/ ReadConcurrency \/ Call \/ ReadDeadline \/ Complete)
  /\ WF_inspectVars(InspectorClosed \/ InspectorDeadline \/ Closed)
InspectSpec == InspectInit /\ [][InspectNext]_inspectVars /\ Fairness

-----------------------------------------------------------------------------
\* A device is only retired after the grace time and two separate rounds in
\* which a native read was handed to the adapter and left unanswered for its
\* whole deadline, with no answer of the device committed in between: a read
\* that was refused, cancelled, denied or not admitted never counts
\* (onvif-discovery.md: "at least two separate failed liveness rounds").
RetirementJustified ==
  [][dev'.state = "departed" /\ dev.state # "departed"
       => Cardinality(missed') >= 2 /\ dev'.suspect = "over"]_inspectVars

\* An inventory is only known when the device has said that there is no more and
\* every item it gave was kept, with one content per token; otherwise it says that
\* it is partial, and no page beyond maxPages is asked for.
ListComplete ==
  /\ listing.stage = "known" =>
       /\ ~listing.more /\ listing.values = listing.told
       /\ \A v, w \in listing.told : v[1] = w[1] => v = w
  /\ listing.values \subseteq listing.told
  /\ listing.page <= MaxPages /\ Cardinality(listing.values) <= MaxResources

\* A shutdown that reports no error leaves no native read and no send behind, and
\* what may be outstanding at any time is bounded, although nothing need settle:
\* a request that retransmits is not admitted again, so that sends may reach
\* almost twice maxPendingRequests.
OutstandingBounded ==
  /\ life = "closed" /\ unconfirmed = {} => stuck = 0 /\ hung = 0
  /\ stuck + (IF job.stage = "reading" /\ job.called THEN 1 ELSE 0) <= MaxReads
  /\ Sending(requests) <= 2 * MaxRequests - 1

\* A probe, an inspection and a shutdown end, although sends and reads may hang.
WorkSettles ==
  /\ (probing.stage # "none") ~> (probing.stage = "none")
  /\ (job.stage # "none") ~> (job.stage = "none")
  /\ (life # "running") ~> (life = "closed")
=============================================================================
