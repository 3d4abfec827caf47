------------------------------ MODULE Reception ------------------------------
(***************************************************************************)
(* What the discovery engine believes of the datagrams it receives         *)
(* (receive() of discovery/engine.ts, observe() of discovery/inventory.ts):*)
(* which endpoints a device is recorded with, on which segments, and which *)
(* of them a native read is sent to.  The engine is started, and restarted *)
(* on what it has stored, with any of the options that are accepted and on *)
(* a host whose interfaces change.                                         *)
(*                                                                         *)
(* Discovery models the order of announcements and the inspections they    *)
(* cause, Inspection the sends of a request: here order() and the byte     *)
(* bound of the inventory are a free choice, a request is its id and its   *)
(* window, and a datagram above the rate limit is one that never came.     *)
(***************************************************************************)
EXTENDS DiscoveryMessages

CONSTANTS MaxRestarts, MaxMessages     \* bounds of a behaviour

VARIABLES
  up, options, bound,     \* whether it runs, its options, the binding of each open segment
  restarts,
  pending,                \* the requests made so far, by id
  known, seeds,           \* the endpoints of each device; the seeds as first provisioned
  messages,               \* the messages that were observed last
  told, vouched,          \* what was said on which segment; the messages that said it
  answered                \* which devices answered for which seed, on which segment

receptionVars == <<up, options, bound, restarts, pending, known, seeds, messages, told, vouched, answered>>

Device == {"e1", "e2"}
Segment == {"lan", "lab"}
RequestId == {"r1"}

-----------------------------------------------------------------------------
\* The options and hosts that are tried: proper ones, and such as differ from
\* them in one thing.
V4Net == [family |-> "IPv4", network |-> 0, prefix |-> 2]
V6Net == [family |-> "IPv6", network |-> 8, prefix |-> 2]
Eth == [id |-> "eth", address |-> Address("IPv4", 1), wildcard |-> FALSE, link |-> FALSE, zone |-> "any"]
Wan == [id |-> "wan", address |-> Address("IPv6", 9), wildcard |-> FALSE, link |-> TRUE, zone |-> "if1"]
Lan == [id |-> "lan", interface |-> "eth", cidr |-> V4Net, listenPort |-> DiscoveryPort,
        destination |-> Group("IPv4"), port |-> DiscoveryPort, multicast |-> TRUE, zoned |-> FALSE, link |-> FALSE]
Lab == [id |-> "lab", interface |-> "wan", cidr |-> V6Net, listenPort |-> 0,
        destination |-> Address("IPv6", 10), port |-> 1, multicast |-> FALSE, zoned |-> FALSE, link |-> FALSE]
Scope(path) == [authority |-> "onvif", path |-> path]
Proper ==
  [interfaces |-> <<Eth, Wan>>, segments |-> <<Lan, Lab>>, allowed |-> {"cam", "spare"},
   scopes |-> {}, ipv6 |-> "bestEffort", missing |-> "reject", seeds |-> <<>>, bounds |-> DefaultBounds,
   timers |-> [retransmitMin |-> 1, retransmitMax |-> 2, probeWindow |-> 2, probeInterval |-> 2,
               readTimeout |-> 1, inspectionTimeout |-> 1, refresh |-> 2, stale |-> 2]]
Seed == [id |-> "s1", segment |-> "lab", interface |-> "wan", xaddr |-> "spare", expected |-> "e1"]
Seeded == [Proper EXCEPT !.scopes = {Scope(<<"a">>)}, !.missing = "candidate", !.seeds = <<Seed>>]
Labs == {[Lab EXCEPT !.interface = "none"], [Lab EXCEPT !.id = "lan"], [Lab EXCEPT !.cidr.prefix = 0],
         [Lab EXCEPT !.cidr.network = 9], [Lab EXCEPT !.destination.value = 3], [Lab EXCEPT !.port = 0],
         [Lab EXCEPT !.listenPort = MaxPort + 1], [Lab EXCEPT !.zoned = TRUE], [Lab EXCEPT !.multicast = TRUE],
         [Lab EXCEPT !.multicast = TRUE, !.destination = Group("IPv6"), !.port = DiscoveryPort,
                     !.listenPort = DiscoveryPort]}
Options ==
  {Proper} \cup {[Proper EXCEPT !.allowed = x] : x \in {{"cam"}, {"ftp"}, {"relative"}}}
  \cup {[Proper EXCEPT !.segments = <<Lan, s>>] : s \in Labs}
  \cup {[Proper EXCEPT !.interfaces = x] : x \in {<<>>, <<Eth>>, <<Eth, [Wan EXCEPT !.wildcard = TRUE]>>,
                                                 <<Eth, [Wan EXCEPT !.id = "eth"]>>}}
  \cup {[Proper EXCEPT !.ipv6 = x] : x \in {"disabled", "required"}}
  \cup {[Proper EXCEPT !.ipv6 = "required", !.interfaces = <<Eth>>, !.segments = <<Lan>>],
        Seeded}
  \cup {[Proper EXCEPT !.seeds = x] : x \in {<<[Seed EXCEPT !.xaddr = "cam"]>>, <<Seed, Seed>>, <<[Seed EXCEPT !.xaddr = "ftp"]>>,
                                            <<[Seed EXCEPT !.interface = "eth"]>>}}
  \cup {[Proper EXCEPT !.timers.probeWindow = 3], [Proper EXCEPT !.bounds.maxTypes = 33]}
Host == [if0 |-> [address |-> Eth.address, zones |-> {}, confined |-> TRUE],
         if1 |-> [address |-> Wan.address, zones |-> {2}, confined |-> FALSE]]
Hosts == {Host, [Host EXCEPT !.if1.zones = {}], [Host EXCEPT !.if1.address.value = 10],
          [Host EXCEPT !.if0.address = Wan.address]}

\* The messages of a device, an intermediary, or neither.
Entry == [endpoint |-> "e1", types |-> {"Device"}, scopes |-> {Scope(<<"a", "b">>)}, xaddrs |-> <<"cam">>,
          version |-> TRUE]
HelloMessage == [wellFormed |-> TRUE, kind |-> "Hello", id |-> "m1", to |-> "discovery", relatesTo |-> "none",
          relation |-> "Reply", sequence |-> "whole", entries |-> <<Entry>>]
Reply(kind, r) == [HelloMessage EXCEPT !.kind = kind, !.to = "anonymous", !.relatesTo = r]
Entries == {[Entry EXCEPT !.types = x] : x \in {{"Legacy"}, {"Printer"}, {"DiscoveryProxy"}, {"DiscoveryProxy", "TargetService"}}}
  \cup {[Entry EXCEPT !.scopes = {Scope(x)}] : x \in {<<"ab">>, <<"a", "..">>}}
  \cup {[Entry EXCEPT !.xaddrs = x] : x \in {<<"spare">>, <<"unlisted">>, <<"ftp", "spare">>, <<"relative">>}}
  \cup {[Entry EXCEPT !.endpoint = "e2"], [Entry EXCEPT !.version = FALSE]}
Proxied == [Entry EXCEPT !.types = {"DiscoveryProxy", "TargetService"}]
Datagram ==
  {[HelloMessage EXCEPT !.entries = <<e>>] : e \in Entries}
  \cup {[HelloMessage EXCEPT !.relatesTo = "r1", !.relation = x, !.entries = <<Proxied>>] : x \in {"Suppression", "Other"}}
  \cup {[HelloMessage EXCEPT !.sequence = x] : x \in {"whole", "missing", "partial"}}
  \cup {[HelloMessage EXCEPT !.id = "m2", !.entries = <<e>>] : e \in {Entry, [Entry EXCEPT !.xaddrs = <<"spare">>]}}
  \cup {[HelloMessage EXCEPT !.kind = "Bye", !.entries = <<[Entry EXCEPT !.version = FALSE]>>], [HelloMessage EXCEPT !.kind = "Probe"],
        [HelloMessage EXCEPT !.wellFormed = FALSE], [HelloMessage EXCEPT !.to = "anonymous"]}
  \cup {[Reply("ProbeMatches", "r1") EXCEPT !.entries = <<e>>] : e \in Entries}
  \cup {[Reply("ProbeMatches", "r1") EXCEPT !.id = "m2", !.entries = <<Entry, [Entry EXCEPT !.endpoint = "e2"]>>],
        Reply("ProbeMatches", "none"), [Reply("ProbeMatches", "r1") EXCEPT !.relation = "Suppression"]}
  \cup {[Reply("ResolveMatches", r) EXCEPT !.entries = <<[Entry EXCEPT !.endpoint = e]>>] : r \in {"r1", "r2"}, e \in Device}
Sources == {Address("IPv4", 0), Address("IPv4", 5), Address("IPv6", 11)}

-----------------------------------------------------------------------------
ReceptionInit ==
  /\ up = FALSE /\ options = Proper /\ bound = <<>> /\ restarts = 0
  /\ pending = <<>> /\ known = [d \in Device |-> {}] /\ seeds = {} /\ messages = <<>>
  /\ told = {} /\ vouched = {} /\ answered = {}

SegmentOf(o, id) == CHOOSE s \in ToSet(o.segments) : s.id = id
LocalOf(o, id) == Head(Local(o, SegmentOf(o, id)))
Bind(o, h, id) == Binding(h, LocalOf(o, id), SegmentOf(o, id))
Optional(o, id) == LocalOf(o, id).address.family = "IPv6" /\ o.ipv6 = "bestEffort"
Wanted(o) == {s.id : s \in {x \in ToSet(o.segments) :
                              LocalOf(o, x.id).address.family = "IPv6" => o.ipv6 # "disabled"}}

\* initialize() with accepted options: the segments are opened, but for IPv6 that
\* is disabled, or optional and not available.  Without any, or without the
\* segment of a seed, it fails.
Opened(o, h) == {id \in Wanted(o) : Bind(o, h, id) # NoBinding}
CanStart(o, h) ==
  /\ \A id \in Wanted(o) \ Opened(o, h) : Optional(o, id)
  /\ Opened(o, h) # {} /\ \A seed \in ToSet(o.seeds) : seed.segment \in Opened(o, h)

\* restore(): what was stored is approved anew.
RestoredAsStored(stored, allowed) == stored      \* variant: the approvals are restored as well
Restored(stored, allowed) ==
  [d \in Device |-> {[e EXCEPT !.approved = Approved(e.xaddr, allowed)] : e \in stored[d]}]

\* A bound: the last start is on any host with any of the options; it finds what
\* was stored before and hears nothing of its own.
Listening == up /\ restarts < MaxRestarts
Start ==
  /\ ~up /\ \E o \in Options, host \in Hosts :
       /\ ValidateOptions(o) /\ CanStart(o, host)
       /\ restarts < MaxRestarts => o \in {Proper, Seeded} /\ host = Host
       /\ up' = TRUE /\ options' = o /\ bound' = [id \in Opened(o, host) |-> Bind(o, host, id)]
       /\ known' = Restored(known, o.allowed)
       /\ seeds' = seeds \cup {s \in ToSet(o.seeds) : \A k \in seeds : k.id # s.id}
  /\ UNCHANGED <<restarts, pending, messages, told, vouched, answered>>
Stop ==
  /\ up /\ restarts < MaxRestarts /\ restarts' = restarts + 1
  /\ up' = FALSE /\ options' = Proper /\ bound' = <<>> /\ messages' = <<>>
  /\ pending' = <<>> /\ vouched' = {}
  /\ UNCHANGED <<known, seeds, told, answered>>

\* request() on a segment; the channel refuses to send once the host's interface
\* is no longer the one it was bound to.
Kinds == [device |-> {"Device"}, untyped |-> {}, resolve |-> {}]
Ask(r, id, kind) ==
  /\ Listening /\ id \in DOMAIN bound /\ r \notin DOMAIN pending
  /\ \E host \in Hosts :
       pending' = r :> [segment |-> id, kind |-> kind, live |-> Bind(options, host, id) = bound[id]] @@ pending
  /\ UNCHANGED <<up, options, bound, restarts, known, seeds, messages, told, vouched, answered>>
WindowElapsed(r) ==
  /\ r \in DOMAIN pending /\ pending[r].live
  /\ pending' = [pending EXCEPT ![r] = [segment |-> "none", kind |-> "none", live |-> FALSE]]
  /\ UNCHANGED <<up, options, bound, restarts, known, seeds, messages, told, vouched, answered>>

-----------------------------------------------------------------------------
\* mergeProvenance(): where the endpoints that a message gives were heard.
Heard(endpoints, xaddrs, id) ==
  {IF e.xaddr \in ToSet(xaddrs) THEN [e EXCEPT !.from = @ \cup {id}] ELSE e : e \in endpoints}

\* mergeEndpoints(): an endpoint is approved, or not, when it is first admitted; a
\* prohibited one is not admitted, nor one beyond the bound, in the order given.
MergeEndpoints(endpoints, xaddrs, id) ==
  LET fresh == {x \in ToSet(xaddrs) : ValidXAddr(x) /\ \A e \in endpoints : e.xaddr # x}
      before(x) == {y \in fresh : \E i \in DOMAIN xaddrs : xaddrs[i] = y /\ \A j \in 1..i : xaddrs[j] # x}
      admitted == {x \in fresh : Cardinality(endpoints) + Cardinality(before(x)) < options.bounds.maxXAddrs}
  IN Heard(endpoints, xaddrs, id)
     \cup {[xaddr |-> x, approved |-> Approved(x, options.allowed), from |-> {id}] : x \in admitted}

\* observeDuplicate(): a repeated message, on any segment, only adds where the
\* endpoints were heard; one with other content says nothing.
Prior(m) == {p \in ToSet(messages) : p.message.id = m.id}
AddsProvenance(prior, id) ==
  known' = [d \in Device |->
    IF d \notin prior.devices THEN known[d]
    ELSE LET e == CHOOSE x \in ToSet(prior.message.entries) : x.endpoint = d
         IN Heard(known[d], e.xaddrs, id)]

\* receive(): a response belongs to a live request on its segment and of its kind.
CorrelatesAnywhere(m, id) ==   \* variant: the segment is not compared
  /\ m.relatesTo \in DOMAIN pending /\ pending[m.relatesTo].live
  /\ (pending[m.relatesTo].kind # "resolve") = (m.kind = "ProbeMatches")
Correlates(m, id) ==
  /\ m.relatesTo \in DOMAIN pending /\ pending[m.relatesTo].live
  /\ pending[m.relatesTo].segment = id
  /\ (pending[m.relatesTo].kind # "resolve") = (m.kind = "ProbeMatches")
Keeps(m, entry) ==
  CASE m.kind = "Bye" -> TRUE
    [] m.kind = "Hello" -> \E t \in {"Device", "Legacy"} : MatchesProbe(entry, {t}, options.scopes)
    [] m.kind = "ResolveMatches" -> entry.endpoint = "e1"       \* the endpoint that is resolved
    [] OTHER -> MatchesProbe(entry, Kinds[pending[m.relatesTo].kind], options.scopes)

FromSegment(m, id, source) ==
  /\ source.family = LocalOf(options, id).address.family
  /\ InCidr(source, SegmentOf(options, id).cidr)
  /\ ParseDiscovery(m, options.bounds, options.missing = "candidate")
  /\ ~DiscoveryProxy(m)

\* observe(): the entries that are kept are merged, where order() and the byte
\* bound admit them; the message is remembered, the oldest one forgotten.
Observe(m, id) ==
  LET kept == {e \in ToSet(m.entries) : Keeps(m, e)}
  IN \E admitted \in SUBSET {e.endpoint : e \in kept} :
       /\ m.kind = "Bye" => \A d \in admitted : known[d] # {}
       /\ known' = [d \in Device |->
            IF d \notin admitted THEN known[d]
            ELSE LET e == CHOOSE x \in kept : x.endpoint = d
                 IN MergeEndpoints(known[d], e.xaddrs, id)]
       /\ LET all == Append(messages, [message |-> m, devices |-> admitted])
          IN messages' = IF Len(all) > options.bounds.maxMessageIds THEN Tail(all) ELSE all

\* What was really said, for the property: by an endpoint inside the network of
\* the segment, in an announcement of its own or in answer to a question that was
\* put to that segment in time, or in a repetition of such a message.
Spoken(m, id) ==
  \/ m.kind \in {"Hello", "Bye"} /\ m.to = "discovery" /\ m.relatesTo = "none"
  \/ \E r \in DOMAIN pending : m.relatesTo = r /\ pending[r].segment = id /\ pending[r].live
Tells(m, id, source) ==
  LET genuine == /\ ~\E i \in DOMAIN m.entries : "DiscoveryProxy" \in m.entries[i].types
                 /\ InCidr(source, SegmentOf(options, id).cidr)
                 /\ Spoken(m, id) \/ m \in vouched
  IN /\ vouched' = IF genuine THEN vouched \cup {m} ELSE vouched
     /\ told' = IF genuine
                THEN told \cup UNION {{[device |-> e.endpoint, xaddr |-> x, segment |-> id] : x \in ToSet(e.xaddrs)} :
                                        e \in ToSet(m.entries)}
                ELSE told

\* inspectSeed(): a device that answered at the address where the operator has the
\* seed now.  Unless it is another one than expected, it has the address of the seed
\* as an endpoint from now on, whatever becomes of the report.  Address and
\* expectation are the stored ones: addSeed() keeps the seed of an earlier start.
InspectSeed(seed, d) ==
  /\ up
  /\ \E s \in seeds :
       /\ s.id = seed.id /\ s.expected \in {"any", d}
       /\ known' = [known EXCEPT ![d] = MergeEndpoints(@, <<s.xaddr>>, seed.segment)]
  /\ answered' = answered \cup {[device |-> d, seed |-> seed.id, segment |-> seed.segment]}
  /\ UNCHANGED <<up, options, bound, restarts, pending, seeds, messages, told, vouched>>

Hear(m, id, source) ==
  /\ Listening /\ id \in DOMAIN bound
  /\ FromSegment(m, id, source)
  /\ LET prior == Prior(m)
     IN IF prior # {}
        THEN \E p \in prior : p.message = m /\ AddsProvenance(p, id) /\ UNCHANGED messages
        ELSE (IsResponse(m) => Correlates(m, id)) /\ Observe(m, id)
  /\ Tells(m, id, source)
  /\ UNCHANGED <<up, options, bound, restarts, pending, seeds, answered>>

\* A bound: the messages that can still come.  Of those with one id no more than a
\* number are true ones.
Spent(id) == Cardinality({v \in vouched : v.id = id}) >= (IF id = "m1" THEN 1 ELSE MaxMessages)
Coming == LET spent == {id \in {"m1", "m2"} : Spent(id)}
          IN {m \in Datagram : m.id \in spent => m \in vouched}

-----------------------------------------------------------------------------
\* target(): approved endpoints that were heard on an open segment take turns;
\* a seed is read where it was provisioned.
Targets(d) ==
  UNION {{[device |-> d, xaddr |-> e.xaddr, segment |-> id] : id \in e.from \cap DOMAIN bound} :
           e \in {k \in known[d] : k.approved}}
SeedTargets == {[xaddr |-> seed.xaddr, segment |-> seed.segment] : seed \in ToSet(options.seeds)}

\* The devices that answered for a seed, with its address as first provisioned.
AnsweredAsSeed ==
  UNION {{[device |-> a.device, xaddr |-> s.xaddr, segment |-> a.segment] : a \in {k \in answered : k.seed = s.id}} :
           s \in seeds}

ReceptionNext ==
  \/ Start \/ Stop
  \/ \E r \in RequestId : WindowElapsed(r) \/ \E id \in Segment, kind \in DOMAIN Kinds : Ask(r, id, kind)
  \/ \E m \in Coming, id \in Segment, source \in Sources : Hear(m, id, source)
  \/ \E seed \in ToSet(options.seeds), d \in Device : InspectSeed(seed, d)

\* A native read goes to an endpoint that the operator allows now, over a segment
\* that is open now.  The device itself gave that endpoint on that segment, or the
\* endpoint is the address of a seed, as it was first provisioned under its name, for
\* which the device answered on that segment, in this run of the engine or an earlier
\* one; otherwise it is a seed of the present options.  So a seed's address stays an
\* endpoint when the seed is no longer configured, and when its name has been given
\* another address it is the old one.  Messages that are repeated on another segment,
\* late and foreign answers, proxies and restarts with other options add nothing else.
TargetsGrounded ==
  up => /\ \A d \in Device : Targets(d) \subseteq told \cup AnsweredAsSeed
        /\ \A t \in SeedTargets \cup UNION {Targets(d) : d \in Device} :
             t.xaddr \in options.allowed /\ t.segment \in DOMAIN bound
=============================================================================
