-------------------------- MODULE DiscoveryMessages --------------------------
(***************************************************************************)
(* The functions of WS-Discovery without state: the options that are       *)
(* accepted (discovery/policy.ts), the binding of a segment to the host    *)
(* (discovery/datagrams.ts), and what is taken from a datagram             *)
(* (discovery/protocol.ts).                                                *)
(*                                                                         *)
(* An IP address is a number of a few bits, a port one of a few numbers, a *)
(* URI a name, a scope its authority with the segments of its path, and a  *)
(* message the record of its elements.  What a character makes malformed   *)
(* is a name, or a flag, of its own.                                       *)
(***************************************************************************)
EXTENDS Integers, FiniteSets, SequencesExt

\* ipNumber(): IPv4 and IPv6 addresses have their own widths.
Width == [IPv4 |-> 3, IPv6 |-> 4]
Address(family, value) == [family |-> family, value |-> value]
Group(family) == Address(family, 2 ^ Width[family] - 1)      \* the discovery multicast group
DiscoveryPort == 2
MaxPort == 3

\* inCidr(): a prefix that confines nothing, or a network that is not canonical,
\* is an error, which every caller treats as "outside".
InCidr(address, cidr) ==
  /\ cidr.prefix \in 1..Width[cidr.family] /\ address.family = cidr.family
  /\ LET size == 2 ^ (Width[cidr.family] - cidr.prefix)
     IN cidr.network % size = 0 /\ address.value \div size = cidr.network \div size

\* validateXAddr(), approveXAddr() and absoluteUri() on the names of URIs.
Prohibited == {"ftp", "credentials"}
AbsoluteUri(uri) == uri # "relative"
ValidXAddr(xaddr) == AbsoluteUri(xaddr) /\ xaddr \notin Prohibited
Approved(xaddr, allowed) == ValidXAddr(xaddr) /\ xaddr \in allowed

-----------------------------------------------------------------------------
\* validateSegment() and validateOptions().
ValidateSegment(local, s) ==
  /\ InCidr(local.address, s.cidr)
  /\ s.listenPort \in 0..MaxPort /\ s.port \in 1..MaxPort
  /\ IF s.multicast
     THEN s.destination = Group(local.address.family) /\ {s.port, s.listenPort} = {DiscoveryPort}
     ELSE InCidr(s.destination, s.cidr)
  /\ ~s.zoned

\* The interface that a segment names; there need not be one.
Local(options, s) == SelectSeq(options.interfaces, LAMBDA i : i.id = s.interface)
Distinct(seq) == Cardinality({seq[i].id : i \in DOMAIN seq}) = Len(seq)

TimerOptions(t) ==
  /\ \A key \in DOMAIN t : t[key] > 0
  /\ t.retransmitMin <= t.retransmitMax /\ t.probeWindow <= t.probeInterval
  /\ t.readTimeout <= t.inspectionTimeout /\ t.refresh <= t.stale
DefaultBounds == [maxTypes |-> 2, maxScopes |-> 2, maxXAddrs |-> 2, maxMatches |-> 2, maxMessageIds |-> 1]
BoundedOptions(b) == \A key \in DOMAIN DefaultBounds : b[key] \in 1..(16 * DefaultBounds[key])

ValidateOptions(o) ==
  /\ o.interfaces # <<>> /\ o.segments # <<>>
  /\ BoundedOptions(o.bounds) /\ TimerOptions(o.timers)
  /\ Distinct(o.interfaces) /\ \A i \in ToSet(o.interfaces) : ~i.wildcard
  /\ Distinct(o.segments)
  /\ \A s \in ToSet(o.segments) : Local(o, s) # <<>> /\ ValidateSegment(Head(Local(o, s)), s)
  /\ o.ipv6 = "required" => \E i \in ToSet(o.interfaces) : i.address.family = "IPv6"
  /\ Cardinality(o.scopes) <= o.bounds.maxScopes
  /\ \A x \in o.allowed : ValidXAddr(x)
  /\ Distinct(o.seeds)
  /\ \A seed \in ToSet(o.seeds) :
       /\ \E s \in ToSet(o.segments) : s.id = seed.segment /\ s.interface = seed.interface
       /\ Approved(seed.xaddr, o.allowed)

\* NodeDatagramAdapter.binding(): where the sockets of a segment are bound, or
\* no binding at all.  The host names its interfaces; each has an address, the
\* numbers of its IPv6 zones, and whether its multicast is known to be confined.
NoBinding == [name |-> "none", zone |-> 0]
Binding(host, local, s) ==
  LET matches == {n \in DOMAIN host : host[n].address = local.address}
      n == CHOOSE x \in matches : TRUE
      zones == host[n].zones
      needsZone == s.multicast \/ local.link \/ s.link
      zone == IF Cardinality(zones) = 1 THEN CHOOSE z \in zones : TRUE ELSE 0
  IN IF Cardinality(matches) # 1 THEN NoBinding
     ELSE IF local.address.family = "IPv4" THEN [name |-> n, zone |-> 0]
     ELSE IF \/ needsZone /\ zone = 0
             \/ local.zone \notin {"any", n}
             \/ s.multicast /\ ~host[n].confined
     THEN NoBinding
     ELSE [name |-> n, zone |-> IF needsZone THEN zone ELSE 0]

-----------------------------------------------------------------------------
\* parseSequence(): an AppSequence is whole, incomplete, beyond 2^32 - 1, or
\* missing.
ParseSequence(sequence, allowMissing) ==
  sequence = "whole" \/ (sequence = "missing" /\ allowMissing)

\* parseMatch() of one entry; only a Bye needs no MetadataVersion.
ParseMatch(entry, kind, bounds) ==
  /\ AbsoluteUri(entry.endpoint)
  /\ Cardinality(entry.types) <= bounds.maxTypes /\ Cardinality(entry.scopes) <= bounds.maxScopes
  /\ Len(entry.xaddrs) <= bounds.maxXAddrs /\ \A x \in ToSet(entry.xaddrs) : AbsoluteUri(x)
  /\ entry.version \/ kind = "Bye"

IsResponse(m) == m.kind \in {"ProbeMatches", "ResolveMatches"}
DiscoveryProxy(m) == \E e \in ToSet(m.entries) : "DiscoveryProxy" \in e.types
Suppression(m) == m.relatesTo # "none" /\ m.relation = "Suppression"

\* parseDiscovery(): whether a message is taken from the datagram.
ParseDiscovery(m, bounds, allowMissing) ==
  /\ m.wellFormed /\ m.kind \in {"Hello", "Bye", "ProbeMatches", "ResolveMatches"}
  /\ m.relatesTo # "none" => m.relation \in {"Reply", "Suppression"}
  /\ Len(m.entries) <= bounds.maxMatches
  /\ m.kind # "ProbeMatches" => Len(m.entries) = 1
  /\ \A e \in ToSet(m.entries) : ParseMatch(e, m.kind, bounds)
  /\ IF IsResponse(m)
     THEN m.relatesTo # "none" /\ ~Suppression(m) /\ m.to = "anonymous"
     ELSE /\ m.to = "discovery"
          /\ m.relatesTo # "none" => m.kind = "Hello" /\ DiscoveryProxy(m) /\ Suppression(m)
  /\ DiscoveryProxy(m) => \A e \in ToSet(m.entries) : "TargetService" \in e.types
  /\ ParseSequence(m.sequence, allowMissing)

\* scopeMatches(): the segments of the path are compared, not its characters.
ScopeMatches(requested, advertised) ==
  /\ {".", ".."} \cap (ToSet(requested.path) \cup ToSet(advertised.path)) = {}
  /\ requested.authority = advertised.authority
  /\ IsPrefix(requested.path, advertised.path)
MatchesProbe(entry, types, scopes) ==
  /\ types \subseteq entry.types
  /\ \A s \in scopes : \E t \in entry.scopes : ScopeMatches(s, t)
=============================================================================
