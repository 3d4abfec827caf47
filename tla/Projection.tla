------------------------------ MODULE Projection ------------------------------
(***************************************************************************)
(* From what inspections have observed of a device to the Thing            *)
(* Descriptions that are published of it: adaptInventory() and             *)
(* projectInventory() (publication/snapshot-adapter.ts) and project()      *)
(* (projection/project.ts).  They are pure; what moves is the inventory:   *)
(* observations arrive in any order with any outcome, a later read of the  *)
(* same thing may fail, and the list of services is lost and regained.     *)
(* project() may also be called with a snapshot the caller has composed    *)
(* himself, which can name operations without their portType, declare them *)
(* supported and attach them to resources; an inventory cannot.            *)
(*                                                                         *)
(* A digest is the tuple it is made of.                                    *)
(***************************************************************************)
EXTENDS ThingForms

CONSTANTS MaxServices,       \* services a device lists
          MaxObservations    \* other observations of it

ASSUME ProjectionAssumption == MaxServices \in Nat /\ MaxObservations \in Nat

VARIABLES seen,              \* the observations, each with its outcome
          listed,            \* the current GetServices answer is known
          rules,             \* the projection policy and the adapter options
          index              \* the requirement index, loaded once

projVars == <<seen, listed, rules, index>>

-----------------------------------------------------------------------------
\* What may be observed: who names the thing, the outcome what is known of it.
\* A failed inventory still holds the members that were read.
Thing(sort, ns, x, of) == [sort |-> sort, ns |-> ns, x |-> x, of |-> of]
Seen(who, state, value) == [who |-> who, state |-> state, value |-> value]
Outcomes(who, values) ==
  {Seen(who, "known", v) : v \in values} \cup {Seen(who, "timeout", v) : v \in values}

\* The outcome of a service is that of its capabilities.
ServiceUniverse(about) ==
  {Seen(Thing("service", ns, x, << >>), "known", v) : <<ns, x, v>> \in
     {<<"main", "x1", "true">>, <<"main", "x2", "true">>}
     \cup (IF about # "forms" THEN {} ELSE
            {<<"addon", "xa", "true">>, <<"foreign", "xf", "true">>,
             <<"events", "xe", "pulls">>, <<"events", "xe", "true">>})}
  \cup (IF about # "facts" THEN {}
        ELSE Outcomes(Thing("service", "main", "x1", << >>), {"false", "omitted", "scalar"}))
ReadUniverse ==
  Outcomes(Thing("read", "main", "x1", Ref("GetProfiles", "M")), {"true", "false", "misfit"})
  \cup {Seen(Thing("read", ns, x, ref), "known", "true") : <<ns, x, ref>> \in
          {<<"main", "x2", Ref("GetProfiles", "M")>>, <<"main", "x1", Ref("GetState", "N")>>,
           <<"main", "x1", Ref("GetRules", "M")>>, <<"main", "x1", Ref("GetOther", "M")>>,
           <<"addon", "xa", Ref("GetExtra", "A")>>, <<"foreign", "xf", Ref("GetState", "M")>>}}
  \cup Outcomes(Thing("read", "events", "xe", Ref("GetEventProperties", "E")), {"true"})
DeclaredUniverse ==
  LET declared == Thing("support", "main", "x1", Ref("GetState", "M"))
  IN Outcomes(declared, {"true", "false"})
     \cup {Seen(declared, "known", "text"), Seen(declared, "timeout", "none"),
        Seen(Thing("support", "main", "x1", Ref("Notify", "M")), "known", "true"),
        Seen(Thing("read", "main", "x2", Ref("GetProfiles", "M")), "known", "unevidenced"),
        Seen(Thing("read", "main", "x1", Ref("GetState", "")), "known", "true")}
FeatureUniverse ==
  Outcomes(Thing("feature", "main", "x1", << >>), {"true", "false", "text"})
  \cup {Seen(Thing("feature", "main", "x2", << >>), "known", v) : v \in {"true", "false"}}
Item(token, parents, fixed, operations) ==
  [token |-> token, parents |-> parents, fixed |-> fixed, operations |-> operations]
ResourceUniverse(attached) ==
  LET all(x, kind, items) == Outcomes(Thing("resources", "main", x, kind), items)
  IN all("x1", "media-profile", {{Item("t", << >>, f, attached)} : f \in {"true", "false", "null"}})
     \cup all("x2", "media-profile", {{Item("t", << >>, "null", {})}})
     \cup all("x1", "recording", {{Item("r", << >>, "null", {})}})
     \cup all("x1", "track", {{Item("t", p, "null", {})} : p \in {<<"r">>, << >>, <<"r", "r">>}})
     \cup all("x1", "door", {{Item("d", <<"r">>, "null", {})}, {Item("d", << >>, "null", {})}})

\* What a behaviour is about decides what may be observed in it.
Universe(about, origin) ==
  ServiceUniverse(about) \cup
  CASE about = "forms" -> ReadUniverse \cup (IF origin = "caller" THEN DeclaredUniverse ELSE {})
    [] about = "facts" -> FeatureUniverse \cup {o \in ReadUniverse : o.who.of.name = "GetProfiles"}
    [] about = "resources" -> ResourceUniverse(IF origin = "inventory" THEN {}
         ELSE {Ref("DeleteProfile", "M"), Ref("GetState", ""), Ref("GetRules", "M"), Ref("Notify", "")})
    [] OTHER -> {}

-----------------------------------------------------------------------------
\* adaptInventory(): the DeviceSnapshot of the current observations.
ResourceKinds == [recording |-> "Recording", track |-> "RecordingTrack", door |-> "Door"]
                 @@ ("media-profile" :> "MediaProfile")
ParentKind(kind) == IF kind = "track" THEN "Recording" ELSE "none"
KnownKinds == {"MediaProfile", "Recording", "RecordingTrack", "Door"}

Of(sort) == {o \in seen : o.who.sort = sort}
CurrentServices == IF listed THEN Of("service") ELSE {}
PromotedAnyway == Of("resources")   \* variant: partial and last-known members count as current
Promoted == {o \in Of("resources") : o.state = "known"}

\* The members of a known inventory.  A parent path whose kinds are not
\* represented is left out; a parent-scoped identity that is reported twice
\* refuses the whole adaptation.
Members ==
  {<<o, item>> \in {<<o, i>> : o \in Promoted, i \in UNION {p.value : p \in Promoted}} :
     item \in o.value /\ (item.parents = << >>
                          \/ (ParentKind(o.who.of) # "none" /\ Len(item.parents) = 1))}
Resource(o, item) ==
  [ns |-> o.who.ns, kind |-> ResourceKinds[o.who.of], token |-> item.token,
   parents |-> [i \in DOMAIN item.parents |-> <<ParentKind(o.who.of), item.parents[i]>>],
   fixed |-> item.fixed, operations |-> item.operations]
Path(resource) == <<resource.ns, resource.kind, resource.parents, resource.token>>
IdentityConflict ==
  \E a, b \in Members : a # b /\ Path(Resource(a[1], a[2])) = Path(Resource(b[1], b[2]))

\* observation() and assertDeviceSnapshot(): an inventory hands on no value of
\* what is not known, and capabilities that are no object as a fault; a caller
\* is refused what is not evidenced, not typed or shaped like a success.
Adapted(o) ==
  IF o.state = "known" /\ ~(o.who.sort = "service" /\ o.value = "scalar") THEN o
  ELSE [o EXCEPT !.state = "fault", !.value = "none"]
Snapshot == IF rules.origin = "caller" THEN seen ELSE {Adapted(o) : o \in seen}
ObservationSound(o) == IF o.state = "known" THEN o.value # "unevidenced" ELSE o.value = "none"
AssertDeviceSnapshot ==
  \A o \in Snapshot :
    CASE o.who.sort = "resources" -> rules.origin = "caller" => o.state = "known"
      [] o.who.sort = "support" -> ObservationSound(o) /\ (o.state = "known" => o.value \in {"true", "false"})
      [] o.who.sort = "service" -> ObservationSound(o) /\ (o.state = "known" => o.value # "scalar")
      [] OTHER -> ObservationSound(o)

\* The facts: a feature that several endpoints supply is unknown; a mapped fact
\* needs one unique current source, which may omit the field.
Value(o) ==
  IF o.state = "known" /\ o.value \notin {"omitted", "scalar"} THEN o.value ELSE "unknown"
Unique(sources) == IF Cardinality(sources) # 1 THEN "unknown" ELSE Value(CHOOSE o \in sources : TRUE)
Facts ==
  LET features == Of("feature")
      caps == {o \in CurrentServices : o.who.ns = "main"}
      reads == {o \in Of("read") : o.who.ns = "main" /\ o.who.of.name = "GetProfiles"}
  IN [name \in {"caps", "read"} \cup (IF features = {} THEN {} ELSE {"feature"}) |->
        CASE name = "caps" -> Unique(caps) [] name = "read" -> Unique(reads) [] OTHER -> Unique(features)]

-----------------------------------------------------------------------------
\* validatePolicy() and selectedSecurity(): an exact XAddr before a namespace,
\* and no more than one of a kind.  How the selected definitions go together is
\* not asked.
ValidatePolicy ==
  /\ \A name \in DOMAIN rules.definitions : rules.definitions[name].scheme \in NativeSchemes
  /\ \A names \in {rules.security} \cup {e.security : e \in rules.overrides} :
       names # << >> /\ Range(names) \subseteq DOMAIN rules.definitions
Overrides(service) ==
  LET matching == {e \in rules.overrides : e.ns = service.ns /\ e.x \in {"", service.x}}
      exact == {e \in matching : e.x # ""}
  IN IF exact # {} THEN exact ELSE matching
SelectedSecurity(service) ==
  IF Overrides(service) = {} THEN rules.security ELSE (CHOOSE e \in Overrides(service) : TRUE).security

\* observedOperations(): evidence of a listed service for one compiled operation
\* of the catalog that has a response.
Evidence(service) ==
  {o \in seen : o.who.ns = service.ns /\ o.who.x = service.x /\ o.state = "known"
     /\ (o.who.sort = "read" \/ (o.who.sort = "support" /\ o.value = "true"))}
Exposes(service, o) ==
  LET found == Matching(service.ns, o.who.of)
  IN /\ service.ns \in CatalogServices
     /\ rules.addOns \/ service.ns \notin AddOns
     /\ Cardinality(found) = 1
     /\ \A op \in found : op.compiled /\ ~op.oneWay
     /\ o.who.sort = "read" => o.value # "misfit"
Observed ==
  UNION {{[operation |-> op, service |-> s.who] : op \in Matching(s.who.ns, o.who.of)} :
           <<s, o>> \in {<<s, o>> \in CurrentServices \X seen : o \in Evidence(s.who) /\ Exposes(s.who, o)}}

\* The operations of a resource: a fixed media profile cannot be deleted.
Attached(resource) ==
  LET usable(ref) ==
        LET found == Matching(resource.ns, ref)
        IN /\ Cardinality(found) = 1
           /\ \A op \in found :
                /\ op.compiled
                /\ ~(resource.kind = "MediaProfile" /\ op.name = "DeleteProfile" /\ resource.fixed = "true")
                /\ rules.addOns \/ op.ns \notin AddOns
  IN {[operation |-> op, service |-> s.who] :
        op \in UNION {Matching(resource.ns, ref) : ref \in {r \in resource.operations : usable(r)}},
        s \in {s \in CurrentServices : s.who.ns = resource.ns}}

\* exposedActions() and addAliases(): one Form per operation and endpoint, and
\* the reviewed reads once more as safe Actions when the policy asks for it.
SafeReads == {"profiles"}
Form(e, safe) ==
  [action |-> IF safe THEN <<"read", e.operation.id>> ELSE <<"native", e.operation.id>>,
   operation |-> e.operation, ns |-> e.service.ns, href |-> e.service.x,
   security |-> SelectedSecurity(e.service), safe |-> safe]
Forms(entries) ==
  {Form(e, FALSE) : e \in entries}
  \cup {Form(e, TRUE) : e \in {e \in entries : rules.aliases /\ e.operation.id \in SafeReads}}

\* project(): the device's TD and one for each resource, which links to its
\* parent if that is published and to the device otherwise.
DeviceId == <<"device">>
ResourceId(path) == <<"resource", path>>
Resources == {Resource(m[1], m[2]) : m \in Members}
Ids == {ResourceId(Path(r)) : r \in Resources}
Parent(r) == <<r.ns, r.parents[Len(r.parents)][1], SubSeq(r.parents, 1, Len(r.parents) - 1), r.parents[Len(r.parents)][2]>>
Up(r) == IF r.parents = << >> THEN DeviceId
         ELSE IF ResourceId(Parent(r)) \in Ids THEN ResourceId(Parent(r)) ELSE DeviceId
DeviceTd ==
  [id |-> DeviceId, up |-> DeviceId, forms |-> Forms(Observed), events |-> {}, type |-> "Device",
   registry |-> Registry]
ResourceTd(r) ==
  [id |-> ResourceId(Path(r)), up |-> Up(r), forms |-> Forms(Attached(r)), events |-> {},
   type |-> IF r.kind \in KnownKinds THEN r.kind ELSE "Resource", registry |-> Registry]
Tds ==
  (IF CurrentServices # {} \/ Resources # {} \/ \E c \in rules.claims : c.role = "device" THEN {DeviceTd} ELSE {})
  \cup {ResourceTd(r) : r \in Resources}

\* projectInventory(): the security of a Form is that of its inspection target,
\* and an Event is published where the policy asks for it and the device
\* supports it.
AllForms == UNION {td.forms : td \in Tds}
BindingMismatch ==
  \E p \in rules.principals, f \in AllForms : p.x = f.href /\ Range(p.security) # Range(f.security)
EventServices == {s \in CurrentServices : s.who.ns = "events" /\ s.who.x \in rules.events}
PropertiesForm(s) ==
  {f \in DeviceTd.forms : f.href = s.who.x /\ f.operation.name = "GetEventProperties"}
EventUnsupported ==
  \E s \in EventServices : s.state # "known" \/ s.value # "pulls" \/ PropertiesForm(s) = {}
EventForms ==
  {[href |-> s.who.x, security |-> (CHOOSE f \in PropertiesForm(s) : TRUE).security] : s \in EventServices}

\* Whatever is refused throws for the whole inventory: nothing is published.
Ambiguous == \E s \in {e.service : e \in Observed} \cup {e.service : e \in UNION {Attached(r) : r \in Resources}} :
               Cardinality(Overrides(s)) > 1
Throws ==
  \/ index = Refusal \/ ~AssertDeviceSnapshot \/ ~ValidatePolicy \/ IdentityConflict \/ Ambiguous
  \/ rules.origin = "inventory" /\ (BindingMismatch \/ EventUnsupported)
Project ==
  IF Throws THEN {}
  ELSE {IF td.id = DeviceId /\ rules.origin = "inventory" THEN [td EXCEPT !.events = EventForms] ELSE td : td \in Tds}

\* claimRows(), assessments() and groupAssessments(): only a claim with an
\* edition has rows; groups are assessed for client claims.
Claimed(role) == \E c \in rules.claims : c.edition = "1" /\ c.role = role
ClaimRows == {id \in DOMAIN index.rows : Claimed(index.rows[id].role)}
Assessed ==
  IF index = Refusal THEN {}
  ELSE ClaimRows \cup {g \in DOMAIN index.groups : Claimed("client")}
Assessment(id, facts) ==
  IF id \in DOMAIN index.rows THEN Applicability(id, index, facts) ELSE GroupAssessment(id, index, facts)

-----------------------------------------------------------------------------
\* The policies and options behaviours start with.
Leaves(scheme) == [scheme |-> scheme, oneOf |-> FALSE, allOf |-> << >>, proxy |-> FALSE]
Configured == [d |-> Leaves("digest"), u |-> Leaves("wsse"), n |-> Leaves("nosec")]
Proxied == [Configured EXCEPT !.d.proxy = TRUE]
TwoClients == ("c" :> Leaves("cert")) @@ ("m" :> Leaves("mtls"))
Base ==
  [about |-> "forms", origin |-> "inventory", addOns |-> FALSE, aliases |-> FALSE,
   definitions |-> Configured, security |-> <<"d">>, overrides |-> {}, principals |-> {}, events |-> {},
   claims |-> {[role |-> "device", edition |-> "none"]}, mappings |-> << >>, supersededBy |-> "none"]
Override(ns, x, security) == [ns |-> ns, x |-> x, security |-> security]
ByNamespace == Override("main", "", <<"u", "d">>)
FormRules ==
  LET all == [Base EXCEPT !.addOns = TRUE, !.aliases = TRUE, !.events = {"xe"}, !.overrides = {ByNamespace}]
  IN {Base, all, [all EXCEPT !.origin = "caller"], [all EXCEPT !.addOns = FALSE, !.claims = {}],
      [all EXCEPT !.overrides = {ByNamespace, Override("main", "x1", <<"n">>)}],
      [Base EXCEPT !.overrides = {ByNamespace, Override("main", "", <<"n">>)}],
      [Base EXCEPT !.overrides = {Override("main", "x1", <<"p">>)}],
      [Base EXCEPT !.definitions = Configured @@ ("b" :> Leaves("basic"))],
      [Base EXCEPT !.security = <<"n", "d">>], [Base EXCEPT !.definitions = Proxied, !.aliases = TRUE],
      [Base EXCEPT !.definitions = TwoClients, !.security = <<"m", "c">>, !.overrides = {Override("main", "x1", <<"m">>)}],
      [all EXCEPT !.origin = "caller", !.overrides = {Override("main", "x1", <<"d", "d">>)}],
      [Base EXCEPT !.principals = {[x |-> "x1", security |-> <<"d">>]}],
      [all EXCEPT !.principals = {[x |-> "x2", security |-> <<"d">>]}]}
FactRules ==
  {[Base EXCEPT !.about = "facts", !.claims = {[role |-> r, edition |-> "1"] : r \in roles}] :
     roles \in {{"device"}, {"device", "client"}}}
ResourceRules ==
  {[Base EXCEPT !.about = "resources", !.origin = o] : o \in {"inventory", "caller"}}

Mapping(gates, provenance, rows, groups) ==
  [gates |-> gates, provenance |-> provenance, rows |-> rows, groups |-> groups]
Settles(c) == "disputed" :> ("condition" :> c)
Draft(rows) == Mapping(Gates, "public", rows, << >>)
IndexRules ==
  {[Base EXCEPT !.about = IF claimed THEN "facts" ELSE "index", !.mappings = m[1], !.supersededBy = m[2],
                !.claims = {[role |-> "device", edition |-> "1"]}] :
     <<claimed, m>> \in
       {<<TRUE, <<"M1" :> Draft(Settles(IsFact("caps"))), "M1">>>>,
        <<TRUE, <<"M1" :> Mapping(Gates, "reviewed-original", << >>, "G" :> ("atLeast" :> 2)), "none">>>>,
        <<FALSE, <<("M1" :> Draft(Settles(IsFact("caps")))) @@ ("M2" :> Draft(Settles(IsFact("read")))), "M1">>>>,
        <<FALSE, <<"M1" :> Mapping({"draft"}, "public", Settles(IsFact("caps")), << >>), "M1">>>>,
        <<FALSE, <<"M1" :> Mapping({}, "public", << >>, << >>), "M1">>>>,
        <<FALSE, <<"M1" :> Mapping(Gates, "unreviewed", << >>, << >>), "none">>>>,
        <<FALSE, <<"M1" :> Draft("disputed" :> ("role" :> "client")), "none">>>>,
        <<FALSE, <<"M1" :> Draft("disputed" :> ("level" :> "sometimes")), "none">>>>,
        <<FALSE, <<"M1" :> Draft("nothing" :> ("level" :> "optional")), "none">>>>,
        <<FALSE, <<"M1" :> Draft(Settles(IsFact("caps"))), "M2">>>>}}

ProjInit ==
  /\ seen = {} /\ listed = TRUE
  /\ rules \in FormRules \cup FactRules \cup ResourceRules \cup IndexRules
  /\ index = LoadRequirementIndex(rules.mappings, rules.supersededBy)

\* An inspection observes something for the first time or again; what a device
\* has answered it does not answer differently.
Observe(o) ==
  LET again == {p \in seen : p.who = o.who}
      next == (seen \ again) \cup {o}
      services == {p \in next : p.who.sort = "service"}
  IN /\ o \notin seen
     /\ \A p \in again : p.state # "known" \/ o.state # "known"
     /\ Cardinality(services) <= MaxServices /\ Cardinality(next \ services) <= MaxObservations
     /\ seen' = next
     /\ UNCHANGED <<listed, rules, index>>

\* A later GetServices fails: the services are no longer current.
Relist ==
  /\ rules.origin = "inventory" /\ Of("service") # {}
  /\ listed' = ~listed /\ UNCHANGED <<seen, rules, index>>

ProjNext == Relist \/ \E o \in Universe(rules.about, rules.origin) : Observe(o)

-----------------------------------------------------------------------------
\* What a Thing Description of the device must expose, read off the current
\* observations: known reads that fit and declared operations of listed
\* services, where they name one compiled operation with a response.
Evidenced ==
  {<<o, op>> \in seen \X Operations :
     /\ listed /\ o.state = "known" /\ o.who.sort \in {"read", "support"}
     /\ o.value = (IF o.who.sort = "read" /\ o.value = "false" THEN "false" ELSE "true")
     /\ \E s \in Of("service") : s.who.ns = o.who.ns /\ s.who.x = o.who.x
     /\ op.ns = o.who.ns /\ op.name = o.who.of.name /\ op.compiled /\ ~op.oneWay
     /\ op.port = o.who.of.port \/ (o.who.of.port = "" /\ \A q \in Operations \ {op} :
                                       q.ns # op.ns \/ q.name # op.name)
     /\ op.ns = "addon" => rules.addOns}

\* The device's Forms are exactly what is evidenced, under the most specific
\* security; a Form at an inspected target has the security it was inspected
\* with; only reviewed reads are called safe, and an Event needs a device that
\* pulls and whose properties are known.
FormsBacked(tds) ==
  LET device == UNION {td.forms : td \in {td \in tds : td.id = DeviceId}}
  IN /\ {<<f.operation.id, f.href>> : f \in device} = {<<e[2].id, e[1].who.x>> : e \in Evidenced}
     /\ \A f \in UNION {td.forms : td \in tds} :
          /\ f.operation.compiled /\ (f.safe => rules.aliases /\ f.operation.id = "profiles")
          /\ \A e \in rules.overrides : e.ns = f.ns /\ e.x = f.href => f.security = e.security
          /\ rules.origin = "inventory" =>
               \A p \in rules.principals : p.x = f.href => Range(p.security) = Range(f.security)
     /\ \A e \in UNION {td.events : td \in tds} :
          /\ \E s \in seen : s.who.x = e.href /\ s.value = "pulls"
          /\ \E f \in device : f.href = e.href /\ f.operation.id = "topics" /\ f.security = e.security

\* Resource TDs are the members of inventories that are completely known now,
\* each under one identity, and their up links lead within the published set to
\* the device.
FamilyLinked(tds) ==
  LET known == {o \in seen : o.who.sort = "resources" /\ o.state = "known"}
      ids == {td.id : td \in tds}
      up(id) == (CHOOSE td \in tds : td.id = id).up
  IN /\ Cardinality(ids) = Cardinality(tds)
     /\ \A td \in {td \in tds : td.id # DeviceId} :
          /\ Cardinality({o \in known : \E i \in o.value : i.token = td.id[2][4] /\ Len(i.parents) = Len(td.id[2][3])
                                          /\ ResourceKinds[o.who.of] = td.type}) = 1
          /\ td.up \in ids /\ (td.up # DeviceId => up(td.up) = DeviceId)
          /\ \A f \in td.forms : f.operation.id = "delete" =>
               \A o \in known : o.who.of = "media-profile" => \A i \in o.value : i.fixed # "true"

\* What a policy selects is a conjunction that a native call can meet: different
\* schemes, at most one TLS client identity, "nosec" only alone, no proxies.
Conjunction(names) ==
  LET scheme(i) == rules.definitions[names[i]].scheme
  IN /\ \A i \in DOMAIN names : ~rules.definitions[names[i]].proxy
     /\ \A i, j \in DOMAIN names :
          i = j \/ (scheme(i) # scheme(j) /\ scheme(i) # "nosec" /\ {scheme(i), scheme(j)} # TlsSchemes)

\* A runtime that has the catalog's registry and trusts the endpoints consumes
\* what is published under a policy that selects conjunctions a call can meet,
\* and refuses the TD of any other selection, which validatePolicy() does not
\* look for; one that does not trust an endpoint refuses its TD.
Trusting(origins) == [origins |-> origins, targets |-> {}, scoped |-> FALSE, principals |-> << >>]
Consumable(tds) ==
  LET endpoints(td) == {f.href : f \in td.forms} \cup {f.href : f \in td.events}
      accepted(td, origins) == PrepareDescription(td, rules.definitions, Trusting(origins), "p", Registry)
  IN \A td \in tds :
       /\ accepted(td, endpoints(td))
            <=> \A names \in {f.security : f \in td.forms} \cup {f.security : f \in td.events} : Conjunction(names)
       /\ \A x \in endpoints(td) : ~accepted(td, endpoints(td) \ {x})

\* What is observed of a device is published as it is, neither more nor less,
\* and in a form the runtime consumes, unless the policy selects security that
\* no call can meet: validatePolicy() lets such a selection through, and the
\* runtime refuses the whole TD (project.ts, snapshot-adapter.ts, forms.ts).
ProjectionHonest ==
  \A tds \in {Project} : tds # {} => FormsBacked(tds) /\ FamilyLinked(tds) /\ Consumable(tds)

\* Observing more, or losing an observation, may decide an assessment or leave
\* it open, but never turns it into its opposite in one step: what is not known
\* was never counted as absent (conditions.ts, assessments()).
NeverFlips ==
  [][\A before \in {Facts}, after \in {Facts'}, id \in Assessed :
       {Assessment(id, before), Assessment(id, after)} # {"true", "false"}]_projVars
=============================================================================
