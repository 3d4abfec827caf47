---------------------------- MODULE SecurityPolicy ----------------------------
(***************************************************************************)
(* The decisions a native call takes before anything leaves the process:   *)
(* which security a Form selects, whether its target and its logical       *)
(* endpoint are authorised, which credential it may use and which Digest   *)
(* challenge it answers.  security/policy.ts, logical-endpoint.ts and      *)
(* digest.ts, as operators without state.                                  *)
(***************************************************************************)
EXTENDS Naturals, FiniteSets, Sequences, SequencesExt

TlsSchemes == {"cert", "mtls"}
NativeSchemes == {"nosec", "digest", "wsse"} \cup TlsSchemes

-----------------------------------------------------------------------------
\* selectSecurity(): a Form names security definitions; a "combo" stands for
\* all of its children.  An ancestor met again, an unresolved name and a combo
\* of alternatives are errors.  Depth counts the combos that may still be
\* nested without repeating one.
Bad == "unresolved"
Visit(defs, names) ==
  LET below[depth \in Nat] ==
        [name \in DOMAIN defs |->
           IF defs[name].scheme # "combo" THEN <<name>>
           ELSE IF depth = 0 \/ defs[name].oneOf \/ defs[name].allOf = << >> THEN <<Bad>>
           ELSE FlattenSeq([i \in DOMAIN defs[name].allOf |->
                  IF defs[name].allOf[i] \in DOMAIN defs
                  THEN below[depth - 1][defs[name].allOf[i]] ELSE <<Bad>>])]
  IN FlattenSeq([i \in DOMAIN names |->
       IF names[i] \in DOMAIN defs THEN below[Cardinality(DOMAIN defs)][names[i]] ELSE <<Bad>>])

\* The selected definitions; none where selectSecurity() throws.
Refused == {}
SelectSecurity(defs, names, native) ==
  LET leaves == Visit(defs, names)
      scheme == [i \in DOMAIN leaves |-> defs[leaves[i]].scheme]
      all == Range(scheme)
  IN IF \/ names = << >> \/ Bad \in Range(leaves)
        \/ Cardinality(all) # Len(leaves)
        \/ "nosec" \in all /\ Len(leaves) > 1
        \/ native /\ ~(all \subseteq NativeSchemes)
        \/ ~native /\ Len(leaves) # 1
        \/ TlsSchemes \subseteq all
        \/ native /\ \E name \in Range(leaves) : defs[name].proxy
     THEN Refused ELSE Range(leaves)

-----------------------------------------------------------------------------
\* A target is a URL with its origin.  validateTrust() refuses an empty list of
\* exact targets, so {} is an absent one; scoped says that principalTargets is
\* given.
Listed(trust, targets) == targets # {} /\ \A t \in targets : t.origin \in trust.origins
ValidTrust(trust) ==
  /\ trust.origins # {}
  /\ trust.targets # {} => Listed(trust, trust.targets)
  /\ trust.scoped => \A p \in DOMAIN trust.principals : Listed(trust, trust.principals[p])

AuthorizeTarget(target, trust, principal) ==
  /\ target.origin \in trust.origins
  /\ trust.targets # {} => target \in trust.targets
  /\ trust.scoped => principal \in DOMAIN trust.principals /\ target \in trust.principals[principal]

\* authorizeLogicalEndpoint(): a wsa:To other than the Thing or the target is an
\* alias, which must be the projected endpoint reference of the consumed Thing,
\* be used with the Form's own target and be approved by the host.
AuthorizeLogicalEndpoint(call) ==
  \/ call.to \in {"absent", "thing", "target"}
  \/ /\ call.to = "alias"
     /\ call.projected /\ call.formTarget /\ call.approver = "yes"

\* credentialFor() and the test of the material's kind: what the execution
\* certainty of a failed lookup is.  "late": the budget ended first.
Lookups == {"ok", "absent", "scope", "material", "late"}
LookupCertainty(lookup) == IF lookup \in {"absent", "scope"} THEN "rejected" ELSE "not-sent"

-----------------------------------------------------------------------------
\* selectDigestChallenge(): of the offered challenges those the policy permits,
\* the strongest algorithm first, the first offer among equals.  An offer
\* without a qop list is the old Digest and is supported; a qop list without a
\* permitted qop is not.  A permitted offer without realm or nonce, or a
\* supported one with an unreadable boolean, fails the whole header.
Strength == [MD5 |-> 1, SHA256 |-> 2]
PreferredQop(offer, policy) ==
  LET both == SelectSeq(policy.qops, LAMBDA q : q \in offer.qops)
  IN IF both = << >> THEN "none" ELSE Head(both)
Supported(offer, policy) ==
  /\ offer.algorithm \in policy.algorithms
  /\ offer.qops # {} => PreferredQop(offer, policy) # "none"
  /\ offer.flaw # "charset"
StrongerFirst(a, b) == Strength[a.algorithm] > Strength[b.algorithm]
NoChallenge == [realm |-> "none", nonce |-> 0, stale |-> FALSE, algorithm |-> "none", qop |-> "none"]
SelectDigestChallenge(header, policy) ==
  LET usable == SelectSeq(header.offers, LAMBDA o : Supported(o, policy))
      best == {i \in DOMAIN usable : \A j \in DOMAIN usable :
                 /\ ~StrongerFirst(usable[j], usable[i])
                 /\ j < i => StrongerFirst(usable[i], usable[j])}
      broken == \E i \in DOMAIN header.offers :
                  \/ header.offers[i].algorithm \in policy.algorithms /\ header.offers[i].flaw = "missing"
                  \/ Supported(header.offers[i], policy) /\ header.offers[i].flaw = "boolean"
  IN IF broken \/ usable = << >> THEN NoChallenge
     ELSE LET o == usable[CHOOSE i \in best : TRUE]
          IN [realm |-> header.realm, nonce |-> header.nonce, stale |-> header.stale,
              algorithm |-> o.algorithm, qop |-> PreferredQop(o, policy)]
=============================================================================
