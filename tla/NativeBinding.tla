---------------------------- MODULE NativeBinding ----------------------------
(***************************************************************************)
(* The native binding from both ends: what is published of a device and    *)
(* accepted by a runtime (Projection over ThingForms and Requirements),    *)
(* and the call that follows such a Form (SoapExchange).  A behaviour      *)
(* follows one of the two; they share the security decisions and no state. *)
(***************************************************************************)
EXTENDS SoapExchange, Projection

VARIABLE stage   \* which of the two this behaviour follows

-----------------------------------------------------------------------------
\* Small universes of what a Form, a header and a configuration may say.
Leaf == [scheme : NativeSchemes \cup {"basic"}, oneOf : {FALSE}, allOf : {<< >>}, proxy : {FALSE}]
        \cup {[scheme |-> "digest", oneOf |-> FALSE, allOf |-> << >>, proxy |-> TRUE]}
Combo == [scheme : {"combo"}, oneOf : BOOLEAN, proxy : {FALSE},
          allOf : {<< >>, <<"a">>, <<"b">>, <<"b", "c">>, <<"c">>, <<"d">>}]
Definitions == {d \in [{"a", "b", "c"} -> Leaf \cup Combo] : d["c"].scheme \in {"wsse", "mtls"}}
Selections == {<<"a">>, <<"a", "b">>}
Target == [origin : {"o1", "o2"}, path : {"x"}] \cup [origin : {"o1"}, path : {"y"}]
Trust == {t \in [origins : SUBSET {"o1", "o2"}, targets : SUBSET Target, scoped : BOOLEAN,
                 principals : [{"p"} -> SUBSET Target]] : ValidTrust(t)}
Logical == [to : {"absent", "thing", "target", "invalid"}, projected : {TRUE}, formTarget : {TRUE}, approver : {"absent"}]
           \cup [to : {"alias"}, projected : BOOLEAN, formTarget : BOOLEAN, approver : {"absent", "no", "yes"}]
Policies == [algorithms : {{"SHA256"}, {"MD5", "SHA256"}}, qops : {<<"auth-int", "auth">>, <<"auth">>}]
Offer == [algorithm : {"MD5", "SHA256", "other"}, flaw : {"none"},
          qops : {{}, {"auth"}, {"auth", "auth-int"}, {"other"}}]
         \cup [algorithm : {"SHA256"}, flaw : {"missing", "boolean", "charset"}, qops : {{"auth"}}]
Header == [realm : Realms, nonce : 1..MaxNonce, stale : BOOLEAN,
           offers : {<< >>} \cup {<<o>> : o \in Offer} \cup {<<o, q>> : o \in Offer, q \in Offer}]

HeaderField == [ns : {"2005", "wsse", "custom"}, name : {"x"}] \cup {[ns |-> "custom", name |-> "y"]}
Request == [known : BOOLEAN, keyed : BOOLEAN, namespace : Addressing \cup {"other"},
            properties : SUBSET HeaderField, parameters : SUBSET HeaderField, custom : SUBSET HeaderField]
Token == [instant : BOOLEAN, offset : {-3, 0, 2}, octets : {15, 16, 64, 65}, repeated : BOOLEAN]
\* What the decisions of SecurityPolicy and SoapMessage can be on these
\* universes.
Composed == {SoapEnvelope(request) : request \in Request}
Tokens == {UsernameTokenSound(token) : token \in Token}
Encodable == {DigestEncodable(a) : a \in [utf8 : BOOLEAN, latin : BOOLEAN]}
Authorized == {AuthorizeTarget(target, trust, "p") /\ AuthorizeLogicalEndpoint(call) :
                 target \in Target, trust \in Trust, call \in Logical}
Selectable == {{defs[name].scheme : name \in SelectSecurity(defs, names, TRUE)} :
                 defs \in Definitions, names \in Selections}
Selected == {[policy |-> p, challenge |-> SelectDigestChallenge(h, p)] : p \in Policies, h \in Header}

-----------------------------------------------------------------------------
CallInit == ExchangeInit /\ policy \in Policies

\* A step of the call leaves the publication alone.
Calling == stage = "call" /\ UNCHANGED <<projVars, stage>>
Executor ==
  \/ \E schemes \in Selectable, https, cert \in BOOLEAN : Select(schemes, https, cert) /\ Calling
  \/ \E lookup \in Lookups : ClientCertificate(lookup) /\ Calling
  \/ \E lookup \in Lookups, token \in Tokens, composed \in Composed :
       UsernameToken(lookup, token, composed) /\ Calling
  \/ \E lookup \in Lookups, encodable \in Encodable : Sign(lookup, encodable) /\ Calling
  \/ \E late \in BOOLEAN : Send(late) /\ Calling
  \/ \E s \in Selected : s.policy = policy /\ Challenged(s.challenge) /\ Calling
  \/ Answered /\ Calling
  \/ Interrupt /\ Calling
CallNext ==
  \/ \E authorized \in Authorized, late \in BOOLEAN : Authorize(authorized, late) /\ Calling
  \/ Executor
  \/ Connect /\ Calling
  \/ Serve /\ Calling
  \/ CloseTransport /\ Calling
  \/ Closed /\ Calling

-----------------------------------------------------------------------------
BindingInit ==
  \/ stage = "call" /\ CallInit
     /\ seen = {} /\ listed = TRUE /\ rules = Base /\ index = Refusal
  \/ stage = "publish" /\ ProjInit
     /\ CallInit /\ oneWay = TRUE /\ policy = CHOOSE p \in Policies : TRUE

BindingNext ==
  \/ CallNext
  \/ stage = "publish" /\ ProjNext /\ UNCHANGED <<exchangeVars, stage>>

BindingSpec == BindingInit /\ [][BindingNext]_<<exchangeVars, projVars, stage>>

-----------------------------------------------------------------------------
\* Rejected credentials are not replayed or downgraded (NoReplay), and a
\* challenge is only chosen when it is permitted and no permitted usable offer
\* of the header is stronger.
ChallengesHonoured ==
  /\ NoReplay
  /\ phase = "idle" /\ ~oneWay => \A h \in Header :
       LET c == SelectDigestChallenge(h, policy)
       IN c # NoChallenge =>
            /\ c.algorithm \in policy.algorithms /\ c.nonce = h.nonce
            /\ c.qop # "none" => c.qop \in Range(policy.qops)
            /\ \A i \in DOMAIN h.offers : Supported(h.offers[i], policy)
                 => Strength[h.offers[i].algorithm] <= Strength[c.algorithm]

\* Security is a conjunction: what goes out is complete, and a selection is
\* made only if everything it reaches is resolved, without alternatives or
\* cycles.
Reach(defs, names) ==
  LET closed == {S \in SUBSET (DOMAIN defs \cup {"d"}) : Range(names) \subseteq S
                  /\ \A n \in S \cap DOMAIN defs : Range(defs[n].allOf) \subseteq S}
  IN {n \in DOMAIN defs \cup {"d"} : \A S \in closed : n \in S}
EveryRequestSecured ==
  /\ CredentialsComplete
  /\ phase = "idle" /\ ~oneWay => \A defs \in Definitions, names \in Selections :
       LET selected == SelectSecurity(defs, names, TRUE)
           reach == Reach(defs, names)
       IN selected # Refused =>
            /\ reach \subseteq DOMAIN defs
            /\ selected = {n \in reach : defs[n].scheme # "combo"}
            /\ \A n \in reach : ~defs[n].oneOf /\ (defs[n].scheme = "combo" => n \notin Reach(defs, defs[n].allOf))

\* The credentials of a call: all that the Form asks for, none downgraded.
CallSecured == EveryRequestSecured /\ ChallengesHonoured
=============================================================================
