----------------------------- MODULE SoapExchange -----------------------------
(***************************************************************************)
(* One native call: NativeExecutor.exchange() over NodeHttpTransport.  The *)
(* call is authorised, looks up its credentials, and makes up to three     *)
(* attempts, the later ones only to answer a Digest challenge.  Whatever   *)
(* goes wrong, the error says whether the device may have executed the     *)
(* call: "not-sent" and "rejected" promise that it has not, "unknown" does *)
(* not.  The device and the network are external: a request is executed at *)
(* most once and possibly long after the caller gave up.                   *)
(*                                                                         *)
(* Payloads and envelopes are abstracted to whether they are acceptable.   *)
(* nonce() is abstracted to whether the source repeats a recent value.     *)
(***************************************************************************)
EXTENDS SecurityPolicy, SoapMessage

CONSTANTS Realms,        \* realms a device may announce
          MaxNonce       \* device nonces are 1..MaxNonce

ASSUME SoapAssumption == Realms # {} /\ "none" \notin Realms /\ MaxNonce \in Nat \ {0}

VARIABLES
  phase,      \* "idle", "select", "tls", "token", "sign", "send", "wire", "done"
  need,       \* the security schemes the Form selects
  oneWay,     \* the operation has no response
  attempt,    \* 0..2
  challenge,  \* the challenge being answered
  policy,     \* the Digest policy of the executor
  carried,    \* the schemes whose credentials the request carries
  signed,     \* the challenges answered so far, in order
  wire,       \* "none", "connecting", "flight", "served"
  reply,      \* the response, if the device has served the request
  executed,   \* how often the device executed the call
  outcome,    \* "pending", "value", "one-way", or an execution certainty
  closing     \* NodeHttpTransport: "open", "closing", "closed"

exchangeVars == <<phase, need, oneWay, attempt, challenge, policy, carried, signed, wire, reply,
                  executed, outcome, closing>>
device == <<reply, executed>>

-----------------------------------------------------------------------------
\* What a device may answer.
Response == [status : {200, 202, 400, 500}, soap : BOOLEAN, body : Bodies]
            \cup [status : {302, 401}, soap : {FALSE}, body : {"empty"}]
            \cup {[status |-> 200, soap |-> TRUE, body |-> "oversize"]}
NoReply == [status |-> 0, soap |-> FALSE, body |-> "empty"]

\* What selectDigestChallenge() makes of a header: a challenge, or none.
Challenges == {NoChallenge} \cup [realm : Realms, nonce : 1..MaxNonce, stale : BOOLEAN,
  algorithm : DOMAIN Strength, qop : {"none", "auth", "auth-int"}]

Fail(execution) == phase' = "done" /\ outcome' = execution

-----------------------------------------------------------------------------
\* exchange() up to the first attempt.  A call that is cancelled or late, or
\* whose target or logical endpoint is not authorised, fails before send.
Authorize(authorized, late) ==
  /\ phase = "idle"
  /\ IF late \/ ~authorized
     THEN Fail("not-sent")
     ELSE phase' = "select" /\ UNCHANGED outcome
  /\ UNCHANGED <<need, oneWay, attempt, challenge, policy, carried, signed, wire, device, closing>>

\* selectSecurity() and its consequences: mutual TLS needs an https target, and
\* the trust configuration's own client certificate is never lent to a call.
Select(schemes, https, globalCertificate) ==
  LET tls == TlsSchemes \cap schemes # {}
  IN /\ phase = "select"
     /\ IF schemes = {} \/ (tls /\ ~https) \/ (~tls /\ globalCertificate)
        THEN Fail("not-sent") /\ UNCHANGED need
        ELSE phase' = (IF tls THEN "tls" ELSE "token") /\ need' = schemes /\ UNCHANGED outcome
     /\ UNCHANGED <<oneWay, attempt, challenge, policy, carried, signed, wire, device, closing>>

\* budget.wait(credentialFor(...)): the client certificate, once per call.
ClientCertificate(lookup) ==
  /\ phase = "tls"
  /\ IF lookup # "ok" THEN Fail(LookupCertainty(lookup)) /\ UNCHANGED carried
     ELSE phase' = "token" /\ carried' = TlsSchemes \cap need /\ UNCHANGED outcome
  /\ UNCHANGED <<need, oneWay, attempt, challenge, policy, signed, wire, device, closing>>

\* The payload is checked against the operation, then every attempt makes a
\* fresh UsernameToken and the envelope: a repeated nonce, a bad clock or a
\* reserved header fails the call.
UsernameToken(lookup, token, composed) ==
  /\ phase = "token"
  /\ IF "wsse" \in need /\ lookup # "ok" THEN Fail(LookupCertainty(lookup)) /\ UNCHANGED carried
     ELSE IF ("wsse" \in need /\ ~token) \/ ~composed THEN Fail("not-sent") /\ UNCHANGED carried
     ELSE /\ phase' = "sign"
          /\ carried' = carried \cup ({"wsse"} \cap need)
          /\ UNCHANGED outcome
  /\ UNCHANGED <<need, oneWay, attempt, challenge, policy, signed, wire, device, closing>>

\* createDigestAuthorization() with a fresh cnonce, once a challenge is known.
Sign(lookup, encodable) ==
  /\ phase = "sign"
  /\ IF "digest" \notin need \/ challenge = NoChallenge
     THEN phase' = "send" /\ UNCHANGED <<carried, signed, outcome>>
     ELSE IF lookup # "ok" THEN Fail(LookupCertainty(lookup)) /\ UNCHANGED <<carried, signed>>
     ELSE IF ~encodable THEN Fail("rejected") /\ UNCHANGED <<carried, signed>>
     ELSE /\ phase' = "send"
          /\ carried' = carried \cup {"digest"}
          /\ signed' = Append(signed, challenge)
          /\ UNCHANGED outcome
  /\ UNCHANGED <<need, oneWay, attempt, challenge, policy, wire, device, closing>>

-----------------------------------------------------------------------------
\* NodeHttpTransport.request(): refused when the budget is spent or the
\* transport closes; then a socket is awaited.
Send(late) ==
  /\ phase = "send"
  /\ IF late \/ closing # "open" THEN Fail("not-sent") /\ UNCHANGED wire
     ELSE phase' = "wire" /\ wire' = "connecting" /\ UNCHANGED outcome
  /\ UNCHANGED <<need, oneWay, attempt, challenge, policy, carried, signed, device, closing>>

\* The socket connects, or one that is kept alive is reused: the request goes out.
Connect ==
  /\ phase = "wire" /\ wire = "connecting" /\ wire' = "flight"
  /\ UNCHANGED <<phase, need, oneWay, attempt, challenge, policy, carried, signed, device, outcome, closing>>

\* The device: a request in flight is refused (401, SOAP Sender fault), or
\* executed and answered, or answered in a way that tells nothing.  Only
\* the caller of a request that is still awaited sees the answer.
Refuses(r) == r.status = 401 \/ (r.body = "sender" /\ r.soap)
Confirms(r) == r.status \in {200, 202} /\ r.body \in {"message", "empty"}
Serve ==
  /\ wire = "flight" /\ wire' = "served"
  /\ reply' \in Response
  /\ executed' \in IF Refuses(reply') THEN {executed}
                    ELSE IF Confirms(reply') THEN {executed + 1} ELSE {executed, executed + 1}
  /\ UNCHANGED <<phase, need, oneWay, attempt, challenge, policy, carried, signed, outcome, closing>>

\* fail() of the transport and request() of the executor: timeout, abort or a
\* socket error.  Only a request without a connection was certainly not sent;
\* it is destroyed, one in flight may still be served.
CertaintyFromAnswer == IF wire = "served" THEN "unknown" ELSE "not-sent"
Certainty == IF wire = "connecting" THEN "not-sent" ELSE "unknown"
Interrupt ==
  /\ phase = "wire"
  /\ Fail(Certainty)
  /\ wire' = IF wire = "connecting" THEN "none" ELSE wire
  /\ UNCHANGED <<need, oneWay, attempt, challenge, policy, carried, signed, device, closing>>

\* What exchange() makes of a response that is not a challenge.  Redirects are
\* not followed; an empty 202 or 204 accepts a one-way call, and nothing else
\* does; a body beyond the limit or of another content type tells nothing; and
\* a decoding error of an answer is relabelled "unknown".
Classify(r) ==
  IF oneWay /\ r.status = 202 /\ r.body = "empty" THEN "one-way"
  ELSE IF r.status \in 300..399 \/ r.body = "oversize" \/ ~r.soap THEN "unknown"
  ELSE IF SoapResponse(r) # "payload" THEN SoapResponse(r)
  ELSE IF oneWay \/ r.body = "undecodable" THEN "unknown" ELSE "value"

AcceptableAnyRealm(next) ==
  /\ next # NoChallenge
  /\ challenge # NoChallenge => next.stale /\ next.nonce # challenge.nonce
\* A challenge is answered when it is the first one, or when the device calls
\* the previous nonce stale and changes nothing but the nonce.
Acceptable(next) ==
  /\ next # NoChallenge
  /\ challenge # NoChallenge =>
       /\ next.stale /\ next.nonce # challenge.nonce
       /\ next.realm = challenge.realm /\ next.algorithm = challenge.algorithm /\ next.qop = challenge.qop
Challenged(next) ==
  /\ phase = "wire" /\ wire = "served" /\ reply.status = 401
  /\ IF "digest" \notin need \/ attempt = 2 \/ ~Acceptable(next)
     THEN Fail("rejected") /\ UNCHANGED <<attempt, challenge, carried>>
     ELSE /\ phase' = "token" /\ attempt' = attempt + 1 /\ challenge' = next
          /\ carried' = carried \cap TlsSchemes
          /\ UNCHANGED outcome
  /\ wire' = "none" /\ reply' = NoReply
  /\ UNCHANGED <<need, oneWay, policy, signed, executed, closing>>

Answered ==
  /\ phase = "wire" /\ wire = "served" /\ reply.status # 401
  /\ Fail(Classify(reply))
  /\ wire' = "none" /\ reply' = NoReply
  /\ UNCHANGED <<need, oneWay, attempt, challenge, policy, carried, signed, executed, closing>>

\* NodeHttpTransport.close(): waits for the pending request, then destroys the
\* agents.
CloseTransport ==
  /\ closing = "open" /\ closing' = "closing"
  /\ UNCHANGED <<phase, need, oneWay, attempt, challenge, policy, carried, signed, wire, device, outcome>>
Closed ==
  /\ closing = "closing" /\ phase # "wire" /\ closing' = "closed"
  /\ UNCHANGED <<phase, need, oneWay, attempt, challenge, policy, carried, signed, wire, device, outcome>>

-----------------------------------------------------------------------------
\* A call with whatever input: any schemes, any outcome of a lookup, of a
\* signature or of a composition, any challenge the policy might have chosen.
ExchangeInit ==
  /\ phase = "idle" /\ attempt = 0 /\ challenge = NoChallenge
  /\ need = {} /\ oneWay \in BOOLEAN
  /\ carried = {} /\ signed = << >> /\ wire = "none" /\ reply = NoReply
  /\ executed = 0 /\ outcome = "pending" /\ closing = "open"

ExchangeNext ==
  \/ \E authorized, late \in BOOLEAN : Authorize(authorized, late)
  \/ \E schemes \in SUBSET NativeSchemes, https, cert \in BOOLEAN : Select(schemes, https, cert)
  \/ \E lookup \in Lookups : ClientCertificate(lookup)
  \/ \E lookup \in Lookups, token, composed \in BOOLEAN : UsernameToken(lookup, token, composed)
  \/ \E lookup \in Lookups, encodable \in BOOLEAN : Sign(lookup, encodable)
  \/ \E late \in BOOLEAN : Send(late)
  \/ Connect \/ Serve \/ Interrupt \/ Answered
  \/ \E next \in Challenges : Challenged(next)
  \/ CloseTransport \/ Closed

ExchangeSpec == ExchangeInit /\ [][ExchangeNext]_exchangeVars

-----------------------------------------------------------------------------
\* The execution certainty of an error is true: a call that reports "not-sent"
\* or "rejected" has not been executed and never will be, one that reports a
\* result has been executed, and no call is executed twice, whatever
\* attempt failed, however late the device serves a request.
CertaintyHonest ==
  /\ executed + (IF wire = "flight" THEN 1 ELSE 0) <= 1
  /\ outcome \in {"not-sent", "rejected"} => executed = 0 /\ wire # "flight"
  /\ outcome \in {"value", "one-way"} => executed = 1

\* Security is a conjunction: what goes out carries the credentials of every
\* scheme the Form needs, Digest once there is a challenge to answer.
Waived == IF challenge = NoChallenge THEN {"digest", "nosec"} ELSE {"nosec"}
CredentialsComplete == wire # "none" => need \ Waived \subseteq carried

\* Rejected credentials are not replayed or downgraded: within a call every
\* Authorization answers a nonce of its own, under the realm, algorithm and qop
\* of the first.
NoReplay ==
  \A i, j \in DOMAIN signed : i < j =>
    /\ signed[i].realm = signed[j].realm /\ signed[i].algorithm = signed[j].algorithm
    /\ signed[i].qop = signed[j].qop
    /\ j = i + 1 => signed[i].nonce # signed[j].nonce
=============================================================================
