---------------------------- MODULE BindingProofs ----------------------------
(***************************************************************************)
(* For any input, any realms and any number of nonces, a native call tells *)
(* the truth about its execution, sends nothing without the credentials    *)
(* its Form asks for, and never replays a Digest nonce.  For any number of *)
(* interactions, subscriptions and sessions and any capacities, what a     *)
(* runtime or a media executor started has ended when its close() settles. *)
(***************************************************************************)
EXTENDS SoapExchange, Runtime, FiniteSetTheorems, TLAPS

Phases == {"idle", "select", "tls", "token", "sign", "send", "wire", "done"}
Outcomes == {"pending", "value", "one-way", "not-sent", "rejected", "unknown"}

ExchangeTypeOK ==
  /\ phase \in Phases /\ outcome \in Outcomes
  /\ wire \in {"none", "connecting", "flight", "served"}
  /\ executed \in 0..1 /\ attempt \in 0..2
  /\ need \in SUBSET NativeSchemes
  /\ challenge \in Challenges /\ signed \in Seq(Challenges)

\* Nothing of a call is on the wire before its first request, nor between the
\* answer to a challenge and the next request.
WirePhase ==
  /\ outcome = "pending" <=> phase # "done"
  /\ phase \notin {"wire", "done"} => wire = "none" /\ executed = 0
  /\ wire = "connecting" => phase = "wire"
  /\ phase = "wire" => wire # "none"

\* What the wire tells of the execution while the answer is awaited: nothing
\* is executed before it is served, and an answer that refuses or confirms
\* the call is true.
AnswerTrue ==
  /\ wire \in {"connecting", "flight"} => executed = 0
  /\ phase = "wire" /\ wire = "served" =>
       /\ reply \in Response
       /\ Refuses(reply) => executed = 0
       /\ Confirms(reply) => executed = 1

OutcomeTrue ==
  /\ outcome \in {"not-sent", "rejected"} => executed = 0 /\ wire # "flight"
  /\ outcome \in {"value", "one-way"} => executed = 1

\* The credentials gathered so far: each phase adds those of one kind.
Gathered ==
  /\ phase \in {"token", "sign", "send", "wire"} => TlsSchemes \cap need \subseteq carried
  /\ phase \in {"sign", "send", "wire"} => {"wsse"} \cap need \subseteq carried
  /\ phase \in {"send", "wire"} /\ challenge # NoChallenge => {"digest"} \cap need \subseteq carried

\* Which challenges have been answered: those of the attempts before this one,
\* and that of this attempt once it is signed.
Continues(old, new) ==
  /\ old.realm = new.realm /\ old.algorithm = new.algorithm /\ old.qop = new.qop
  /\ old.nonce # new.nonce
Answers ==
  /\ attempt = 0 <=> challenge = NoChallenge
  /\ challenge # NoChallenge => "digest" \in need
  /\ phase \in {"idle", "select", "tls"} => attempt = 0
  /\ phase \in {"idle", "select", "tls", "token", "sign"} =>
       Len(signed) = (IF attempt = 0 THEN 0 ELSE attempt - 1)
  /\ phase \in {"send", "wire"} =>
       Len(signed) = attempt /\ (attempt # 0 => signed[attempt] = challenge)
  /\ phase \in {"token", "sign"} /\ attempt = 2 => Continues(signed[1], challenge)
  /\ Len(signed) <= 2
  /\ Len(signed) = 2 => Continues(signed[1], signed[2])

\* The inductive invariant.  CertaintyHonest is not inductive: it does not say
\* that a call that may still be repeated has not been executed (WirePhase) or
\* what the answer about to be read means (AnswerTrue).
CertaintyInv == WirePhase /\ AnswerTrue /\ OutcomeTrue
IInv == ExchangeTypeOK /\ CertaintyInv /\ Gathered /\ CredentialsComplete /\ Answers

-----------------------------------------------------------------------------
\* A call begins with nothing sent and nothing gathered.
LEMMA InitInvariant == ExchangeInit => IInv
<1> SUFFICES ASSUME ExchangeInit PROVE IInv
  OBVIOUS
<1>1. ExchangeTypeOK
  BY SMTT(30) DEF ExchangeInit, ExchangeTypeOK, Phases, Outcomes, Challenges
<1>2. CertaintyInv
  BY <1>1 DEF ExchangeInit, CertaintyInv, WirePhase, AnswerTrue, OutcomeTrue
<1>3. Gathered /\ CredentialsComplete /\ Answers
  BY DEF ExchangeInit, Gathered, CredentialsComplete, Answers
<1>4. QED
  BY <1>1, <1>2, <1>3 DEF IInv

\* A credential that cannot be had fails the call as one that was not executed.
LEMMA LookupNotExecuted ==
  ASSUME NEW lookup PROVE LookupCertainty(lookup) \in {"not-sent", "rejected"}
  BY DEF LookupCertainty

\* exchange() calls a response a result only if it confirms the execution, and
\* a rejection only if it refuses it.
LEMMA ClassifySound ==
  ASSUME NEW r \in Response, r.status # 401
  PROVE  /\ Classify(r) \in {"value", "one-way", "unknown", "rejected"}
         /\ Classify(r) \in {"value", "one-way"} => Confirms(r)
         /\ Classify(r) = "rejected" => Refuses(r)
<1>1. r.status \in {200, 202, 400, 500, 302} /\ r.body \in Bodies \cup {"oversize"} /\ r.soap \in BOOLEAN
  <2> DEFINE Worded == [status : {200, 202, 400, 500}, soap : BOOLEAN, body : Bodies]
             Bare == [status : {302, 401}, soap : {FALSE}, body : {"empty"}]
  <2>1. CASE r \in Worded
    BY <2>1
  <2>2. CASE r \in Bare
    BY ZenonT(30), <2>2 DEF Bodies
  <2>3. CASE r = [status |-> 200, soap |-> TRUE, body |-> "oversize"]
    BY <2>3
  <2> HIDE DEF Worded, Bare
  <2>4. r \in Worded \cup Bare \cup {[status |-> 200, soap |-> TRUE, body |-> "oversize"]}
    BY DEF Response, Worded, Bare
  <2>5. QED
    BY <2>1, <2>2, <2>3, <2>4
<1>2. SoapResponse(r) \in {"unknown", "rejected", "payload"}
  BY DEF SoapResponse
<1>3. SoapResponse(r) = "rejected" => r.body = "sender"
  BY DEF SoapResponse
<1>4. SoapResponse(r) = "payload" /\ r.body # "oversize" /\ r.body # "undecodable" =>
        r.status \in {200, 202} /\ r.body = "message"
  BY <1>1 DEF SoapResponse, Bodies
<1>5. QED
  BY <1>1, <1>2, <1>3, <1>4 DEF Classify, Confirms, Refuses

-----------------------------------------------------------------------------
\* The certainty of a call that has nothing on the wire: every step taken
\* before the next request only fails the call as not executed or goes on.
LEMMA Waiting ==
  ASSUME IInv, phase \notin {"wire", "done"}, phase' \in Phases \ {"wire"},
         phase' = "done" => outcome' \in {"not-sent", "rejected"},
         phase' # "done" => outcome' = outcome,
         wire' = wire, UNCHANGED device
  PROVE  /\ CertaintyInv' /\ CredentialsComplete'
         /\ outcome' \in Outcomes /\ wire' \in {"none", "connecting", "flight", "served"}
         /\ executed' \in 0..1
<1>1. wire = "none" /\ executed = 0 /\ outcome = "pending"
  BY DEF IInv, CertaintyInv, WirePhase
<1>2. wire' = "none" /\ executed' = 0 /\ outcome' \in {"pending", "not-sent", "rejected"}
      /\ (outcome' = "pending" <=> phase' # "done") /\ phase' # "wire"
  BY <1>1 DEF device
<1>3. CertaintyInv'
  BY <1>2 DEF CertaintyInv, WirePhase, AnswerTrue, OutcomeTrue
<1>4. CredentialsComplete'
  BY <1>2 DEF CredentialsComplete
<1>5. QED
  BY <1>2, <1>3, <1>4 DEF Outcomes

\* Nothing of a call is answered before its security is selected.
LEMMA AuthorizeStep ==
  ASSUME IInv, NEW a \in BOOLEAN, NEW l \in BOOLEAN, Authorize(a, l)
  PROVE  IInv'
<1>1. phase = "idle" /\ phase' \in {"select", "done"}
      /\ (phase' = "done" => outcome' = "not-sent") /\ (phase' # "done" => outcome' = outcome)
      /\ UNCHANGED <<need, oneWay, attempt, challenge, policy, carried, signed, wire, device, closing>>
  BY DEF Authorize, Fail
<1>2. CertaintyInv' /\ CredentialsComplete' /\ ExchangeTypeOK'
  BY <1>1, Waiting DEF IInv, ExchangeTypeOK, Phases
<1>3. Gathered' /\ Answers'
  BY <1>1 DEF IInv, Gathered, Answers
<1>4. QED
  BY <1>2, <1>3 DEF IInv

\* Without TLS schemes there is no certificate to look up.
LEMMA SelectStep ==
  ASSUME IInv, NEW schemes \in SUBSET NativeSchemes, NEW h \in BOOLEAN, NEW g \in BOOLEAN,
         Select(schemes, h, g)
  PROVE  IInv'
<1>1. phase = "select" /\ phase' \in {"tls", "token", "done"}
      /\ (phase' = "done" => outcome' = "not-sent") /\ (phase' # "done" => outcome' = outcome)
      /\ (phase' = "token" => TlsSchemes \cap need' = {}) /\ need' \in {need, schemes}
      /\ UNCHANGED <<oneWay, attempt, challenge, policy, carried, signed, wire, device, closing>>
  BY DEF Select, Fail
<1>2. CertaintyInv' /\ CredentialsComplete' /\ ExchangeTypeOK'
  BY <1>1, Waiting DEF IInv, ExchangeTypeOK, Phases
<1>3. attempt = 0 /\ challenge = NoChallenge
  BY <1>1 DEF IInv, Answers
<1>4. Gathered' /\ Answers'
  BY <1>1, <1>3 DEF IInv, Gathered, Answers
<1>5. QED
  BY <1>2, <1>4 DEF IInv

\* The client certificate is gathered before the first attempt.
LEMMA ClientCertificateStep ==
  ASSUME IInv, NEW lookup \in Lookups, ClientCertificate(lookup)
  PROVE  IInv'
<1>1. phase = "tls" /\ phase' \in {"token", "done"}
      /\ (phase' = "done" => outcome' \in {"not-sent", "rejected"}) /\ (phase' # "done" => outcome' = outcome)
      /\ (phase' = "token" => carried' = TlsSchemes \cap need)
      /\ UNCHANGED <<need, oneWay, attempt, challenge, policy, signed, wire, device, closing>>
  BY LookupNotExecuted DEF ClientCertificate, Fail
<1>2. CertaintyInv' /\ CredentialsComplete' /\ ExchangeTypeOK'
  BY <1>1, Waiting DEF IInv, ExchangeTypeOK, Phases
<1>3. Gathered' /\ Answers'
  BY <1>1 DEF IInv, Gathered, Answers
<1>4. QED
  BY <1>2, <1>3 DEF IInv

\* Every attempt gathers a UsernameToken of its own.
LEMMA UsernameTokenStep ==
  ASSUME IInv, NEW lookup \in Lookups, NEW t \in BOOLEAN, NEW c \in BOOLEAN, UsernameToken(lookup, t, c)
  PROVE  IInv'
<1>1. phase = "token" /\ phase' \in {"sign", "done"}
      /\ (phase' = "done" => outcome' \in {"not-sent", "rejected"}) /\ (phase' # "done" => outcome' = outcome)
      /\ (phase' = "sign" => carried' = carried \cup ({"wsse"} \cap need))
      /\ UNCHANGED <<need, oneWay, attempt, challenge, policy, signed, wire, device, closing>>
  BY LookupNotExecuted DEF UsernameToken, Fail
<1>2. CertaintyInv' /\ CredentialsComplete' /\ ExchangeTypeOK'
  BY <1>1, Waiting DEF IInv, ExchangeTypeOK, Phases
<1>3. Gathered' /\ Answers'
  BY <1>1 DEF IInv, Gathered, Answers
<1>4. QED
  BY <1>2, <1>3 DEF IInv

\* A challenge that is answered joins those answered before it.
LEMMA SignStep ==
  ASSUME IInv, NEW lookup \in Lookups, NEW e \in BOOLEAN, Sign(lookup, e)
  PROVE  IInv'
<1>1. phase = "sign" /\ phase' \in {"send", "done"}
      /\ (phase' = "done" => outcome' \in {"not-sent", "rejected"}) /\ (phase' # "done" => outcome' = outcome)
      /\ UNCHANGED <<need, oneWay, attempt, challenge, policy, wire, device, closing>>
  BY LookupNotExecuted DEF Sign, Fail
<1>2. \/ UNCHANGED <<carried, signed>> /\ (phase' = "send" => challenge = NoChallenge)
      \/ /\ phase' = "send" /\ challenge # NoChallenge /\ "digest" \in need
         /\ carried' = carried \cup {"digest"} /\ signed' = Append(signed, challenge)
  BY <1>1 DEF Sign, Fail, IInv, Answers
<1>3. CertaintyInv' /\ CredentialsComplete' /\ ExchangeTypeOK'
  BY <1>1, <1>2, Waiting DEF IInv, ExchangeTypeOK, Phases
<1>4. Gathered'
  BY <1>1, <1>2 DEF IInv, Gathered
<1>5. Answers'
  <2>1. CASE UNCHANGED <<carried, signed>> /\ (phase' = "send" => challenge = NoChallenge)
    BY <1>1, <2>1 DEF IInv, Answers
  <2>2. CASE /\ phase' = "send" /\ challenge # NoChallenge /\ "digest" \in need
             /\ signed' = Append(signed, challenge)
    <3>1. signed \in Seq(Challenges) /\ Len(signed) = attempt - 1 /\ attempt \in 1..2
      BY <1>1, <2>2 DEF IInv, ExchangeTypeOK, Answers
    <3>2. Len(signed') = attempt /\ signed'[attempt] = challenge
          /\ (attempt = 2 => signed'[1] = signed[1])
      BY <2>2, <3>1
    <3>3. attempt = 2 => Continues(signed[1], challenge)
      BY <1>1 DEF IInv, Answers
    <3>4. attempt = 2 => Continues(signed'[1], signed'[2])
      BY <3>2, <3>3
    <3>5. QED
      BY <1>1, <2>2, <3>1, <3>2, <3>4 DEF IInv, Answers
  <2>3. QED
    BY <1>2, <2>1, <2>2
<1>6. QED
  BY <1>3, <1>4, <1>5 DEF IInv

-----------------------------------------------------------------------------
\* A request that leaves carries all that the phases before it gathered.
LEMMA SendStep ==
  ASSUME IInv, NEW l \in BOOLEAN, Send(l)
  PROVE  IInv'
<1> USE DEF IInv
<1>1. phase = "send" /\ executed = 0 /\ wire = "none" /\ outcome = "pending"
      /\ UNCHANGED <<need, attempt, challenge, carried, signed, executed>>
  BY DEF Send, device, CertaintyInv, WirePhase
<1>2. \/ phase' = "done" /\ outcome' = "not-sent" /\ wire' = wire
      \/ phase' = "wire" /\ wire' = "connecting" /\ outcome' = outcome
  BY DEF Send, Fail
<1>3. ExchangeTypeOK'
  BY <1>1, <1>2 DEF ExchangeTypeOK, Phases, Outcomes
<1>4. CertaintyInv'
  BY <1>1, <1>2 DEF CertaintyInv, WirePhase, AnswerTrue, OutcomeTrue
<1>5. Gathered' /\ Answers'
  BY <1>1, <1>2 DEF Gathered, Answers
<1>6. phase' = "wire" => CredentialsComplete'
  <2>1. TlsSchemes \cap need \subseteq carried /\ {"wsse"} \cap need \subseteq carried
        /\ (challenge # NoChallenge => {"digest"} \cap need \subseteq carried)
    BY <1>1 DEF Gathered
  <2>2. need \in SUBSET NativeSchemes
    BY DEF ExchangeTypeOK
  <2>3. QED
    BY <1>1, <2>1, <2>2 DEF CredentialsComplete, Waived, NativeSchemes
<1>7. CredentialsComplete'
  BY <1>1, <1>2, <1>6 DEF CredentialsComplete
<1>8. QED
  BY <1>3, <1>4, <1>5, <1>7

\* Everything but the phase, the wire, the device and the outcome.
Kept == UNCHANGED <<need, attempt, challenge, carried, signed>>

\* A call on the wire keeps its credentials while it stays there or ends.
LEMMA OnTheWire ==
  ASSUME IInv, Kept, wire' # "none" => wire # "none",
         phase' = phase \/ phase' = "done"
  PROVE  Gathered' /\ CredentialsComplete' /\ Answers'
  BY DEF IInv, Kept, Gathered, CredentialsComplete, Waived, Answers

\* The socket connects.
LEMMA ConnectStep == IInv /\ Connect => IInv'
<1> SUFFICES ASSUME IInv, Connect PROVE IInv'
  OBVIOUS
<1>1. ExchangeTypeOK' /\ CertaintyInv'
  BY DEF IInv, Connect, device, ExchangeTypeOK, CertaintyInv, WirePhase, AnswerTrue, OutcomeTrue
<1>2. Gathered' /\ CredentialsComplete' /\ Answers'
  BY OnTheWire DEF Connect, Kept
<1>3. QED
  BY <1>1, <1>2 DEF IInv

\* The device serves a request in flight once, awaited or not.
LEMMA ServeStep == IInv /\ Serve => IInv'
<1> SUFFICES ASSUME IInv, Serve PROVE IInv'
  OBVIOUS
<1>1. executed = 0 /\ wire = "flight" /\ wire' = "served" /\ reply' \in Response
      /\ UNCHANGED <<phase, outcome>>
  BY DEF IInv, CertaintyInv, AnswerTrue, Serve
<1>2. executed' \in 0..1 /\ (Refuses(reply') => executed' = 0) /\ (Confirms(reply') => executed' = 1)
  <2>1. Confirms(reply') => ~Refuses(reply')
    BY DEF Confirms, Refuses
  <2>2. QED
    BY <1>1, <2>1 DEF Serve
<1>3. outcome \notin {"not-sent", "rejected", "value", "one-way"}
  BY <1>1 DEF IInv, CertaintyInv, OutcomeTrue
<1>4. ExchangeTypeOK'
  BY <1>1, <1>2 DEF IInv, Serve, ExchangeTypeOK
<1>5. CertaintyInv'
  <2>1. WirePhase'
    BY <1>1 DEF IInv, CertaintyInv, WirePhase
  <2>2. Refuses(reply)' = Refuses(reply') /\ Confirms(reply)' = Confirms(reply')
    BY DEF Refuses, Confirms
  <2>3. QED
    BY <1>1, <1>2, <1>3, <2>1, <2>2 DEF CertaintyInv, AnswerTrue, OutcomeTrue
<1>6. Gathered' /\ CredentialsComplete' /\ Answers'
  BY <1>1, OnTheWire DEF Serve, Kept
<1>7. QED
  BY <1>4, <1>5, <1>6 DEF IInv

\* A call that is given up was certainly not sent only without a connection.
LEMMA InterruptStep == IInv /\ Interrupt => IInv'
<1> SUFFICES ASSUME IInv, Interrupt PROVE IInv'
  OBVIOUS
<1>1. phase = "wire" /\ phase' = "done" /\ UNCHANGED <<reply, executed>>
      /\ \/ wire = "connecting" /\ outcome' = "not-sent" /\ wire' = "none"
         \/ wire # "connecting" /\ outcome' = "unknown" /\ wire' = wire
  BY DEF Interrupt, Fail, Certainty, device
<1>2. wire = "connecting" => executed = 0
  BY DEF IInv, CertaintyInv, AnswerTrue
<1>3. ExchangeTypeOK'
  BY <1>1 DEF IInv, Interrupt, ExchangeTypeOK, Phases, Outcomes
<1>4. CertaintyInv'
  BY <1>1, <1>2 DEF IInv, CertaintyInv, WirePhase, AnswerTrue, OutcomeTrue
<1>5. Gathered' /\ CredentialsComplete' /\ Answers'
  BY <1>1, OnTheWire DEF Interrupt, Kept
<1>6. QED
  BY <1>3, <1>4, <1>5 DEF IInv

\* An answer ends the call with what it says of its execution.
LEMMA AnsweredStep == IInv /\ Answered => IInv'
<1> SUFFICES ASSUME IInv, Answered PROVE IInv'
  OBVIOUS
<1>1. phase = "wire" /\ wire = "served" /\ phase' = "done" /\ wire' = "none"
      /\ outcome' = Classify(reply) /\ executed' = executed
  BY DEF Answered, Fail
<1>2. reply \in Response /\ reply.status # 401
      /\ (Refuses(reply) => executed = 0) /\ (Confirms(reply) => executed = 1)
  BY <1>1 DEF IInv, CertaintyInv, AnswerTrue, Answered
<1>3. outcome' \in {"value", "one-way", "unknown", "rejected"}
      /\ (outcome' \in {"value", "one-way"} => executed = 1) /\ (outcome' = "rejected" => executed = 0)
  BY <1>1, <1>2, ClassifySound
<1>4. ExchangeTypeOK'
  BY <1>1, <1>3 DEF IInv, Answered, ExchangeTypeOK, Phases, Outcomes
<1>5. CertaintyInv'
  BY <1>1, <1>3 DEF CertaintyInv, WirePhase, AnswerTrue, OutcomeTrue
<1>6. Gathered' /\ CredentialsComplete' /\ Answers'
  BY <1>1, OnTheWire DEF Answered, Kept
<1>7. QED
  BY <1>4, <1>5, <1>6 DEF IInv

\* A challenge is answered by another attempt, under the terms of the first, or
\* ends the call: either way the device has refused to execute it.
LEMMA ChallengedStep ==
  ASSUME IInv, NEW next \in Challenges, Challenged(next)
  PROVE  IInv'
<1>1. phase = "wire" /\ wire = "served" /\ wire' = "none" /\ UNCHANGED <<need, signed, executed>>
      /\ reply.status = 401 /\ outcome = "pending"
  BY DEF IInv, CertaintyInv, WirePhase, Challenged
<1>2. executed = 0
  BY <1>1 DEF IInv, CertaintyInv, AnswerTrue, Refuses
<1>3. \/ phase' = "done" /\ outcome' = "rejected" /\ UNCHANGED <<attempt, challenge, carried>>
      \/ /\ phase' = "token" /\ attempt' = attempt + 1 /\ challenge' = next /\ outcome' = outcome
         /\ carried' = carried \cap TlsSchemes /\ "digest" \in need /\ attempt # 2 /\ Acceptable(next)
  BY DEF Challenged, Fail
<1>4. ExchangeTypeOK'
  BY <1>1, <1>3 DEF IInv, ExchangeTypeOK, Phases, Outcomes
<1>5. CertaintyInv' /\ CredentialsComplete'
  BY <1>1, <1>2, <1>3 DEF CertaintyInv, WirePhase, AnswerTrue, OutcomeTrue, CredentialsComplete
<1>6. Gathered'
  BY <1>1, <1>3 DEF IInv, Gathered
<1>7. Answers'
  <2>1. CASE phase' = "done"
    BY <1>1, <1>3, <2>1 DEF IInv, Answers
  <2>2. CASE phase' = "token"
    <3>1. attempt \in 0..1 /\ attempt' = attempt + 1 /\ challenge' = next /\ next # NoChallenge
          /\ "digest" \in need
      BY <1>3, <2>2 DEF IInv, ExchangeTypeOK, Acceptable
    <3>2. Len(signed) = attempt /\ (attempt # 0 => signed[attempt] = challenge)
          /\ (attempt = 0 <=> challenge = NoChallenge)
      BY <1>1 DEF IInv, Answers
    <3>3. attempt = 1 => Continues(signed[1], next)
      BY <1>3, <2>2, <3>2 DEF Acceptable, Continues
    <3>4. attempt' \in 1..2 /\ Len(signed') = attempt' - 1 /\ (attempt' = 2 => Continues(signed'[1], challenge'))
      BY <1>1, <3>1, <3>2, <3>3
    <3>5. QED
      BY <1>1, <2>2, <3>1, <3>4 DEF Answers
  <2>3. QED
    BY <1>3, <2>1, <2>2
<1>8. QED
  BY <1>4, <1>5, <1>6, <1>7 DEF IInv

\* Closing the transport changes nothing a call has done.
LEMMA Unmoved ==
  IInv /\ UNCHANGED <<phase, need, attempt, challenge, carried, signed, wire, device, outcome>> => IInv'
  BY DEF IInv, device, ExchangeTypeOK, CertaintyInv, WirePhase, AnswerTrue, OutcomeTrue,
         Refuses, Confirms, Gathered, CredentialsComplete, Waived, Answers

-----------------------------------------------------------------------------
\* Every step of exchange(), its transport and the device keeps the invariant.
LEMMA StepInvariant == IInv /\ [ExchangeNext]_exchangeVars => IInv'
<1> SUFFICES ASSUME IInv, [ExchangeNext]_exchangeVars PROVE IInv'
  OBVIOUS
<1>1. CASE \E authorized, late \in BOOLEAN : Authorize(authorized, late)
  BY <1>1, AuthorizeStep
<1>2. CASE \E schemes \in SUBSET NativeSchemes, https, cert \in BOOLEAN : Select(schemes, https, cert)
  BY <1>2, SelectStep
<1>3. CASE \E lookup \in Lookups : ClientCertificate(lookup)
  BY <1>3, ClientCertificateStep
<1>4. CASE \E lookup \in Lookups, token, composed \in BOOLEAN : UsernameToken(lookup, token, composed)
  BY <1>4, UsernameTokenStep
<1>5. CASE \E lookup \in Lookups, encodable \in BOOLEAN : Sign(lookup, encodable)
  BY <1>5, SignStep
<1>6. CASE \E late \in BOOLEAN : Send(late)
  BY <1>6, SendStep
<1>7. CASE \E next \in Challenges : Challenged(next)
  BY <1>7, ChallengedStep
<1>8. CASE Connect \/ Serve \/ Interrupt \/ Answered
  BY <1>8, ConnectStep, ServeStep, InterruptStep, AnsweredStep
<1>9. CASE CloseTransport \/ Closed
  BY <1>9, Unmoved DEF CloseTransport, Closed
<1>10. CASE UNCHANGED exchangeVars
  BY <1>10, Unmoved DEF exchangeVars, device
<1>11. QED
  BY <1>1, <1>2, <1>3, <1>4, <1>5, <1>6, <1>7, <1>8, <1>9, <1>10 DEF ExchangeNext

\* The inductive invariant of a native call holds for every realm, nonce and
\* input.
THEOREM ExchangeInvariant == ExchangeSpec => []IInv
  BY InitInvariant, StepInvariant, PTL DEF ExchangeSpec

\* The error of a native call never promises wrongly that the device did not
\* execute it, and no call is executed twice (exchange() of executor.ts,
\* request() of transport.ts).
THEOREM CertaintyTrue == ExchangeSpec => []CertaintyHonest
<1>1. IInv => CertaintyHonest
  BY DEF IInv, ExchangeTypeOK, CertaintyInv, AnswerTrue, OutcomeTrue, CertaintyHonest
<1>2. QED
  BY <1>1, ExchangeInvariant, PTL

\* Nothing is sent without all the credentials its Form asks for.
THEOREM RequestsComplete == ExchangeSpec => []CredentialsComplete
<1>1. IInv => CredentialsComplete
  BY DEF IInv
<1>2. QED
  BY <1>1, ExchangeInvariant, PTL

\* No nonce is answered twice in a row and no challenge after the first changes
\* realm, algorithm or qop.
THEOREM ChallengesNotReplayed == ExchangeSpec => []NoReplay
<1>1. IInv => NoReplay
  <2> SUFFICES ASSUME IInv, NEW i \in DOMAIN signed, NEW j \in DOMAIN signed, i < j
               PROVE  Continues(signed[i], signed[j])
    BY DEF NoReplay, Continues
  <2>1. signed \in Seq(Challenges) /\ Len(signed) <= 2
    BY DEF IInv, ExchangeTypeOK, Answers
  <2>2. DOMAIN signed = 1..Len(signed) /\ Len(signed) \in Nat
    BY <2>1
  <2>3. i = 1 /\ j = 2 /\ Len(signed) = 2
    BY <2>1, <2>2
  <2>4. QED
    BY <2>3 DEF IInv, Answers, Continues
<1>2. QED
  BY <1>1, ExchangeInvariant, PTL

-----------------------------------------------------------------------------
Stages == {"open", "pending", "events", "factories", "transport", "closed"}
Pulled == {"registering", "undoing", "owned", "stopping"}    \* the pull point exists
RuntimeTypeOK ==
  /\ stage \in Stages /\ failed \in BOOLEAN
  /\ service \in {"none", "starting", "ready", "failed"}
  /\ plain \in [Plain -> {"none", "credential", "running", "done", "failed"}]
  /\ event \in [Events -> {"none", "linking", "creating", "ended"} \cup Pulled]
  /\ managed \in [Managed -> {"none", "active", "closing", "closed", "uncertain"}]
  /\ media \in [Media -> {"none", "resolving", "securing", "starting", "open", "closing", "ended"}]
  /\ owned \subseteq Events /\ calls \subseteq Media
  /\ executor \in {"open", "closing", "closed"}

\* shutdown() waits for all that was tracked when close() was called, and
\* nothing is tracked that it does not wait for.
Drained ==
  /\ stage # "open" => Tracked \subseteq waiting /\ \A m \in Managed : managed[m] # "active"
  /\ stage \notin {"open", "pending"} => Tracked = {}
  /\ stage \in {"transport", "closed"} => clients = {} /\ links = {}

\* A subscription on a device has an owner that still knows it, and one that
\* was given up is among the errors of the close.
Owners ==
  /\ \A e \in Events : event[e] \in Pulled => e \in owned
  /\ \A x \in remote :
       \/ /\ x \in Events /\ x \in owned
          /\ event[x] \in Pulled \/ (event[x] = "ended" /\ x \in uncertain)
       \/ x \in Managed /\ managed[x] \in {"active", "closing", "uncertain"}
  /\ stage \notin {"open", "pending"} => \A m \in Managed : managed[m] = "uncertain" => failed
  /\ stage \in {"factories", "transport", "closed"} =>
       /\ \A e \in owned : event[e] = "ended"
       /\ owned \cap uncertain # {} => failed

\* A worker runs for each session from its start to its close, within the
\* capacity, and no session opens once the executor closes.
Live == {m \in Media : media[m] \in {"resolving", "securing", "starting", "open", "closing"}}
Working ==
  /\ workers = {m \in Media : media[m] \in {"starting", "open", "closing"}}
  /\ IsFiniteSet(Live) /\ Cardinality(Live) <= MaxMedia
  /\ executor # "open" => \A m \in Media : media[m] # "open"
  /\ executor = "closed" => Live = {}

\* The inductive invariant.
RInv == RuntimeTypeOK /\ Drained /\ Owners /\ Working

LEMMA TypeStep == RInv /\ [Next]_vars => RuntimeTypeOK'
<1> SUFFICES ASSUME RInv, [Next]_vars PROVE RuntimeTypeOK'
  OBVIOUS
<1> USE RuntimeAssumption
    DEF RInv, RuntimeTypeOK, runtimeVars, plainVars, eventVars, mediaVars, Stages, Pulled,
        Accepting
<1>1. CASE Consume
  BY <1>1 DEF Consume
<1>2. CASE Consumed
  BY <1>2 DEF Consumed
<1>3. CASE Close
  BY <1>3 DEF Close
<1>4. CASE PendingSettled
  BY <1>4 DEF PendingSettled
<1>5. CASE EventsClosed
  BY <1>5 DEF EventsClosed
<1>6. CASE FactoriesClosed
  BY <1>6 DEF FactoriesClosed
<1>7. CASE TransportClosed
  BY <1>7 DEF TransportClosed
<1>8. CASE CloseExecutor
  BY <1>8 DEF CloseExecutor
<1>9. CASE ExecutorClosed
  BY <1>9 DEF ExecutorClosed
<1>10. ASSUME NEW p \in Plain, Interact(p) PROVE RuntimeTypeOK'
  BY <1>10 DEF Interact
<1>11. ASSUME NEW p \in Plain, MakeClient(p) PROVE RuntimeTypeOK'
  BY <1>11 DEF MakeClient
<1>12. ASSUME NEW p \in Plain, Interacted(p) PROVE RuntimeTypeOK'
  BY <1>12 DEF Interacted
<1>13. ASSUME NEW e \in Events, SubscribeEvent(e) PROVE RuntimeTypeOK'
  BY <1>13 DEF SubscribeEvent
<1>14. ASSUME NEW e \in Events, LinkEvent(e) PROVE RuntimeTypeOK'
  BY <1>14 DEF LinkEvent
<1>15. ASSUME NEW e \in Events, CreateEvent(e) PROVE RuntimeTypeOK'
  BY <1>15 DEF CreateEvent
<1>16. ASSUME NEW e \in Events, RegisterEvent(e) PROVE RuntimeTypeOK'
  BY <1>16 DEF RegisterEvent
<1>17. ASSUME NEW e \in Events, UndoEvent(e) PROVE RuntimeTypeOK'
  BY <1>17 DEF UndoEvent
<1>18. ASSUME NEW e \in Events, StopEvent(e) PROVE RuntimeTypeOK'
  BY <1>18 DEF StopEvent
<1>19. ASSUME NEW e \in Events, EventStopped(e) PROVE RuntimeTypeOK'
  BY <1>19 DEF EventStopped
<1>20. ASSUME NEW m \in Managed, Manage(m) PROVE RuntimeTypeOK'
  BY <1>20 DEF Manage
<1>21. ASSUME NEW m \in Managed, StopManaged(m) PROVE RuntimeTypeOK'
  BY <1>21 DEF StopManaged
<1>22. ASSUME NEW m \in Managed, ManagedStopped(m) PROVE RuntimeTypeOK'
  BY <1>22 DEF ManagedStopped
<1>23. ASSUME NEW s \in Media, OpenMedia(s) PROVE RuntimeTypeOK'
  BY <1>23 DEF OpenMedia
<1>24. ASSUME NEW s \in Media, Resolved(s) PROVE RuntimeTypeOK'
  BY <1>24 DEF Resolved
<1>25. ASSUME NEW s \in Media, Secured(s) PROVE RuntimeTypeOK'
  BY <1>25 DEF Secured
<1>26. ASSUME NEW s \in Media, Started(s) PROVE RuntimeTypeOK'
  BY <1>26 DEF Started
<1>27. ASSUME NEW s \in Media, Abort(s) PROVE RuntimeTypeOK'
  BY <1>27 DEF Abort
<1>28. ASSUME NEW s \in Media, Rejected(s) PROVE RuntimeTypeOK'
  BY <1>28 DEF Rejected
<1>29. ASSUME NEW s \in Media, CloseSession(s) PROVE RuntimeTypeOK'
  BY <1>29 DEF CloseSession
<1>30. ASSUME NEW s \in Media, SessionClosed(s) PROVE RuntimeTypeOK'
  BY <1>30 DEF SessionClosed
<1>31. CASE UNCHANGED vars
  BY <1>31 DEF vars
<1>32. QED
  BY ONLY <1>1, <1>2, <1>3, <1>4, <1>5, <1>6, <1>7, <1>8, <1>9, <1>10, <1>11, <1>12, <1>13,
     <1>14, <1>15, <1>16, <1>17, <1>18, <1>19, <1>20, <1>21, <1>22, <1>23, <1>24, <1>25, <1>26,
     <1>27, <1>28, <1>29, <1>30, <1>31, [Next]_vars DEF Next, Host, Work

\* After close() begins, what is tracked can only end.
LEMMA DrainedStep == RInv /\ [Next]_vars => Drained'
<1> SUFFICES ASSUME RInv, [Next]_vars PROVE Drained'
  OBVIOUS
<1> USE RuntimeAssumption
    DEF RInv, RuntimeTypeOK, runtimeVars, plainVars, eventVars, mediaVars, Stages, Drained,
        Tracked, Subscriptions, Accepting, Pulled
<1>1. CASE Consume
  BY <1>1 DEF Consume
<1>2. CASE Consumed
  BY <1>2 DEF Consumed
<1>3. CASE Close
  BY <1>3 DEF Close
<1>4. CASE PendingSettled
  BY <1>4 DEF PendingSettled
<1>5. CASE EventsClosed
  BY <1>5 DEF EventsClosed
<1>6. CASE FactoriesClosed
  BY <1>6 DEF FactoriesClosed
<1>7. CASE TransportClosed
  BY <1>7 DEF TransportClosed
<1>8. CASE CloseExecutor
  BY <1>8 DEF CloseExecutor
<1>9. CASE ExecutorClosed
  BY <1>9 DEF ExecutorClosed
<1>10. ASSUME NEW p \in Plain, Interact(p) PROVE Drained'
  BY <1>10 DEF Interact
<1>11. ASSUME NEW p \in Plain, MakeClient(p) PROVE Drained'
  BY <1>11 DEF MakeClient
<1>12. ASSUME NEW p \in Plain, Interacted(p) PROVE Drained'
  BY <1>12 DEF Interacted
<1>13. ASSUME NEW e \in Events, SubscribeEvent(e) PROVE Drained'
  BY <1>13 DEF SubscribeEvent
<1>14. ASSUME NEW e \in Events, LinkEvent(e) PROVE Drained'
  BY <1>14 DEF LinkEvent
<1>15. ASSUME NEW e \in Events, CreateEvent(e) PROVE Drained'
  BY <1>15 DEF CreateEvent
<1>16. ASSUME NEW e \in Events, RegisterEvent(e) PROVE Drained'
  BY <1>16 DEF RegisterEvent
<1>17. ASSUME NEW e \in Events, UndoEvent(e) PROVE Drained'
  BY <1>17 DEF UndoEvent
<1>18. ASSUME NEW e \in Events, StopEvent(e) PROVE Drained'
  BY <1>18 DEF StopEvent
<1>19. ASSUME NEW e \in Events, EventStopped(e) PROVE Drained'
  BY <1>19 DEF EventStopped
<1>20. ASSUME NEW m \in Managed, Manage(m) PROVE Drained'
  BY <1>20 DEF Manage
<1>21. ASSUME NEW m \in Managed, StopManaged(m) PROVE Drained'
  BY <1>21 DEF StopManaged
<1>22. ASSUME NEW m \in Managed, ManagedStopped(m) PROVE Drained'
  BY <1>22 DEF ManagedStopped
<1>23. ASSUME NEW s \in Media, OpenMedia(s) PROVE Drained'
  BY <1>23 DEF OpenMedia
<1>24. ASSUME NEW s \in Media, Resolved(s) PROVE Drained'
  BY <1>24 DEF Resolved
<1>25. ASSUME NEW s \in Media, Secured(s) PROVE Drained'
  BY <1>25 DEF Secured
<1>26. ASSUME NEW s \in Media, Started(s) PROVE Drained'
  BY <1>26 DEF Started
<1>27. ASSUME NEW s \in Media, Abort(s) PROVE Drained'
  BY <1>27 DEF Abort
<1>28. ASSUME NEW s \in Media, Rejected(s) PROVE Drained'
  BY <1>28 DEF Rejected
<1>29. ASSUME NEW s \in Media, CloseSession(s) PROVE Drained'
  BY <1>29 DEF CloseSession
<1>30. ASSUME NEW s \in Media, SessionClosed(s) PROVE Drained'
  BY <1>30 DEF SessionClosed
<1>31. CASE UNCHANGED vars
  BY <1>31 DEF vars
<1>32. QED
  BY ONLY <1>1, <1>2, <1>3, <1>4, <1>5, <1>6, <1>7, <1>8, <1>9, <1>10, <1>11, <1>12, <1>13,
     <1>14, <1>15, <1>16, <1>17, <1>18, <1>19, <1>20, <1>21, <1>22, <1>23, <1>24, <1>25, <1>26,
     <1>27, <1>28, <1>29, <1>30, <1>31, [Next]_vars DEF Next, Host, Work

\* No subscription loses its owner.
LEMMA OwnersStep == RInv /\ [Next]_vars => Owners'
<1> SUFFICES ASSUME RInv, [Next]_vars PROVE Owners'
  OBVIOUS
<1> USE RuntimeAssumption
    DEF RInv, RuntimeTypeOK, runtimeVars, plainVars, eventVars, mediaVars, Stages, Drained,
        Owners, Tracked, Subscriptions, Accepting, Pulled
<1>1. CASE Consume
  BY <1>1 DEF Consume
<1>2. CASE Consumed
  BY <1>2 DEF Consumed
<1>3. CASE Close
  BY <1>3 DEF Close
<1>4. CASE PendingSettled
  BY <1>4 DEF PendingSettled
<1>5. CASE EventsClosed
  BY <1>5 DEF EventsClosed
<1>6. CASE FactoriesClosed
  BY <1>6 DEF FactoriesClosed
<1>7. CASE TransportClosed
  BY <1>7 DEF TransportClosed
<1>8. CASE CloseExecutor
  BY <1>8 DEF CloseExecutor
<1>9. CASE ExecutorClosed
  BY <1>9 DEF ExecutorClosed
<1>10. ASSUME NEW p \in Plain, Interact(p) PROVE Owners'
  BY <1>10 DEF Interact
<1>11. ASSUME NEW p \in Plain, MakeClient(p) PROVE Owners'
  BY <1>11 DEF MakeClient
<1>12. ASSUME NEW p \in Plain, Interacted(p) PROVE Owners'
  BY <1>12 DEF Interacted
<1>13. ASSUME NEW e \in Events, SubscribeEvent(e) PROVE Owners'
  BY <1>13 DEF SubscribeEvent
<1>14. ASSUME NEW e \in Events, LinkEvent(e) PROVE Owners'
  BY <1>14 DEF LinkEvent
<1>15. ASSUME NEW e \in Events, CreateEvent(e) PROVE Owners'
  BY <1>15 DEF CreateEvent
<1>16. ASSUME NEW e \in Events, RegisterEvent(e) PROVE Owners'
  BY <1>16 DEF RegisterEvent
<1>17. ASSUME NEW e \in Events, UndoEvent(e) PROVE Owners'
  BY <1>17 DEF UndoEvent
<1>18. ASSUME NEW e \in Events, StopEvent(e) PROVE Owners'
  BY <1>18 DEF StopEvent
<1>19. ASSUME NEW e \in Events, EventStopped(e) PROVE Owners'
  BY <1>19 DEF EventStopped
<1>20. ASSUME NEW m \in Managed, Manage(m) PROVE Owners'
  BY <1>20 DEF Manage
<1>21. ASSUME NEW m \in Managed, StopManaged(m) PROVE Owners'
  BY <1>21 DEF StopManaged
<1>22. ASSUME NEW m \in Managed, ManagedStopped(m) PROVE Owners'
  BY <1>22 DEF ManagedStopped
<1>23. ASSUME NEW s \in Media, OpenMedia(s) PROVE Owners'
  BY <1>23 DEF OpenMedia
<1>24. ASSUME NEW s \in Media, Resolved(s) PROVE Owners'
  BY <1>24 DEF Resolved
<1>25. ASSUME NEW s \in Media, Secured(s) PROVE Owners'
  BY <1>25 DEF Secured
<1>26. ASSUME NEW s \in Media, Started(s) PROVE Owners'
  BY <1>26 DEF Started
<1>27. ASSUME NEW s \in Media, Abort(s) PROVE Owners'
  BY <1>27 DEF Abort
<1>28. ASSUME NEW s \in Media, Rejected(s) PROVE Owners'
  BY <1>28 DEF Rejected
<1>29. ASSUME NEW s \in Media, CloseSession(s) PROVE Owners'
  BY <1>29 DEF CloseSession
<1>30. ASSUME NEW s \in Media, SessionClosed(s) PROVE Owners'
  BY <1>30 DEF SessionClosed
<1>31. CASE UNCHANGED vars
  BY <1>31 DEF vars
<1>32. QED
  BY ONLY <1>1, <1>2, <1>3, <1>4, <1>5, <1>6, <1>7, <1>8, <1>9, <1>10, <1>11, <1>12, <1>13,
     <1>14, <1>15, <1>16, <1>17, <1>18, <1>19, <1>20, <1>21, <1>22, <1>23, <1>24, <1>25, <1>26,
     <1>27, <1>28, <1>29, <1>30, <1>31, [Next]_vars DEF Next, Host, Work


-----------------------------------------------------------------------------
\* The sessions that are live are those openMedia() counts.
LEMMA LiveCounted ==
  ASSUME IsFiniteSet(Live)
  PROVE  Cardinality(Pending) + Cardinality(Sessions) = Cardinality(Live)
<1>1. Live = Pending \cup Sessions /\ Pending \cap Sessions = {}
  BY DEF Live, Pending, Sessions
<1>2. IsFiniteSet(Pending) /\ IsFiniteSet(Sessions)
  BY <1>1, FS_Subset
<1>3. Cardinality(Pending \cup Sessions)
        = Cardinality(Pending) + Cardinality(Sessions) - Cardinality(Pending \cap Sessions)
  BY <1>2, FS_Union
<1>4. Cardinality(Pending \cap Sessions) = 0
  BY <1>1, FS_EmptySet
<1>5. Cardinality(Pending) \in Nat /\ Cardinality(Sessions) \in Nat
  BY <1>2, FS_CardinalityType
<1>6. QED
  BY <1>1, <1>3, <1>4, <1>5

\* The capacity holds when no session begins.
LEMMA LiveShrinks ==
  ASSUME Working, Live' \subseteq Live
  PROVE  IsFiniteSet(Live') /\ Cardinality(Live') <= MaxMedia
<1>1. IsFiniteSet(Live) /\ Cardinality(Live) <= MaxMedia
  BY DEF Working
<1>2. IsFiniteSet(Live') /\ Cardinality(Live') <= Cardinality(Live)
  BY <1>1, FS_Subset
<1>3. Cardinality(Live) \in Nat /\ Cardinality(Live') \in Nat
  BY <1>1, <1>2, FS_CardinalityType
<1>4. QED
  BY <1>1, <1>2, <1>3, RuntimeAssumption DEF RuntimeAssumption

LEMMA WorkingStep == RInv /\ [Next]_vars => Working'
<1> SUFFICES ASSUME RInv, [Next]_vars PROVE Working'
  OBVIOUS
<1>1. RuntimeTypeOK /\ Working
  BY DEF RInv
<1> USE DEF Working, Live, Pending, Wanted
<1>2. CASE UNCHANGED <<media, workers, executor>>
  BY <1>1, <1>2
<1>3. ASSUME NEW s \in Media, OpenMedia(s) PROVE Working'
  <2>1. /\ IsFiniteSet(Live) /\ Cardinality(Live) < MaxMedia /\ executor = "open"
        /\ s \notin Live /\ Live' \subseteq Live \cup {s}
    BY <1>1, <1>3, LiveCounted DEF OpenMedia, RuntimeTypeOK
  <2>2. /\ IsFiniteSet(Live \cup {s}) /\ Cardinality(Live \cup {s}) = Cardinality(Live) + 1
        /\ Cardinality(Live) \in Nat
    BY <2>1, FS_AddElement, FS_CardinalityType
  <2>3. IsFiniteSet(Live') /\ Cardinality(Live') <= Cardinality(Live \cup {s})
    BY <2>1, <2>2, FS_Subset
  <2>4. Cardinality(Live') <= MaxMedia
    BY <2>1, <2>2, <2>3, FS_CardinalityType, RuntimeAssumption DEF RuntimeAssumption
  <2>5. /\ workers' = {m \in Media : media'[m] \in {"starting", "open", "closing"}}
        /\ executor' = executor
    BY <1>1, <1>3 DEF OpenMedia, RuntimeTypeOK, mediaVars
  <2>6. QED
    BY <2>1, <2>3, <2>4, <2>5
<1>4. ASSUME Live' \subseteq Live,
             workers' = {m \in Media : media'[m] \in {"starting", "open", "closing"}},
             executor' # "open" => \A m \in Media : media'[m] # "open",
             executor' = "closed" => Live' = {}
      PROVE  Working'
  BY <1>1, <1>4, LiveShrinks
<1>5. CASE CloseExecutor
  BY <1>1, <1>4, <1>5 DEF CloseExecutor, RuntimeTypeOK
<1>6. CASE ExecutorClosed
  BY <1>1, <1>4, <1>6 DEF ExecutorClosed, RuntimeTypeOK
<1>7. ASSUME NEW s \in Media, Resolved(s) PROVE Working'
  BY <1>1, <1>4, <1>7 DEF Resolved, RuntimeTypeOK
<1>8. ASSUME NEW s \in Media, Secured(s) PROVE Working'
  BY <1>1, <1>4, <1>8 DEF Secured, RuntimeTypeOK
<1>9. ASSUME NEW s \in Media, Started(s) PROVE Working'
  BY <1>1, <1>4, <1>9 DEF Started, RuntimeTypeOK
<1>10. ASSUME NEW s \in Media, Abort(s) PROVE Working'
  BY <1>1, <1>4, <1>10 DEF Abort, RuntimeTypeOK
<1>11. ASSUME NEW s \in Media, Rejected(s) PROVE Working'
  BY <1>1, <1>4, <1>11 DEF Rejected, RuntimeTypeOK
<1>12. ASSUME NEW s \in Media, CloseSession(s) PROVE Working'
  BY <1>1, <1>4, <1>12 DEF CloseSession, RuntimeTypeOK
<1>13. ASSUME NEW s \in Media, SessionClosed(s) PROVE Working'
  BY <1>1, <1>4, <1>13 DEF SessionClosed, RuntimeTypeOK
<1>14. CASE \/ Consume \/ Consumed \/ Close \/ PendingSettled \/ EventsClosed \/ FactoriesClosed
            \/ TransportClosed
            \/ \E p \in Plain : Interact(p) \/ MakeClient(p) \/ Interacted(p)
            \/ \E e \in Events : \/ SubscribeEvent(e) \/ LinkEvent(e) \/ CreateEvent(e)
                                 \/ RegisterEvent(e) \/ UndoEvent(e) \/ StopEvent(e)
                                 \/ EventStopped(e)
            \/ \E m \in Managed : Manage(m) \/ StopManaged(m) \/ ManagedStopped(m)
            \/ UNCHANGED vars
  BY <1>2, <1>14
     DEF Consume, Consumed, Close, PendingSettled, EventsClosed, FactoriesClosed, TransportClosed,
         Interact, MakeClient, Interacted, SubscribeEvent, LinkEvent, CreateEvent, RegisterEvent,
         UndoEvent, StopEvent, EventStopped, Manage, StopManaged, ManagedStopped, mediaVars, vars
<1>15. QED
  BY <1>3, <1>5, <1>6, <1>7, <1>8, <1>9, <1>10, <1>11, <1>12, <1>13, <1>14 DEF Next, Host, Work

-----------------------------------------------------------------------------
\* The inductive invariant: types, the shutdown's bookkeeping, the owners of the
\* subscriptions and the sessions' workers.
THEOREM RuntimeInvariant == Spec => []RInv
<1>1. Init => RInv
  <2> SUFFICES ASSUME Init PROVE RInv
    OBVIOUS
  <2>1. RuntimeTypeOK
    BY DEF Init, RuntimeTypeOK, Stages
  <2>2. Drained /\ Owners
    BY DEF Init, Drained, Owners, Stages, Pulled
  <2>3. Live = {} /\ workers = {} /\ executor = "open"
        /\ {m \in Media : media[m] \in {"starting", "open", "closing"}} = {}
        /\ \A m \in Media : media[m] # "open"
    BY DEF Init, Live
  <2>4. Working
    BY <2>3, FS_EmptySet, RuntimeAssumption DEF Working, RuntimeAssumption
  <2>5. QED
    BY <2>1, <2>2, <2>4 DEF RInv
<1>2. RInv /\ [Next]_vars => RInv'
  BY TypeStep, DrainedStep, OwnersStep, WorkingStep DEF RInv
<1>3. QED
  BY <1>1, <1>2, PTL DEF Spec

\* Runtime.close() and MediaExecutor.close() have ended everything they started
\* when they settle, and a subscription that remains is among the errors.
THEOREM OwnershipAlwaysReleased == Spec => []OwnershipReleased
<1>1. RInv => OwnershipReleased
  <2> SUFFICES ASSUME RInv PROVE OwnershipReleased
    OBVIOUS
  <2>1. ClosedOwnsNothing
    BY DEF RInv, RuntimeTypeOK, Drained, Owners, Tracked, Pulled, ClosedOwnsNothing
  <2>2. MediaOwned
    <3>1. workers \subseteq Live /\ Pending \subseteq Live
          /\ IsFiniteSet(Live) /\ Cardinality(Live) <= MaxMedia
      BY DEF RInv, Working, Live, Pending
    <3>2. Cardinality(workers) <= Cardinality(Live) /\ IsFiniteSet(workers)
      BY <3>1, FS_Subset
    <3>3. Cardinality(workers) <= MaxMedia
      BY <3>1, <3>2, FS_CardinalityType, RuntimeAssumption DEF RuntimeAssumption
    <3>4. QED
      BY <3>1, <3>3 DEF RInv, Working, MediaOwned
  <2>3. QED
    BY <2>1, <2>2 DEF OwnershipReleased
<1>2. QED
  BY RuntimeInvariant, <1>1, PTL
=============================================================================
