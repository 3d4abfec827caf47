----------------------------- MODULE SoapMessage -----------------------------
(***************************************************************************)
(* What makes a SOAP request acceptable to send and a SOAP response        *)
(* acceptable to believe: soap.ts, request.ts and username-token.ts, on    *)
(* abstract messages.  A header is its namespace and its name, a response  *)
(* its status, its content type and the shape of its body.                 *)
(***************************************************************************)
EXTENDS Naturals, FiniteSets, Sequences, SequencesExt

Addressing == {"2004", "2005"}
Reserved == Addressing \cup {"soap", "wsse"}

\* readEndpointReference(): one non-empty qualified Address decides the
\* WS-Addressing version; ReferenceProperties exist only in the 2004 version,
\* nothing of the other version may appear, and the containers hold elements.
ReadEndpointReference(epr) ==
  /\ Cardinality(epr.addresses) = 1 /\ ~epr.blank
  /\ epr.parameters \cup epr.properties \subseteq epr.addresses
  /\ "2005" \notin epr.properties
  /\ ~epr.text

\* assertNativeInvokeOptions(), assertHeader(), referenceHeader() and
\* soapEnvelope(): reference headers and custom headers share one SOAP header
\* block, in which a custom header may neither be a reserved one nor repeat
\* another.
SoapEnvelope(request) ==
  /\ request.known /\ request.namespace \in Addressing
  /\ request.namespace = "2005" => request.properties = {}
  /\ \A h \in request.properties \cup request.parameters \cup request.custom : h.ns \notin Reserved
  /\ request.custom \cap (request.properties \cup request.parameters) = {}
  /\ request.keyed

\* validateUsernameTokenPolicy(), validatedNonce() and createUsernameToken():
\* a clock that tells the time, an offset within its bound, and a nonce of 16
\* to 64 octets that is not one of the recent ones (nonce() of the executor).
MaxOffset == 2
UsernameTokenSound(token) ==
  /\ token.instant /\ token.offset \in -MaxOffset..MaxOffset
  /\ token.octets \in 16..64 /\ ~token.repeated

\* createDigestAuthorization(): without charset=UTF-8 only Latin-1 can be hashed.
DigestEncodable(authorization) == authorization.utf8 \/ authorization.latin

-----------------------------------------------------------------------------
\* parseFault() and soapResponse(): an envelope of one header at most and one
\* body with one element, no header that must be understood and is not, a
\* complete fault or the expected response Action.  A declared detail of a fault
\* is decoded and its Action compared.
Bodies == {"empty", "unreadable", "header", "children", "action", "undecodable", "message",
           "sender", "receiver", "incomplete"}
SoapResponse(response) ==
  IF response.body \in {"empty", "unreadable", "header", "children", "incomplete"} THEN "unknown"
  ELSE IF response.body = "sender" THEN "rejected"
  ELSE IF response.body = "receiver" THEN "unknown"
  ELSE IF response.status \notin 200..299 \/ response.body = "action" THEN "unknown"
  ELSE "payload"
=============================================================================
