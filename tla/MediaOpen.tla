------------------------------ MODULE MediaOpen ------------------------------
(***************************************************************************)
(* How a media session is opened: the request is validated and its target  *)
(* authorised (media/policy.ts), encoded on two private pipes (protocol.ts)*)
(* and decoded, validated again and bound by the worker (options.c), which *)
(* negotiates the tracks with the camera (worker.c) and reports READY,     *)
(* which the session checks against the request (protocol.ts).             *)
(*                                                                         *)
(* An origin stands for scheme, host and port, a URI for the origin Node   *)
(* reads in it and what it does to the worker's own reading; a list of the *)
(* wire format is a set, a limit one of the classes its bounds tell apart. *)
(***************************************************************************)
EXTENDS Naturals, FiniteSets, FiniteSetsExt

CONSTANTS Requests,   \* the kinds of request: what is asked for, see RequestOf
          Streams     \* bound: media lines of the camera's description

ASSUME OpenAssumption ==
  /\ Requests \subseteq {"video", "av", "meta", "talk", "none"}
  /\ Streams \in Nat

VARIABLES
  request, trust,   \* OpenMediaRequest, MediaTrustPolicy
  phase,            \* where the opening stands
  secrets, open,    \* SECURITY and OPEN on their pipes, or Nothing
  parsed,           \* what the worker has read: subset of {"secrets", "open"}
  sdp,              \* the media lines of the camera's answer, by stream
  tracks,           \* the worker's selected tracks: id -> stream
  acked, linked,    \* SETUPs answered; pads linked: track id -> stream
  asked,            \* the origins that RTSP requests were sent to
  failure           \* the worker's or the session's failure

openVars == <<request, trust, phase, secrets, open, parsed, sdp, tracks, acked, linked, asked, failure>>

Nothing == [none |-> TRUE]
Origins == {"rtsp://a", "rtsp://b", "rtsps://a"}
Secure(origin) == origin = "rtsps://a"

\* Node reads a URI with the WHATWG URL class, the worker with GLib's g_uri.
\* They make the same of most; an IPv6 address that is not spelled as WHATWG
\* writes it keeps its spelling in the worker, and a % without two digits in
\* the path makes g_uri refuse the whole URI.  Origins listed in a policy are
\* as WHATWG writes them, which the worker leaves as they are.
Uris == [origin : Origins, form : {"plain", "respelled", "malformed"}]
\* nativeMediaUrl() and media_origin().
NodeOrigin(uri) == uri.origin
WorkerOrigin(uri) == IF uri.form = "plain" THEN uri.origin ELSE uri.form
Transports == {"tcp", "udp", "https", "tls"}

\* The tracks a kind of request names, with their codecs.
RequestOf(kind) ==
  [video |-> IF kind \in {"video", "av"} THEN {"JPEG"} ELSE {},
   audio |-> IF kind \in {"av", "talk"} THEN {"PCMU"} ELSE {},
   metadata |-> kind = "meta", backchannel |-> kind = "talk"]

\* Nothing of the opening has happened yet.
NotStarted ==
  /\ phase = "requested"
  /\ secrets = Nothing /\ open = Nothing /\ parsed = {}
  /\ sdp = << >> /\ tracks = << >> /\ acked = {} /\ linked = << >>
  /\ asked = {} /\ failure = "none"

OpenInit ==
  /\ request \in [tracks : {RequestOf(k) : k \in Requests}, transport : Transports, uri : Uris,
                  replay : {"none", "range", "reversed"}, address : {"unicast", "any", "zero-net"},
                  limits : {"ok", "zero", "over"}]
  /\ trust \in [origins : {{"rtsp://a"}, {"rtsp://a", "rtsp://b"}, {"rtsps://a"}},
                authentication : {"none", "digest"}, tunnel : {"none", "digest"}]
  /\ Cardinality({f \in {"uri", "form", "replay", "address", "limits"} :
       CASE f = "uri" -> NodeOrigin(request.uri) \notin trust.origins
         [] f = "form" -> request.uri.form # "plain"
         [] f = "replay" -> request.replay = "reversed"
         [] f = "address" -> request.address # "unicast"
         [] OTHER -> request.limits # "ok"}) <= 1
  /\ NotStarted

-----------------------------------------------------------------------------
\* The Node side: media/policy.ts and protocol.ts.

Ids(t) == {i \in 1 .. 4 : CASE i = 1 -> t.video # {} [] i = 2 -> t.audio # {}
                            [] i = 3 -> t.metadata [] OTHER -> t.backchannel}
Codecs(t) == t.video \cup t.audio \cup (IF t.backchannel THEN {"PCMU"} ELSE {})

\* validateMediaRequest().
ValidRequest(r) ==
  /\ r.address = "unicast" /\ Ids(r.tracks) # {} /\ r.limits = "ok"
  /\ r.replay # "none" => r.replay = "range" /\ r.transport # "udp" /\ ~r.tracks.backchannel

\* authorizeMediaTarget().
Authorized(r) ==
  /\ NodeOrigin(r.uri) \in trust.origins
  /\ (r.transport = "tls") = Secure(NodeOrigin(r.uri))
  /\ r.transport # "https" => trust.tunnel = "none"

\* encodeSecurity() and encodeOpen(), for the scope the target was given.
Security(r) ==
  [origin |-> NodeOrigin(r.uri), handle |-> trust.authentication = "digest",
   username |-> trust.authentication = "digest",
   outer |-> IF r.transport = "https" THEN trust.tunnel = "digest" ELSE FALSE]
Open(r) ==
  [recorded |-> r.replay # "none", transport |-> r.transport, tracks |-> Ids(r.tracks),
   noAuth |-> trust.authentication = "none", handle |-> trust.authentication = "digest",
   range |-> r.replay, address |-> r.address, limits |-> r.limits,
   codecs |-> IF Codecs(r.tracks) = {} THEN {"JPEG"} ELSE Codecs(r.tracks),
   uri |-> r.uri, origins |-> trust.origins]

\* openMedia(): the request is refused, or both messages are written; OPEN
\* only once SECURITY is in its pipe.
Refuse ==
  /\ phase = "requested" /\ ~(ValidRequest(request) /\ Authorized(request))
  /\ phase' = "refused"
  /\ UNCHANGED <<request, trust, secrets, open, parsed, sdp, tracks, acked, linked, asked, failure>>

SendSecurity ==
  /\ phase = "requested" /\ ValidRequest(request) /\ Authorized(request)
  /\ phase' = "secured" /\ secrets' = Security(request)
  /\ UNCHANGED <<request, trust, open, parsed, sdp, tracks, acked, linked, asked, failure>>

SendOpen ==
  /\ phase = "secured"
  /\ phase' = "opening" /\ open' = Open(request)
  /\ UNCHANGED <<request, trust, secrets, parsed, sdp, tracks, acked, linked, asked, failure>>

-----------------------------------------------------------------------------
\* The worker: options.c and worker.c.

Failing(code) == failure' = IF failure = "none" THEN code ELSE failure

\* media_target_allowed() of the origin that media_origin() makes, with the
\* credentials the worker knows so far.
\* Variant: credentials do not narrow the targets.
AllowedAnywhere(origin, known) ==
  Secure(origin) = (open.transport = "tls") /\ origin \in open.origins
Allowed(origin, known) ==
  /\ Secure(origin) = (open.transport = "tls") /\ origin \in open.origins
  /\ known /\ secrets.handle => origin = secrets.origin

\* media_secrets_parse().
SecretsParsed == secrets.handle = secrets.username

\* media_options_parse().
OptionsParsed ==
  /\ open.tracks # {} /\ open.codecs # {} /\ open.limits = "ok"
  /\ open.handle = ~open.noAuth
  /\ IF open.recorded THEN open.range = "range" /\ open.transport # "udp" /\ 4 \notin open.tracks
     ELSE open.range = "none"
  /\ open.address \notin {"any", "multicast"}
  /\ Allowed(WorkerOrigin(open.uri), "secrets" \in parsed)

\* media_options_bind().
Bound == WorkerOrigin(open.uri) = secrets.origin /\ open.handle = secrets.handle

\* The pipes are read independently, SECURITY first in an iteration.
ReadSecrets ==
  /\ secrets # Nothing /\ "secrets" \notin parsed /\ failure = "none"
  /\ parsed' = parsed \cup {"secrets"}
  /\ IF SecretsParsed THEN UNCHANGED failure ELSE Failing("InvalidSecurityPipe")
  /\ UNCHANGED <<request, trust, phase, secrets, open, sdp, tracks, acked, linked, asked>>

ReadOpen ==
  /\ open # Nothing /\ "open" \notin parsed /\ failure = "none"
  /\ parsed' = parsed \cup {"open"}
  /\ IF OptionsParsed THEN UNCHANGED failure ELSE Failing("InvalidOrUnauthorizedOpen")
  /\ UNCHANGED <<request, trust, phase, secrets, open, sdp, tracks, acked, linked, asked>>

\* open_native() and the DESCRIBE, which the camera answers with its media.
Media(kind, encoding, control, send, payload) ==
  [kind |-> kind, encoding |-> encoding, control |-> control, send |-> send, payload |-> payload]
Offers == {Media("video", c, o, FALSE, 96) : c \in {"JPEG", "H264", "PCMU"}, o \in {"relative", "rtsp://b"}}
          \cup {Media("audio", "PCMU", "relative", s, p) : s \in BOOLEAN, p \in {0, 96}}
          \cup {Media("application", e, "relative", FALSE, 107) : e \in {"XML", "OTHER"}}

Describe ==
  /\ parsed = {"secrets", "open"} /\ phase = "opening" /\ failure = "none"
  /\ IF ~Bound \/ ~Allowed(WorkerOrigin(open.uri), TRUE)
     THEN Failing("InvalidScopeOrNativeOpen") /\ UNCHANGED <<sdp, asked, phase>>
     ELSE /\ phase' = "described" /\ asked' = asked \cup {WorkerOrigin(open.uri)}
          /\ \E n \in 0 .. Streams : sdp' \in [1 .. n -> Offers]
          /\ UNCHANGED failure
  /\ UNCHANGED <<request, trust, secrets, open, parsed, tracks, acked, linked>>

\* on_sdp(): an absolute control must be an allowed target.
OnSdp ==
  /\ phase = "described" /\ failure = "none"
  /\ phase' = "selecting"
  /\ IF \/ sdp = << >>
        \/ \E i \in DOMAIN sdp : sdp[i].control # "relative" /\ ~Allowed(sdp[i].control, TRUE)
     THEN Failing("ForbiddenOrUnsupportedSdpControl") ELSE UNCHANGED failure
  /\ UNCHANGED <<request, trust, secrets, open, parsed, sdp, tracks, acked, linked, asked>>

TrackOf(m) == IF m.send THEN 4
              ELSE CASE m.kind = "video" -> 1 [] m.kind = "audio" -> 2 [] OTHER -> 3

\* select_stream() of the next stream, then its SETUP: refused by the camera,
\* or answered.
Candidates == {i \in DOMAIN sdp : TrackOf(sdp[i]) \in open.tracks}
Chosen == {tracks[id] : id \in DOMAIN tracks}
Select ==
  LET rest == Candidates \ Chosen
      i == Min(rest)
      id == TrackOf(sdp[i])
      target == IF sdp[i].control = "relative" THEN WorkerOrigin(open.uri) ELSE sdp[i].control
  IN
  /\ phase = "selecting" /\ failure = "none" /\ rest # {}
  /\ IF id \in DOMAIN tracks THEN Failing("DuplicateRequestedTrack") /\ UNCHANGED <<tracks, acked, asked>>
     ELSE IF id = 3 /\ sdp[i].encoding # "XML"
     THEN Failing("UnsupportedMetadataEncoding") /\ UNCHANGED <<tracks, acked, asked>>
     ELSE IF id # 3 /\ sdp[i].encoding \notin open.codecs
     THEN Failing("NoDecoder") /\ UNCHANGED <<tracks, acked, asked>>
     ELSE /\ tracks' = [j \in DOMAIN tracks \cup {id} |-> IF j = id THEN i ELSE tracks[j]]
          /\ asked' = asked \cup {target}
          /\ \E ok \in BOOLEAN : acked' = IF ok THEN acked \cup {id} ELSE acked
          /\ UNCHANGED failure
  /\ UNCHANGED <<request, trust, phase, secrets, open, parsed, sdp, linked>>

\* The 2xx to PLAY (after_response), and READY unless a requested track is
\* missing.
PlayAnswered ==
  /\ phase = "selecting" /\ failure = "none" /\ Candidates \subseteq Chosen
  /\ asked' = asked \cup {WorkerOrigin(open.uri)}
  /\ IF acked # DOMAIN tracks \/ acked = {} \/ ~(open.tracks \subseteq DOMAIN tracks)
     THEN Failing("MissingRequiredTrack") /\ UNCHANGED phase
     ELSE phase' = "ready" /\ UNCHANGED failure
  /\ UNCHANGED <<request, trust, secrets, open, parsed, sdp, tracks, acked, linked>>

\* pad_added(): a pad of the camera's stream is matched by its payload type.
PadAdded ==
  /\ phase \in {"selecting", "ready", "open"} /\ failure = "none"
  /\ \E i \in {tracks[id] : id \in DOMAIN tracks \ {4}} :
       LET same == {id \in DOMAIN tracks \ {4} : sdp[tracks[id]].payload = sdp[i].payload}
       IN /\ i \notin {linked[id] : id \in DOMAIN linked}
          /\ IF Min(same) \in DOMAIN linked
             THEN Failing("DuplicateDynamicTrack") /\ UNCHANGED linked
             ELSE /\ linked' = [id \in DOMAIN linked \cup {Min(same)} |->
                                  IF id \in DOMAIN linked THEN linked[id] ELSE i]
                  /\ UNCHANGED failure
  /\ UNCHANGED <<request, trust, phase, secrets, open, parsed, sdp, tracks, acked, asked>>

-----------------------------------------------------------------------------
\* The session takes READY: parseReady().
Requested(id) == CASE id = 1 -> request.tracks.video [] id = 2 -> request.tracks.audio
                   [] id = 3 -> {"XML"} [] OTHER -> {"PCMU"}
Ready == /\ DOMAIN tracks = Ids(request.tracks)
         /\ \A id \in DOMAIN tracks : sdp[tracks[id]].encoding \in Requested(id)

OnReady ==
  /\ phase = "ready" /\ failure = "none"
  /\ IF Ready THEN phase' = "open" /\ UNCHANGED failure
     ELSE Failing("UnsupportedCapability") /\ UNCHANGED phase
  /\ UNCHANGED <<request, trust, secrets, open, parsed, sdp, tracks, acked, linked, asked>>

OpenNext == \/ Refuse \/ SendSecurity \/ SendOpen \/ ReadSecrets \/ ReadOpen \/ Describe
        \/ OnSdp \/ Select \/ PlayAnswered \/ PadAdded \/ OnReady

-----------------------------------------------------------------------------
\* Whether the two sides read the same origin in the request's URI.
OriginsAgree == WorkerOrigin(request.uri) = NodeOrigin(request.uri)

\* The two validators disagree about nothing but the reading of a URI: of a
\* request that the Node policy lets through, the worker's own parsing,
\* authorisation and binding refuse only one in whose URI g_uri reads another
\* origin than the WHATWG URL class, or none, in whichever order the worker
\* reads its two pipes; and they let none of those reach a camera (policy.ts,
\* options.c).
ValidatorsAgree ==
  /\ failure \in {"InvalidSecurityPipe", "InvalidOrUnauthorizedOpen", "InvalidScopeOrNativeOpen"}
       => ~OriginsAgree
  /\ asked # {} => OriginsAgree

\* Every RTSP request goes to an origin the trust policy lists, over the
\* scheme of the transport; when the session has credentials, to the one
\* origin they are scoped to, whatever the camera's description names
\* (options.c, worker.c).
TargetsScoped ==
  \A o \in asked : /\ o \in trust.origins /\ (Secure(o) <=> request.transport = "tls")
                   /\ trust.authentication = "digest" => o = NodeOrigin(request.uri)

\* An open session has exactly the tracks that were requested, each with a
\* requested codec and set up by the camera; once every receiving track has
\* its pad, each is fed by its own stream (protocol.ts, worker.c).
TracksAsRequested ==
  phase = "open" =>
    /\ DOMAIN tracks = Ids(request.tracks) /\ acked = DOMAIN tracks
    /\ \A id \in DOMAIN tracks : sdp[tracks[id]].encoding \in Requested(id)
    /\ DOMAIN linked = DOMAIN tracks \ {4} /\ failure = "none"
         => \A id \in DOMAIN linked : linked[id] = tracks[id]

\* Both ends agree on what is opened: the validators on the request unless they
\* read its URI differently, the targets on the scope of the trust policy, and
\* the session on the tracks.
OpenAgreed == ValidatorsAgree /\ TargetsScoped /\ TracksAsRequested
=============================================================================
