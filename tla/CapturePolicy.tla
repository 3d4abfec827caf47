---------------------------- MODULE CapturePolicy ----------------------------
(****************************************************************************)
(* What the camera adapters check before they touch a camera                *)
(* (adapters/src/backend.cjs, main.cjs): the selection of a target, the     *)
(* evidence of its modes, the limits, and the permissions of describe() and *)
(* open().  Names, digests and selectors are symbols; what is kept of them  *)
(* is what the checks tell apart.                                           *)
(****************************************************************************)
EXTENDS Integers

BackendScopes ==
  [b \in {"windows-mf", "mf-memory", "linux-v4l2", "aravis-gige", "aravis-usb3", "aravis-fake"} |->
     CASE b = "windows-mf"  -> "windows-instance-and-container"
       [] b = "mf-memory"   -> "synthetic-memory"
       [] b = "linux-v4l2"  -> "linux-device-node"
       [] b = "aravis-gige" -> "aravis-gige-endpoint"
       [] b = "aravis-usb3" -> "aravis-usb-identity"
       [] b = "aravis-fake" -> "synthetic-aravis"]

Aravis    == {"aravis-gige", "aravis-usb3", "aravis-fake"}
Synthetic == {"mf-memory", "aravis-fake"}

\* normalizeLimits(): no limit above its default, and none of zero.
NormalizedLimits(limits, maxima) == \A k \in DOMAIN limits : limits[k] \in 1..maxima[k]

\* validateTarget(): the identity scope of the backend and an exact selector;
\* a USB3 camera needs two explicit permissions inside its selector.
ValidTarget(t) ==
  /\ t.backend \in DOMAIN BackendScopes
  /\ t.scope = BackendScopes[t.backend]
  /\ t.selector = "exact"
  /\ t.backend = "aravis-usb3" => t.permits

\* validateEvidence(): it is about this very device, of the kind that its
\* backend can produce, and its modes are distinct and well formed.
EvidenceKind(backend) ==
  IF backend \in Synthetic THEN "synthetic"
  ELSE IF backend \in Aravis THEN "authorized-session-probe" ELSE "native-read-only"

ValidEvidence(e, t, fromCache) ==
  /\ e.identity = t.identity
  /\ e.kind = EvidenceKind(t.backend) \/ (fromCache /\ e.kind = "operator-supplied")
  /\ \A n \in DOMAIN e.modes :
       /\ e.modes[n].width > 0
       /\ LET c == e.modes[n].cadence   \* in lowest terms
          IN  \A d \in 2..c.numerator : c.numerator % d = 0 => c.denominator % d # 0

\* describe() with a native refresh.
MayDescribe(t, refresh, granted) ==
  /\ ValidTarget(t) /\ "device-access" \in granted
  /\ IF t.backend \in Aravis
     THEN refresh = "authorized-session-probe" /\ "control-probe" \in granted
     ELSE refresh = "native-read-only"

\* configuredCapturePermission(): the approved target, mode, evidence and
\* output, and no more than the approved time and limits.
Permits(granted, p, request) ==
  /\ "acquisition" \in granted
  /\ \A k \in {"target", "mode", "digest", "output"} : request[k] = p[k]
  /\ request.duration <= p.duration
  /\ \A k \in DOMAIN p.limits : request.limits[k] <= p.limits[k]

\* open() up to the worker: the checks of the request, the permission, and
\* the cached evidence, whose mode must fit the limits.
MayOpen(granted, request, p, evidence, maxima) ==
  /\ ValidTarget(request.target)
  /\ NormalizedLimits(request.limits, maxima)
  /\ request.output \in {"JPEG", "I420"}
  /\ request.duration \in 1..30
  /\ Permits(granted, p, request)
  /\ evidence.digest = request.digest /\ evidence.identity = request.target.identity
  /\ request.mode \in DOMAIN evidence.modes
  /\ evidence.modes[request.mode].width <= request.limits.width

\* The run command: publication is allowed for a whole number of seconds up
\* to 30, and the cached evidence is of this camera and has its mode.
MayRun(granted, seconds, t, evidence, mode) ==
  /\ "publication" \in granted /\ seconds \in 1..30
  /\ ValidTarget(t) /\ ValidEvidence(evidence, t, TRUE)
  /\ mode \in DOMAIN evidence.modes

=============================================================================
