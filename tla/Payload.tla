------------------------------- MODULE Payload -------------------------------
(***************************************************************************)
(* The receive path of one track of the native media worker: the RTP       *)
(* probe, the metadata assembler (metadata.c), the queue, the terminal     *)
(* filter (terminal.c), the ONVIF-JPEG header reader and rewriter (jpeg.c).*)
(* The camera sends units - metadata documents or JPEG frames - of several *)
(* packets; the network loses, duplicates and reorders them.  The main     *)
(* loop's controls (PAUSE, PLAY, SEEK) run between any two steps of the    *)
(* streaming threads: the probe is entered in one step (Enter) and acts on *)
(* its packet in a later one (Probe).                                      *)
(*                                                                         *)
(* The bytes of a packet are the pair of its unit and its position.  The   *)
(* extension of an ONVIF replay stream is on the first packet of a unit.   *)
(***************************************************************************)
EXTENDS Integers, Sequences, FiniteSets, SequencesExt

CONSTANTS WireMax,      \* options.wire_max, in packets of ordinary size
          HeaderMax,    \* MEDIA_JPEG_HEADER_MAX, in headers of ordinary size
          MaxParts,     \* bound: packets of a unit
          MaxCameraUnits,   \* bound: units the camera begins
          MaxFaults,    \* bound: packets lost or duplicated, and new SSRCs
          MaxControls,  \* bound: controls of the session
          MaxWire,      \* bound: packets under way
          MaxQueue      \* bound: packets in the track's queue

ASSUME PayloadAssumption ==
  /\ {WireMax, HeaderMax, MaxParts, MaxCameraUnits, MaxWire, MaxQueue} \subseteq Nat \ {0}
  /\ {MaxFaults, MaxControls} \subseteq Nat

VARIABLES
  setup,    \* what the session negotiated: the track, recorded or live, gzip
  camera,   \* the unit being sent, the next position and sequence number
  faults,   \* what went wrong on the network so far
  wire,     \* the packets under way
  held,     \* the packet in rtp_probe(), past its first check
  play,     \* accepting_data, play_cseq and the control under way
  seen,     \* the track's seen_rtp, ssrc, sequence and encoded_bytes
  meta,     \* MediaMetadata
  queue,    \* the track's queue element
  term,     \* MediaTerminal, and the play whose terminal flag set it
  jpeg,     \* MediaJpeg
  depay,    \* the packets rtpjpegdepay holds
  failed,   \* fail(worker)
  out,      \* the unit the last step delivered
  report    \* the outcome of the last step: none, more, complete or a gap

payloadVars == <<setup, camera, faults, wire, held, play, seen, meta, queue, term, jpeg, depay,
                failed, out, report>>

None == [none |-> TRUE]
CameraUnit(id, ssrc, cseq, parts, last, style) ==
  [id |-> id, ssrc |-> ssrc, cseq |-> cseq, parts |-> parts, last |-> last, style |-> style]
Packet(u, part, seq) == [u |-> u, part |-> part, seq |-> seq]
Marker(p) == p.part = p.u.parts
Size(u) == IF u.style = "big" THEN 2 ELSE 1
Follows(a, b) == b = (a + 1) % 2^16
Sum(ps) == FoldLeft(LAMBDA n, p : n + Size(p.u), 0, ps)

\* A step that delivers nothing.
Quiet(outcome) == report' = outcome /\ out' = None

NoMeta == [active |-> FALSE, discarding |-> FALSE, have |-> FALSE, ssrc |-> 0, last |-> 0, wire |-> << >>]
NoJpeg == [active |-> FALSE, complete |-> FALSE, ssrc |-> 0, ts |-> 0, seq |-> 0, headers |-> << >>]
NoSeen == [rtp |-> FALSE, ssrc |-> 0, seq |-> 0, ts |-> 0, bytes |-> 0]

\* open_native() and the first PLAY; the sequence numbers are about to wrap.
PayloadInit ==
  /\ setup \in [track : {"metadata", "jpeg"}, recorded : BOOLEAN, gzip : BOOLEAN]
  /\ setup.track = "jpeg" => ~setup.gzip
  /\ camera = [unit |-> None, part |-> 1, seq |-> 2^16 - 2, ssrc |-> 1, units |-> 0]
  /\ faults = 0 /\ wire = << >> /\ held = None
  /\ play = [accepting |-> TRUE, cseq |-> 1, control |-> "none", controls |-> 0]
  /\ seen = NoSeen /\ meta = NoMeta /\ queue = << >>
  /\ term = [pending |-> FALSE, ended |-> FALSE, by |-> 0]
  /\ jpeg = NoJpeg /\ depay = << >>
  /\ failed = FALSE /\ out = None /\ report = "none"

-----------------------------------------------------------------------------
\* The camera and the network (external).

\* The next packet: of the unit being sent, or the first of a new one.
Send ==
  /\ Len(wire) < MaxWire /\ ~failed
  /\ \/ camera.unit # None
        /\ camera.part <= camera.unit.parts
        /\ wire' = Append(wire, Packet(camera.unit, camera.part, camera.seq))
        /\ camera' = [camera EXCEPT !.part = @ + 1, !.seq = (@ + 1) % 2^16]
     \/ /\ IF camera.unit = None THEN TRUE
           ELSE camera.part > camera.unit.parts /\ ~camera.unit.last
        /\ camera.units < MaxCameraUnits
        /\ \E parts \in 1 .. MaxParts, last \in BOOLEAN, style \in {"good", "bad", "big", "legacy"} :
             LET u == CameraUnit(camera.units + 1, camera.ssrc, play.cseq, parts, last, style) IN
             /\ last => setup.recorded
             /\ style = "big" => parts = 2
             /\ style = "legacy" => setup.track = "jpeg"
             /\ wire' = Append(wire, Packet(u, 1, camera.seq))
             /\ camera' = [camera EXCEPT !.unit = u, !.part = 2, !.seq = (@ + 1) % 2^16, !.units = @ + 1]
  /\ Quiet("none")
  /\ UNCHANGED <<setup, faults, held, play, seen, meta, queue, term, jpeg, depay, failed>>

\* The stream restarts under a new SSRC in the middle of a unit.
Restart ==
  /\ faults < MaxFaults /\ camera.unit # None /\ ~failed
  /\ faults' = faults + 1
  /\ camera' = [camera EXCEPT !.unit = None, !.ssrc = @ + 1]
  /\ Quiet("none")
  /\ UNCHANGED <<setup, wire, held, play, seen, meta, queue, term, jpeg, depay, failed>>

Lose ==
  /\ faults < MaxFaults /\ ~failed
  /\ \E i \in DOMAIN wire : wire' = RemoveAt(wire, i)
  /\ faults' = faults + 1
  /\ Quiet("none")
  /\ UNCHANGED <<setup, camera, held, play, seen, meta, queue, term, jpeg, depay, failed>>

\* A packet arrives, out of order or leaving a duplicate behind.  The probe
\* drops it unless data is accepted.
Enter ==
  /\ held = None /\ ~failed
  /\ \E i \in DOMAIN wire, again \in BOOLEAN :
       /\ held' = IF play.accepting THEN wire[i] ELSE None
       /\ i # 1 \/ again => faults < MaxFaults
       /\ wire' = IF again THEN wire ELSE RemoveAt(wire, i)
       /\ faults' = IF i # 1 \/ again THEN faults + 1 ELSE faults
  /\ Quiet("none")
  /\ UNCHANGED <<setup, camera, play, seen, meta, queue, term, jpeg, depay, failed>>

-----------------------------------------------------------------------------
\* The metadata assembler.

Drop(m) == [m EXCEPT !.active = FALSE, !.discarding = TRUE, !.wire = << >>]

\* What the XML parser can tell of the assembled bytes: a document begins
\* once, at the start, and ends once, at the end; a piece missing in between
\* need not show.  A gzip stream has a checksum over the whole document.
Whole(w) == /\ \A i \in DOMAIN w : w[i].u = w[1].u /\ w[i].part = i
            /\ Len(w) = w[1].u.parts
WellFormed(w) == \A i \in DOMAIN w : /\ w[i].part = 1 <=> i = 1
                                     /\ Marker(w[i]) <=> i = Len(w)
Verdicts(w) ==
  IF ~(IF setup.gzip THEN Whole(w) ELSE WellFormed(w)) THEN {"invalid"}
  ELSE IF \E i \in DOMAIN w : w[i].u.style = "bad" THEN {"invalid", "limit"}
  ELSE {"complete"}

\* The packet does not follow the last one.
\* Variant: only a new SSRC counts.
GapBySsrc(m, p) == m.have /\ m.ssrc # p.u.ssrc
Gap(m, p) == m.have /\ (m.ssrc # p.u.ssrc \/ ~Follows(m.last, p.seq))

\* What is returned for a packet that completes nothing.
\* Variant: a document that has expired by then is not reported.
ProblemGap(gap, expired) == IF gap THEN "gap" ELSE "more"
Problem(gap, expired) == IF gap THEN "gap" ELSE IF expired THEN "limit" ELSE "more"

\* media_metadata_push(): the outcomes for a packet, with the new state.
\* late: more than deadline_ms have passed since the document's first packet.
PushMetadata(m, p, late) ==
  LET expired == late /\ m.active
      m1 == IF expired THEN Drop(m) ELSE m
      gap == Gap(m1, p)
      m2 == [(IF gap THEN Drop(m1) ELSE m1) EXCEPT
               !.have = TRUE, !.ssrc = p.u.ssrc, !.last = p.seq]
      w == Append(IF m2.active THEN m2.wire ELSE << >>, p)
  IN IF m1.have /\ m1.ssrc = p.u.ssrc /\ m1.last = p.seq THEN {<<m1, "more">>}
     ELSE IF m2.discarding
          THEN {<<[m2 EXCEPT !.discarding = ~Marker(p)], Problem(gap, expired)>>}
     ELSE IF Sum(w) > WireMax
          THEN {<<[Drop(m2) EXCEPT !.discarding = ~Marker(p)], "limit">>}
     ELSE IF ~Marker(p) THEN {<<[m2 EXCEPT !.active = TRUE, !.wire = w], "more">>}
     ELSE {<<[m2 EXCEPT !.active = FALSE, !.wire = w], r>> : r \in Verdicts(w)}

\* The main loop finds that the document is overdue.
Expire ==
  /\ meta.active /\ ~failed
  /\ meta' = Drop(meta)
  /\ Quiet("limit")
  /\ UNCHANGED <<setup, camera, faults, wire, held, play, seen, queue, term, jpeg, depay, failed>>

-----------------------------------------------------------------------------
\* rtp_probe(), after its first check.  The replay extension is compared with
\* the last PLAY; a packet without one passes.
Stale(p) == setup.recorded /\ p.part = 1 /\ p.u.cseq % 256 # play.cseq % 256

\* The bytes of the frame so far, as of this packet.
Encoded(p) == (IF seen.ts = p.u.id THEN seen.bytes ELSE 0) + Size(p.u)
Discontinuous(p) ==
  seen.rtp /\ (seen.ssrc # p.u.ssrc \/ (seen.seq # p.seq /\ ~Follows(seen.seq, p.seq)))

\* A document that is complete is handed to send_data(), which looks at
\* accepting_data again.
Probe ==
  LET p == held
      over == setup.track # "metadata" /\ Encoded(p) > WireMax
  IN
  /\ held # None /\ ~failed /\ Len(queue) < MaxQueue
  /\ held' = None
  /\ failed' = over
  /\ IF over \/ Stale(p)
     THEN /\ report' = "gap"
          /\ seen' = [seen EXCEPT !.ts = p.u.id, !.bytes = IF Marker(p) THEN 0 ELSE Encoded(p)]
          /\ out' = None /\ UNCHANGED <<meta, queue>>
     ELSE /\ seen' = [rtp |-> TRUE, ssrc |-> p.u.ssrc, seq |-> p.seq, ts |-> p.u.id,
                      bytes |-> IF Marker(p) THEN 0 ELSE Encoded(p)]
          /\ queue' = Append(queue, p)
          /\ IF setup.track = "metadata"
             THEN \E late \in BOOLEAN : \E r \in PushMetadata(meta, p, late) :
                    /\ meta' = r[1]
                    /\ report' = IF r[2] = "more" /\ Discontinuous(p) THEN "gap" ELSE r[2]
                    /\ out' = IF r[2] = "complete" /\ play.accepting
                              THEN [kind |-> "document", wire |-> r[1].wire] ELSE None
             ELSE /\ report' = IF Discontinuous(p) THEN "gap" ELSE "more"
                  /\ out' = None /\ UNCHANGED meta
  /\ UNCHANGED <<setup, camera, faults, wire, play, term, jpeg, depay>>

-----------------------------------------------------------------------------
\* ONVIF-JPEG: the frame headers travel in the RTP extensions.

\* The header segments of a packet; only a frame's own table may repeat.
Segment(key, u, part) == [key |-> key, of |-> <<u.id, part>>]
Carried(p) == Segment(CASE p.part = 1 \/ p.u.style = "bad" -> "dqt0"
                        [] p.part = 2 /\ p.u.style # "bad" -> "app"
                        [] OTHER -> "sof", p.u, p.part)
Native(u) == <<Segment("dqt0", u, 0), Segment("dqt1", u, 0), Segment("sof", u, 0)>>
HeaderKeys(h) == {h[i].key : i \in DOMAIN h}

\* The reader's state after the packet of a frame without headers.
Legacy(j) == NoJpeg

\* media_jpeg_push(): <<the new state, the status>>.
PushJpeg(j, p) ==
  LET new == ~j.active \/ j.complete \/ j.ssrc # p.u.ssrc \/ j.ts # p.u.id
      j1 == IF new THEN NoJpeg ELSE j
      next == [active |-> TRUE, complete |-> Marker(p), ssrc |-> p.u.ssrc, ts |-> p.u.id,
               seq |-> p.seq, headers |-> Append(j1.headers, p)]
  IN IF new /\ p.u.style = "legacy" THEN <<Legacy(j), "legacy">>
     ELSE IF IF new THEN p.part # 1 ELSE ~Follows(j.seq, p.seq) \/ p.part = 1 \/ p.u.style = "legacy"
     THEN <<j1, "invalid">>
     ELSE IF Sum(next.headers) > HeaderMax THEN <<[j1 EXCEPT !.active = TRUE], "limit">>
     ELSE <<next, IF next.complete THEN "complete" ELSE "more">>

\* media_jpeg_rewrite(): native segments that a header overrides are left
\* out, the headers follow, and the scan names the components of the frame
\* header in use.  A table must not be given twice.
Repeated(h) == \E i, j \in DOMAIN h : i < j /\ h[i].key = h[j].key /\ h[i].key # "app"
Unless(keys, s) == IF s.key \in keys THEN << >> ELSE <<s>>
Rewrite(native, h) ==
  LET keys == HeaderKeys(h)
      segs == Unless(keys, native[1]) \o Unless(keys, native[2]) \o Unless(keys, native[3]) \o h
  IN [segs |-> segs, scan |-> (CHOOSE s \in Range(segs) : s.key = "sof").of]

\* rtpjpegdepay (external) joins the packets of a frame and drops the others.
Joined(p) ==
  IF p.part = 1 THEN <<p>>
  ELSE IF depay # << >> /\ Last(depay).u = p.u /\ Last(depay).part + 1 = p.part
       THEN Append(depay, p)
  ELSE << >>

\* jpeg_input(), the depayloader and jpeg_output() for one packet.
Render(p) ==
  LET r == PushJpeg(jpeg, p)
      d == Joined(p)
      headers == [i \in DOMAIN r[1].headers |-> Carried(r[1].headers[i])]
      framed == d # << >> /\ Marker(p)
  IN IF r[2] \in {"invalid", "limit"}
     THEN failed' = TRUE /\ jpeg' = r[1] /\ out' = None /\ UNCHANGED depay
     ELSE /\ jpeg' = r[1]
          /\ depay' = IF Marker(p) THEN << >> ELSE d
          /\ IF framed /\ r[1].active /\ Repeated(headers)
             THEN failed' = TRUE /\ out' = None
             ELSE /\ UNCHANGED failed
                  /\ out' = IF ~framed THEN None
                            ELSE [kind |-> "frame", u |-> p.u,
                                  image |-> Rewrite(Native(p.u), IF r[1].active THEN headers ELSE << >>)]

\* The terminal filter: after the unit with the terminal flag nothing passes.
Chain ==
  /\ queue # << >> /\ ~failed
  /\ LET p == Head(queue)
         pending == term.pending \/ (setup.recorded /\ p.part = 1 /\ p.u.last)
     IN /\ queue' = Tail(queue)
        /\ IF term.ended THEN out' = None /\ UNCHANGED <<term, jpeg, depay, failed>>
           ELSE /\ IF setup.track = "jpeg" THEN Render(p)
                   ELSE out' = None /\ UNCHANGED <<jpeg, depay, failed>>
                /\ term' = [pending |-> pending,
                            ended |-> pending /\ Marker(p) /\ ~failed',
                            by |-> IF pending /\ ~term.pending THEN p.u.cseq ELSE term.by]
  /\ report' = "none"
  /\ UNCHANGED <<setup, camera, faults, wire, held, play, seen, meta>>

-----------------------------------------------------------------------------
\* control(), and the native control thread with the answer of the camera.

Control(kind) ==
  /\ play.control = "none" /\ play.controls < MaxControls /\ ~failed
  /\ kind = "SEEK" => setup.recorded
  /\ play' = [play EXCEPT !.accepting = FALSE, !.control = kind, !.controls = @ + 1]
  /\ meta' = [NoMeta EXCEPT !.ssrc = meta.ssrc, !.last = meta.last]
  /\ seen' = [seen EXCEPT !.rtp = FALSE, !.bytes = 0]
  /\ Quiet("control")
  /\ UNCHANGED <<setup, camera, faults, wire, held, queue, term, jpeg, depay, failed>>

\* The terminal filter on FLUSH_STOP.
Flushed(t) == [pending |-> FALSE, ended |-> FALSE, by |-> 0]

\* A recorded PLAY or SEEK flushes the pipeline before PLAY is sent; the
\* flush waits for the streaming threads.
Flush ==
  /\ play.control \in {"PLAY", "SEEK"} /\ setup.recorded /\ held = None
  /\ play' = [play EXCEPT !.control = "flushed"]
  /\ queue' = << >> /\ depay' = << >> /\ jpeg' = NoJpeg
  /\ term' = Flushed(term)
  /\ Quiet("none")
  /\ UNCHANGED <<setup, camera, faults, wire, held, seen, meta, failed>>

\* The 2xx to PLAY: the camera starts over (a live one may go on).
Played ==
  /\ play.control = IF setup.recorded THEN "flushed" ELSE "PLAY"
  /\ play' = [play EXCEPT !.accepting = TRUE, !.cseq = @ + 1, !.control = "none"]
  /\ \/ camera' = [camera EXCEPT !.unit = None]
     \/ ~setup.recorded /\ UNCHANGED camera
  /\ Quiet("none")
  /\ UNCHANGED <<setup, faults, wire, held, seen, meta, queue, term, jpeg, depay, failed>>

Paused ==
  /\ play.control = "PAUSE"
  /\ play' = [play EXCEPT !.control = "none"]
  /\ Quiet("none")
  /\ UNCHANGED <<setup, camera, faults, wire, held, seen, meta, queue, term, jpeg, depay, failed>>

PayloadNext ==
  \/ Send \/ Restart \/ Lose \/ Enter \/ Probe \/ Expire \/ Chain
  \/ \E kind \in {"PAUSE", "PLAY", "SEEK"} : Control(kind)
  \/ Flush \/ Played \/ Paused

-----------------------------------------------------------------------------
\* A metadata document that is delivered is one document of the camera, with
\* all of its packets in their order: no loss, duplicate, new SSRC, expiry or
\* control makes the assembler pass on a partial or a mixed one, although the
\* XML guard would not notice a missing middle (metadata.c).
DocumentsWhole ==
  (out # None /\ out.kind = "document") => Whole(out.wire)

\* A document in assembly that is given up is reported as a gap, unless a
\* control gave it up or the packet at hand is a duplicate of the last one.
LossReported ==
  [][(meta.active /\ ~meta'.active /\ report' # "complete")
       => \/ report' \in {"gap", "limit", "invalid", "control"}
          \/ held # None /\ held.seq = meta.last /\ held.u.ssrc = meta.ssrc]_payloadVars

\* A JPEG frame that reaches the decoder carries, for each of its own headers,
\* that header in place of the native segment, native segments otherwise, and
\* a scan that names the components of the frame header in use; a header of
\* another frame never reaches it (jpeg.c).
FramesOwnHeaders ==
  (out # None /\ out.kind = "frame") =>
    LET segs == out.image.segs
        own == IF out.u.style = "legacy" THEN {}
               ELSE {Carried(Packet(out.u, k, 0)) : k \in 1 .. out.u.parts}
        keys == {s.key : s \in own}
    IN /\ Range(segs) = own \cup {s \in Range(Native(out.u)) : s.key \notin keys}
       /\ Cardinality(Range(segs)) = Len(segs)
       /\ \E s \in Range(segs) : s.key = "sof" /\ s.of = out.image.scan

\* The track ends only because of a terminal unit of the play in progress or
\* of one whose replacement is not yet flushed: the end of a stream that a
\* seek has replaced never ends the new one (terminal.c).
EndedByThisPlay ==
  term.ended /\ play.control \in {"none", "flushed"} /\ play.accepting => term.by = play.cseq

\* What leaves the track is whole and its own: documents and frames, and the
\* end of the stream.
UnitsWhole == DocumentsWhole /\ FramesOwnHeaders /\ EndedByThisPlay
=============================================================================
