--------------------------- MODULE MediaLinkProofs ---------------------------
(***************************************************************************)
(* The media link for every window, every number of commands and units     *)
(* and every mode.  First the end of a session, under every set of faults: *)
(* a session that closes stays closed, and its result claims only what     *)
(* happened.  Then what the two sides exchange until then.                 *)
(***************************************************************************)
EXTENDS MediaLink, FiniteSetTheorems, FunctionTheorems, SequenceTheorems, TLAPS

-----------------------------------------------------------------------------
\* Sequences: t is s with one more element, or without its first one.
Added(s, t, x) == /\ Len(t) = Len(s) + 1 /\ t[Len(s) + 1] = x
                  /\ \A i \in 1..Len(s) : t[i] = s[i]
Dropped(s, t) == /\ Len(s) > 0 /\ Len(t) = Len(s) - 1
                 /\ \A i \in 1..Len(t) : t[i] = s[i + 1]

LEMMA AddedAppend ==
  ASSUME NEW S, NEW s \in Seq(S), NEW x \in S
  PROVE  Append(s, x) \in Seq(S) /\ Added(s, Append(s, x), x)
  BY DEF Added

LEMMA DroppedTail ==
  ASSUME NEW S, NEW s \in Seq(S), s # << >>
  PROVE  /\ Tail(s) \in Seq(S) /\ Dropped(s, Tail(s))
         /\ Head(s) = s[1] /\ Head(s) \in S /\ 1 \in 1..Len(s)
  BY DEF Dropped

LEMMA Joined ==
  ASSUME NEW S, NEW s \in Seq(S), NEW x \in S
  PROVE  s \o << >> = s /\ s \o <<x>> = Append(s, x)
<1>1. << >> \in Seq(S) /\ <<x>> \in Seq(S)
  OBVIOUS
<1>2. s \o << >> = s
  BY <1>1
<1>3. s \o <<x>> = Append(s, x)
  BY <1>1
<1>4. QED
  BY <1>2, <1>3

\* The set {k} x 1..n has n elements.
LEMMA RowCount ==
  ASSUME NEW k, NEW n \in Nat
  PROVE  IsFiniteSet({k} \X (1..n)) /\ Cardinality({k} \X (1..n)) = n
<1> DEFINE f == [i \in 1..n |-> <<k, i>>]
<1>1. IsFiniteSet(1..n) /\ Cardinality(1..n) = n
  <2>1. /\ IsFiniteSet(1..n)
        /\ Cardinality(1..n) = IF 1 > n THEN 0 ELSE n - 1 + 1
    BY FS_Interval
  <2>2. QED
    BY <2>1
<1>2. f \in Bijection(1..n, {k} \X (1..n))
  <2>1. f \in [1..n -> {k} \X (1..n)]
    OBVIOUS
  <2>2. \A a, b \in 1..n : f[a] = f[b] => a = b
    OBVIOUS
  <2>3. \A p \in {k} \X (1..n) : \E a \in 1..n : f[a] = p
    OBVIOUS
  <2> HIDE DEF f
  <2>4. QED
    BY <2>1, <2>2, <2>3, Fun_IsBij
<1>3. ExistsBijection(1..n, {k} \X (1..n))
  BY <1>2 DEF ExistsBijection
<1>4. QED
  BY <1>1, <1>3, FS_Bijection

\* A CREDIT under way adds its units to what is granted; when the worker has
\* read it, they are gone.
LEMMA GrantsAdded ==
  ASSUME NEW S, \A m \in S : m.units \in Nat, NEW c \in Seq(S), NEW d \in Seq(S), NEW m \in S,
         Added(c, d, m), IsFiniteSet(Grants(c))
  PROVE  /\ IsFiniteSet(Grants(d))
         /\ Cardinality(Grants(d)) = Cardinality(Grants(c)) + m.units
<1> DEFINE k == Len(c) + 1
           row == {k} \X (1..m.units)
<1>1. DOMAIN c = 1..Len(c) /\ DOMAIN d = 1..Len(c) + 1 /\ Len(c) \in Nat
  BY DEF Added
<1>2. Grants(d) = Grants(c) \cup row
  BY <1>1 DEF Grants, Added
<1>3. Grants(c) \cap row = {}
  BY <1>1 DEF Grants
<1>4. IsFiniteSet(row) /\ Cardinality(row) = m.units
  BY RowCount
<1>5. Cardinality(Grants(c)) \in Nat
  BY FS_CardinalityType
<1> HIDE DEF row
<1>6. /\ IsFiniteSet(Grants(d))
      /\ Cardinality(Grants(d)) = Cardinality(Grants(c)) + m.units - Cardinality({})
  BY ZenonT(30), <1>2, <1>3, <1>4, FS_Union
<1>7. Cardinality({}) = 0 /\ m.units \in Nat
  BY FS_EmptySet
<1>8. QED
  BY <1>5, <1>6, <1>7

LEMMA GrantsDropped ==
  ASSUME NEW S, \A m \in S : m.units \in Nat, NEW c \in Seq(S), NEW d \in Seq(S),
         Dropped(c, d), IsFiniteSet(Grants(c))
  PROVE  /\ IsFiniteSet(Grants(d)) /\ c[1].units \in Nat
         /\ Cardinality(Grants(c)) = Cardinality(Grants(d)) + c[1].units
         /\ Cardinality(Grants(d)) \in Nat
<1> DEFINE row == {1} \X (1..c[1].units)
           rest == Grants(c) \ row
           f == [p \in rest |-> <<p[1] - 1, p[2]>>]
<1>1. DOMAIN c = 1..Len(c) /\ DOMAIN d = 1..Len(c) - 1 /\ Len(c) \in Nat /\ 1 \in 1..Len(c)
  BY DEF Dropped
<1>2. c[1].units \in Nat /\ row \subseteq Grants(c)
  BY <1>1 DEF Grants
<1>3. \A i \in 1..Len(c) - 1 : d[i] = c[i + 1] /\ i + 1 \in 1..Len(c)
  BY <1>1 DEF Dropped
<1>4. \A p : p \in Grants(c) <=>
               \E i \in 1..Len(c) : \E n \in 1..c[i].units : p = <<i, n>>
  BY <1>1 DEF Grants
<1>5. \A p : p \in Grants(d) <=>
               \E i \in 1..Len(c) - 1 : \E n \in 1..d[i].units : p = <<i, n>>
  BY SMTT(30), <1>1 DEF Grants
<1>6. \A p : p \in rest <=>
               \E i \in 1..Len(c) - 1 : \E n \in 1..d[i].units : p = <<i + 1, n>>
  <2> TAKE p
  <2>1. ASSUME NEW i \in 1..Len(c) - 1, NEW n \in 1..d[i].units, p = <<i + 1, n>>
        PROVE  p \in rest
    <3>1. i + 1 \in 1..Len(c) /\ n \in 1..c[i + 1].units /\ i + 1 # 1
      BY <1>1, <1>3
    <3>2. p \in Grants(c)
      BY <1>4, <2>1, <3>1
    <3>3. p \notin row
      BY <2>1, <3>1
    <3>4. QED
      BY <3>2, <3>3
  <2>2. ASSUME p \in rest
        PROVE  \E i \in 1..Len(c) - 1 : \E n \in 1..d[i].units : p = <<i + 1, n>>
    <3>1. PICK i \in 1..Len(c) : \E n \in 1..c[i].units : p = <<i, n>>
      BY <1>4, <2>2
    <3>2. i # 1
      BY <2>2, <3>1
    <3>3. i - 1 \in 1..Len(c) - 1 /\ (i - 1) + 1 = i
      BY <1>1, <3>2
    <3>4. d[i - 1] = c[i]
      BY <1>3, <3>3
    <3>5. QED
      BY <3>1, <3>3, <3>4
  <2>3. QED
    BY <2>1, <2>2
<1> HIDE DEF rest
<1>7. f \in Bijection(rest, Grants(d))
  <2>1. \A p \in rest : f[p] \in Grants(d)
    BY <1>1, <1>5, <1>6
  <2>2. \A q \in Grants(d) : \E p \in rest : f[p] = q
    <3> TAKE q \in Grants(d)
    <3>1. PICK i \in 1..Len(c) - 1 : \E n \in 1..d[i].units : q = <<i, n>>
      BY <1>5
    <3>2. PICK n \in 1..d[i].units : q = <<i, n>>
      BY <3>1
    <3>3. <<i + 1, n>> \in rest /\ (i + 1) - 1 = i
      BY <1>1, <1>6
    <3>4. QED
      BY <3>2, <3>3
  <2>3. \A p, q \in rest : f[p] = f[q] => p = q
    <3> SUFFICES ASSUME NEW p \in rest, NEW q \in rest, f[p] = f[q] PROVE p = q
      OBVIOUS
    <3>1. PICK i \in 1..Len(c) - 1 : \E n \in 1..d[i].units : p = <<i + 1, n>>
      BY <1>6
    <3>2. PICK j \in 1..Len(c) - 1 : \E l \in 1..d[j].units : q = <<j + 1, l>>
      BY <1>6
    <3>3. QED
      BY <1>1, <3>1, <3>2
  <2>4. f \in [rest -> Grants(d)]
    BY <2>1
  <2> HIDE DEF f
  <2>5. QED
    BY <2>2, <2>3, <2>4, Fun_IsBij
<1>8. IsFiniteSet(rest) /\ IsFiniteSet(row) /\ Cardinality(row) = c[1].units
  BY <1>2, FS_Subset, RowCount DEF rest
<1>9. IsFiniteSet(Grants(d)) /\ Cardinality(Grants(d)) = Cardinality(rest)
  BY <1>7, <1>8, FS_Bijection DEF ExistsBijection
<1>10. Grants(c) = row \cup rest /\ row \cap rest = {}
  BY <1>2 DEF rest
<1> HIDE DEF row
<1>11. Cardinality(Grants(c)) = c[1].units + Cardinality(rest) - Cardinality({})
  BY <1>8, <1>10, FS_Union
<1>12. Cardinality({}) = 0 /\ Cardinality(rest) \in Nat
  BY <1>8, FS_EmptySet, FS_CardinalityType
<1>13. QED
  BY <1>2, <1>9, <1>11, <1>12

\* Nothing is granted by commands that carry no units.
LEMMA GrantsNone ==
  ASSUME NEW S, NEW c \in Seq(S), \A i \in 1..Len(c) : c[i].units = 0
  PROVE  IsFiniteSet(Grants(c)) /\ Cardinality(Grants(c)) = 0
<1>1. DOMAIN c = 1..Len(c)
  OBVIOUS
<1>2. Grants(c) = {}
  BY <1>1 DEF Grants
<1>3. QED
  BY <1>2, FS_EmptySet

-----------------------------------------------------------------------------
\* Units in the order of their sequence numbers.
UnitSet == [gen : Nat, seq : Nat]
Increasing(s) == \A i, j \in 1..Len(s) : i < j => s[i].seq < s[j].seq

\* Units in order are all different.
LEMMA UnitsCount ==
  ASSUME NEW s \in Seq(UnitSet), Increasing(s)
  PROVE  IsFiniteSet(Units(s)) /\ Cardinality(Units(s)) = Len(s)
<1>1. s \in [1..Len(s) -> UnitSet] /\ Len(s) \in Nat /\ DOMAIN s = 1..Len(s)
  OBVIOUS
<1>2. \A i, j \in 1..Len(s) : s[i] = s[j] => i = j
  <2> SUFFICES ASSUME NEW i \in 1..Len(s), NEW j \in 1..Len(s), s[i] = s[j], i # j PROVE FALSE
    OBVIOUS
  <2>1. s[i].seq \in Nat /\ s[j].seq \in Nat
    <3>1. s[i] \in UnitSet /\ s[j] \in UnitSet
      BY <1>1
    <3>2. QED
      BY <3>1 DEF UnitSet
  <2>2. i < j \/ j < i
    BY <1>1
  <2>3. s[i].seq < s[j].seq \/ s[j].seq < s[i].seq
    BY <2>2 DEF Increasing
  <2>4. QED
    BY <2>1, <2>3
<1>3. s \in Bijection(1..Len(s), Units(s))
  <2>1. s \in [1..Len(s) -> Units(s)]
    BY <1>1 DEF Units
  <2>2. \A u \in Units(s) : \E i \in 1..Len(s) : s[i] = u
    BY <1>1 DEF Units
  <2>3. QED
    BY <1>2, <2>1, <2>2, Fun_IsBij
<1>4. IsFiniteSet(1..Len(s)) /\ Cardinality(1..Len(s)) = Len(s)
  <2>1. /\ IsFiniteSet(1..Len(s))
        /\ Cardinality(1..Len(s)) = IF 1 > Len(s) THEN 0 ELSE Len(s) - 1 + 1
    BY <1>1, FS_Interval
  <2>2. QED
    BY <1>1, <2>1
<1>5. QED
  BY <1>3, <1>4, FS_Bijection DEF ExistsBijection

-----------------------------------------------------------------------------
\* Types.
Commands == {"OPEN", "CREDIT", "CLOSE", "EOF"} \cup Kinds
CommandSet == [kind : Commands, gen : Nat, seq : Nat, units : Nat]
Remotes == {"acknowledged", "already-ended", "not-created", "uncertain"}
PlainFrames == [kind : {"HELLO", "READY", "ERROR"}, own : BOOLEAN, gen : Nat, seq : Nat]
EndFrames == [kind : {"END"}, own : BOOLEAN, gen : Nat, seq : Nat, watermark : Nat]
ControlFrames == [kind : {"CONTROL"}, own : {TRUE}, gen : Nat, seq : Nat,
                  command : Kinds, state : {"playing", "paused"}]
ClosedFrames == [kind : {"CLOSED"}, own : BOOLEAN, gen : Nat, seq : Nat,
                 remote : Remotes, localCleanup : BOOLEAN]
FrameSet == PlainFrames \cup EndFrames \cup ControlFrames \cup ClosedFrames
ControlSet == [kind : {"none"} \cup Kinds, seq : Nat, gen : Nat]

\* What beginClose() may change, and what it leaves alone.
ClosingTypeOK ==
  /\ state \in {"opening", "playing", "paused", "closing", "closed"}
  /\ ending \in [gen : Nat, watermark : Nat, complete : BOOLEAN]
  /\ abandoned \in ControlSet /\ pending \in ControlSet
  /\ staged \in Seq(UnitSet) /\ held \in SUBSET UnitSet /\ IsFiniteSet(held)
  /\ creditUnits \in Nat /\ secrets \in {"empty", "written", "destroyed"}
  /\ commandSequence \in Nat /\ closeSequence \in Nat /\ commands \in Seq(CommandSet)

RestTypeOK ==
  /\ generation \in Nat /\ expectedGeneration \in Nat /\ openSent \in BOOLEAN
  /\ dataSequence \in Nat /\ outstandingUnits \in Nat
  /\ receipt \in [remote : {"none"} \cup Remotes, localCleanup : BOOLEAN]
  /\ data \in Seq(UnitSet) /\ control \in Seq(FrameSet)
  /\ exit \in {"running", "0", "2", "3", "killed", "crashed"}

WorkerTypeOK ==
  /\ loop \in {"command", "bus", "ack", "close"} /\ done \in BOOLEAN
  /\ opened \in BOOLEAN /\ pipeline \in BOOLEAN /\ ready \in BOOLEAN /\ readySent \in BOOLEAN
  /\ wGeneration \in Nat /\ pendingGeneration \in Nat
  /\ wRequest \in Nat /\ closeRequest \in Nat
  /\ pendingControl \in {"none"} \cup Kinds /\ controlReady \in {"none"} \cup Kinds
  /\ thread \in {"none", "starting", "running"} /\ paused \in BOOLEAN
  /\ accepting \in BOOLEAN /\ sending \in Nat
  /\ frames \in Seq(UnitSet) /\ credits \in Nat /\ wSequence \in Nat
  /\ eos \in SUBSET Nat /\ IsFiniteSet(eos) /\ relabelled \in SUBSET Nat
  /\ streamEnded \in BOOLEAN /\ setupSent \in BOOLEAN /\ rtsp \in {"none", "PAUSE", "PLAY"}
  /\ server \in {"none", "alive", "ended"}

LinkTypeOK == ClosingTypeOK /\ RestTypeOK /\ WorkerTypeOK

-----------------------------------------------------------------------------
\* What beginClose() settles, and what only it brings about.
Settled ==
  /\ Open => /\ abandoned = NoControl /\ receipt = NoReceipt /\ timer = "none"
             /\ closeSequence = 0
  /\ ~Open => /\ Idle /\ held = {} /\ staged = << >> /\ creditUnits = 0 /\ ending = NoEnd

\* A session on the server has its origin in an OPEN.
Stages ==
  /\ ready => setupSent
  /\ thread # "none" => ready
  /\ rtsp # "none" \/ server = "alive" => setupSent
  /\ setupSent => pipeline
  /\ pipeline => opened
  /\ opened => openSent
  /\ \A i \in 1..Len(commands) : commands[i].kind = "OPEN" => openSent

\* The end: CLOSED is the last word of a worker, and its receipt is true.
True(remote) == remote # "none" /\ (remote # "uncertain" => server # "alive")
LastWord ==
  /\ \A i \in 1..Len(control) : control[i].kind = "CLOSED" =>
       exit # "running" /\ receipt = NoReceipt /\ True(control[i].remote)
  /\ \A i, j \in 1..Len(control) :
       control[i].kind = "CLOSED" /\ control[j].kind = "CLOSED" => i = j
ReceiptTrue == receipt # NoReceipt => exit # "running" /\ True(receipt.remote)
ResultTrue ==
  state = "closed" =>
    /\ receipt = NoReceipt => result.remote = IF openSent THEN "uncertain" ELSE "not-created"
    /\ receipt # NoReceipt => result.remote = receipt.remote
    /\ result.localCleanup => exit = "0"
    /\ ~result.failed => result.remote # "uncertain" /\ exit = "0"

\* What the truth of the close result rests on.
CloseInv == LinkTypeOK /\ Settled /\ Stages /\ LastWord /\ ReceiptTrue /\ ResultTrue


-----------------------------------------------------------------------------
\* Types of messages.
LEMMA FrameTypes ==
  ASSUME NEW m \in FrameSet
  PROVE  /\ m.gen \in Nat /\ m.seq \in Nat /\ m.own \in BOOLEAN
         /\ m.kind \in {"HELLO", "READY", "ERROR", "END", "CONTROL", "CLOSED"}
         /\ m.kind = "END" => m.watermark \in Nat
         /\ m.kind = "CONTROL" => m.own /\ m.command \in Kinds /\ m.state \in {"playing", "paused"}
         /\ m.kind = "CLOSED" => m.remote \in Remotes /\ m.localCleanup \in BOOLEAN
<1>1. CASE m \in PlainFrames
  BY <1>1 DEF PlainFrames
<1>2. CASE m \in EndFrames
  BY <1>2 DEF EndFrames
<1>3. CASE m \in ControlFrames
  BY <1>3 DEF ControlFrames
<1>4. CASE m \in ClosedFrames
  BY <1>4 DEF ClosedFrames
<1>5. QED
  BY <1>1, <1>2, <1>3, <1>4 DEF FrameSet

LEMMA FramesMade ==
  ASSUME NEW own \in BOOLEAN, NEW gen \in Nat, NEW seq \in Nat
  PROVE  /\ \A kind \in {"HELLO", "READY", "ERROR"} : Frame(kind, own, gen, seq) \in FrameSet
         /\ \A w \in Nat : EndFrame(own, gen, seq, w) \in FrameSet
         /\ \A kind \in Kinds, s \in {"playing", "paused"} : ControlFrame(gen, seq, kind, s) \in FrameSet
         /\ \A r \in Remotes, l \in BOOLEAN : ClosedFrame(own, gen, seq, r, l) \in FrameSet
<1>1. \A kind \in {"HELLO", "READY", "ERROR"} : Frame(kind, own, gen, seq) \in PlainFrames
  BY DEF Frame, PlainFrames
<1>2. \A w \in Nat : EndFrame(own, gen, seq, w) \in EndFrames
  BY DEF EndFrame, EndFrames
<1>3. \A kind \in Kinds, s \in {"playing", "paused"} : ControlFrame(gen, seq, kind, s) \in ControlFrames
  BY DEF ControlFrame, ControlFrames
<1>4. \A r \in Remotes, l \in BOOLEAN : ClosedFrame(own, gen, seq, r, l) \in ClosedFrames
  BY DEF ClosedFrame, ClosedFrames
<1>5. QED
  BY <1>1, <1>2, <1>3, <1>4 DEF FrameSet

LEMMA CommandTypes ==
  /\ \A m \in CommandSet : m.kind \in Commands /\ m.gen \in Nat /\ m.seq \in Nat /\ m.units \in Nat
  /\ \A kind \in Commands, gen, seq, units \in Nat : Command(kind, gen, seq, units) \in CommandSet
BY DEF CommandSet, Command

LEMMA UnitTypes ==
  /\ \A u \in UnitSet : u.gen \in Nat /\ u.seq \in Nat
  /\ \A s \in Seq(UnitSet) : Units(s) \subseteq UnitSet /\ IsFiniteSet(Units(s))
<1>1. \A u \in UnitSet : u.gen \in Nat /\ u.seq \in Nat
  BY DEF UnitSet
<1>2. ASSUME NEW s \in Seq(UnitSet)
      PROVE  Units(s) \subseteq UnitSet /\ IsFiniteSet(Units(s))
  <2>1. DOMAIN s = 1..Len(s) /\ Len(s) \in Nat /\ s \in [1..Len(s) -> UnitSet]
    OBVIOUS
  <2>2. Units(s) \subseteq UnitSet /\ s \in [1..Len(s) -> Units(s)]
    BY <2>1 DEF Units
  <2>3. \A u \in Units(s) : \E i \in 1..Len(s) : s[i] = u
    BY <2>1 DEF Units
  <2>4. s \in Surjection(1..Len(s), Units(s))
    BY <2>2, <2>3, Fun_IsSurj
  <2>5. IsFiniteSet(1..Len(s))
    BY <2>1, FS_Interval
  <2>6. QED
    BY <2>2, <2>4, <2>5, FS_Surjection
<1>3. QED
  BY <1>1, <1>2

\* What beginClose() and fail() assign has its types.
LEMMA CloseTypes ==
  ASSUME ClosingTypeOK, generation \in Nat, NEW c, NEW a, BeginClose(c, a)
  PROVE  ClosingTypeOK'
<1>1. << >> \in Seq(UnitSet) /\ {} \in SUBSET UnitSet /\ IsFiniteSet({})
  BY FS_EmptySet
<1>2. NoEnd \in [gen : Nat, watermark : Nat, complete : BOOLEAN] /\ NoControl \in ControlSet
  BY DEF NoEnd, NoControl, ControlSet
<1>3. secrets' \in {"empty", "written", "destroyed"}
  BY DEF ClosingTypeOK, BeginClose, Destroyed
<1>4. commandSequence' \in Nat /\ closeSequence' \in Nat
  BY DEF ClosingTypeOK, BeginClose
<1>5. /\ Command("CLOSE", generation, commandSequence + 1, 0) \in CommandSet
      /\ Command("EOF", 0, 0, 0) \in CommandSet
  BY CommandTypes DEF ClosingTypeOK, Commands
<1>6. commands' \in Seq(CommandSet)
  <2>1. commands \in Seq(CommandSet)
    BY DEF ClosingTypeOK
  <2>2. \E m \in CommandSet : commands' = Append(commands, m)
    BY <1>5 DEF BeginClose
  <2>3. QED
    BY <2>1, <2>2, AddedAppend
<1>7. QED
  BY <1>1, <1>2, <1>3, <1>4, <1>6 DEF ClosingTypeOK, BeginClose

LEMMA FailTypes ==
  ASSUME ClosingTypeOK, generation \in Nat, NEW c, Fail(c)
  PROVE  ClosingTypeOK'
<1>1. CASE Open
  BY <1>1, CloseTypes DEF Fail
<1>2. CASE ~Open
  BY <1>2 DEF Fail, ClosingTypeOK
<1>3. QED
  BY <1>1, <1>2

-----------------------------------------------------------------------------
\* A message taken from the control pipe.
LEMMA FrameTaken ==
  ASSUME control \in Seq(FrameSet), NEW kind, Received(kind)
  PROVE  /\ Dropped(control, control') /\ control' \in Seq(FrameSet)
         /\ Head(control) = control[1] /\ Head(control) \in FrameSet /\ Head(control).kind = kind
         /\ 1 \in 1..Len(control) /\ state # "closed"
  BY DroppedTail DEF Received

\* The result of a finished generation.
LEMMA FinishedTypes ==
  ASSUME NEW end \in [gen : Nat, watermark : Nat, complete : BOOLEAN], NEW g, NEW n
  PROVE  /\ Finished(end, g, n) \in [gen : Nat, watermark : Nat, complete : BOOLEAN]
         /\ Finished(end, g, n).gen = end.gen /\ Finished(end, g, n).watermark = end.watermark
         /\ Finished(end, g, n).complete =>
              end.complete \/ (end.gen = g /\ g # 0 /\ n = end.watermark)
         /\ end = NoEnd => Finished(end, g, n) = NoEnd
<1>1. CASE end.gen = g /\ end.gen # 0 /\ n = end.watermark
  <2>1. Finished(end, g, n) = [end EXCEPT !.complete = TRUE]
    BY <1>1 DEF Finished
  <2>2. Finished(end, g, n) = [gen |-> end.gen, watermark |-> end.watermark, complete |-> TRUE]
    BY <2>1
  <2>3. end # NoEnd
    BY <1>1 DEF NoEnd
  <2>4. QED
    BY <1>1, <2>2, <2>3
<1>2. CASE ~(end.gen = g /\ end.gen # 0 /\ n = end.watermark)
  <2>1. Finished(end, g, n) = end
    BY <1>2 DEF Finished
  <2>2. QED
    BY <2>1
<1>3. QED
  BY <1>1, <1>2

LEMMA SessionTypes ==
  ASSUME LinkAssumption, ClosingTypeOK, RestTypeOK, SessionNext
  PROVE  ClosingTypeOK' /\ RestTypeOK'
<1> USE DEF RestTypeOK
<1>1. generation \in Nat /\ control \in Seq(FrameSet) /\ data \in Seq(UnitSet)
  OBVIOUS
<1>2. ASSUME NEW c, Fail(c), UNCHANGED <<restVars, control>>
      PROVE  ClosingTypeOK' /\ RestTypeOK'
  BY <1>2, FailTypes DEF restVars
<1>3. CASE Close
  <2>1. ClosingTypeOK'
    BY <1>3, CloseTypes DEF Close
  <2>2. QED
    BY <1>3, <2>1 DEF Close, restVars
<1>4. CASE Abort \/ OpenDeadline \/ ControlDeadline \/ EndDeadline \/ PipeEnd
  BY <1>2, <1>4 DEF Abort, OpenDeadline, ControlDeadline, EndDeadline, PipeEnd
<1>5. CASE SendOpen
  <2>1. Command("OPEN", 0, commandSequence + 1, 0) \in CommandSet
    BY CommandTypes DEF ClosingTypeOK, Commands
  <2>2. commands' \in Seq(CommandSet)
    BY <1>5, <2>1, AddedAppend DEF SendOpen, ClosingTypeOK
  <2>3. commandSequence' \in Nat
    BY <1>5 DEF SendOpen, ClosingTypeOK
  <2>4. QED
    BY <1>5, <2>2, <2>3 DEF SendOpen, ClosingTypeOK
<1>6. CASE OnHello
  <2>1. control' \in Seq(FrameSet)
    BY <1>6, FrameTaken DEF OnHello
  <2>2. QED
    BY <1>6, <2>1 DEF OnHello, ClosingTypeOK, sessionVars
<1>7. \A s \in Seq(UnitSet) : held \cup Units(s) \in SUBSET UnitSet /\ IsFiniteSet(held \cup Units(s))
  BY UnitTypes, FS_Union DEF ClosingTypeOK
<1>8. << >> \in Seq(UnitSet) /\ NoControl \in ControlSet /\ {} \in SUBSET UnitSet /\ IsFiniteSet({})
      /\ NoEnd \in [gen : Nat, watermark : Nat, complete : BOOLEAN]
  BY FS_EmptySet DEF NoControl, ControlSet, NoEnd
<1>9. CASE OnReady
  <2>1. control' \in Seq(FrameSet) /\ data' \in Seq(UnitSet)
    BY <1>9, FrameTaken DEF OnReady
  <2>2. CASE \E c : Fail(c) /\ UNCHANGED generation
    BY <1>9, <2>1, <2>2, FailTypes DEF OnReady
  <2>3. CASE UNCHANGED closeVars /\ UNCHANGED generation
    BY <1>9, <2>1, <2>3 DEF OnReady, closeVars, ClosingTypeOK
  <2>4. CASE /\ generation' = 1 /\ state' = "playing"
             /\ held' = held \cup Units(staged) /\ staged' = << >>
             /\ ending' = Finished(ending, 1, dataSequence)
             /\ UNCHANGED <<failure, abandoned, pending, creditUnits, secrets, timer,
                            commandSequence, closeSequence, commands>>
    BY <1>9, <2>1, <2>4, <1>7, <1>8, FinishedTypes DEF OnReady, ClosingTypeOK
  <2>5. QED
    BY <1>9, <2>2, <2>3, <2>4 DEF OnReady
<1>10. CASE OnControl
  <2> DEFINE m == Head(control)
             asked == IF ~Idle THEN pending ELSE IF state = "closing" THEN abandoned ELSE NoControl
  <2>1. control' \in Seq(FrameSet) /\ m \in FrameSet
    BY <1>10, FrameTaken DEF OnControl
  <2>2. m.gen \in Nat
    BY <2>1, FrameTypes
  <2>3. CASE \E c : Fail(c) /\ UNCHANGED generation
    BY <1>10, <2>1, <2>3, FailTypes DEF OnControl
  <2>4. CASE /\ abandoned' = NoControl
             /\ UNCHANGED <<state, failure, ending, pending, staged, held, creditUnits, secrets,
                            timer, commandSequence, closeSequence, commands, generation>>
    BY <1>8, <1>10, <2>1, <2>4 DEF OnControl, ClosingTypeOK
  <2>5. CASE /\ generation' = m.gen /\ state' = StateAfter(asked.kind)
             /\ held' = held \cup Units(staged) /\ staged' = << >>
             /\ pending' = NoControl
             /\ ending' = Finished(ending, m.gen, dataSequence)
             /\ UNCHANGED <<failure, abandoned, creditUnits, secrets, timer,
                            commandSequence, closeSequence, commands>>
    <3>1. state' \in {"playing", "paused"}
      BY <2>5 DEF StateAfter
    <3> HIDE DEF m, asked
    <3>2. ClosingTypeOK'
      BY <1>7, <1>8, <2>5, <3>1, FinishedTypes DEF ClosingTypeOK
    <3>3. QED
      BY <1>10, <2>1, <2>2, <2>5, <3>2 DEF OnControl
  <2>6. QED
    BY <1>10, <2>3, <2>4, <2>5 DEF OnControl
<1>11. CASE OnClosed
  <2> DEFINE m == Head(control)
  <2>1. control' \in Seq(FrameSet) /\ m \in FrameSet /\ m.kind = "CLOSED"
    BY <1>11, FrameTaken DEF OnClosed
  <2>2. m.remote \in Remotes /\ m.localCleanup \in BOOLEAN
    BY <2>1, FrameTypes
  <2>3. receipt' \in [remote : {"none"} \cup Remotes, localCleanup : BOOLEAN]
    <3>1. UNCHANGED receipt \/ receipt' = [remote |-> m.remote, localCleanup |-> m.localCleanup]
      BY <1>11 DEF OnClosed
    <3>2. QED
      BY <2>2, <3>1
  <2>4. ClosingTypeOK'
    BY <1>11, CloseTypes, FailTypes DEF OnClosed, closeVars, ClosingTypeOK
  <2>5. QED
    BY <1>11, <2>1, <2>3, <2>4 DEF OnClosed
<1>12. CASE OnError
  <2>1. control' \in Seq(FrameSet)
    BY <1>12, FrameTaken DEF OnError
  <2>2. ClosingTypeOK'
    BY <1>12, FailTypes DEF OnError
  <2>3. QED
    BY <1>12, <2>1, <2>2 DEF OnError, restVars
<1>13. CASE OnEnd
  <2> DEFINE m == Head(control)
             end == [gen |-> m.gen, watermark |-> m.watermark, complete |-> FALSE]
  <2>1. control' \in Seq(FrameSet) /\ m \in FrameSet /\ m.kind = "END"
    BY <1>13, FrameTaken DEF OnEnd
  <2>2. end \in [gen : Nat, watermark : Nat, complete : BOOLEAN]
    BY <2>1, FrameTypes
  <2>3. RestTypeOK'
    BY <1>13, <2>1 DEF OnEnd, restVars
  <2>4. CASE \E c : Fail(c)
    BY <2>3, <2>4, FailTypes
  <2>5. CASE /\ ending' \in {ending, Finished(end, generation, dataSequence), end}
             /\ UNCHANGED <<state, failure, abandoned, pending, staged, held, creditUnits, secrets,
                            timer, commandSequence, closeSequence, commands>>
    <3> HIDE DEF end
    <3>1. QED
      BY SMTT(30), <2>2, <2>3, <2>5, FinishedTypes DEF ClosingTypeOK
  <2>6. QED
    BY <1>13, <2>4, <2>5 DEF OnEnd
<1>14. CASE OnData
  <2> DEFINE u == Head(data)
             crowded == Len(staged) >= QueueUnits
  <2>1. data' \in Seq(UnitSet) /\ u \in UnitSet /\ u.seq \in Nat
    BY <1>14, DroppedTail, UnitTypes DEF OnData
  <2>2. CASE UNCHANGED <<closeVars, dataSequence, outstandingUnits>>
    BY <1>14, <2>1, <2>2 DEF OnData, closeVars, ClosingTypeOK
  <2>3. CASE \E c : Fail(c) /\ UNCHANGED <<dataSequence, outstandingUnits>>
    BY <1>14, <2>1, <2>3, FailTypes DEF OnData
  <2>4. CASE /\ dataSequence' = u.seq /\ outstandingUnits' = outstandingUnits + 1
             /\ ending' = IF Idle /\ state # "opening"
                          THEN Finished(ending, generation, u.seq) ELSE ending
             /\ creditUnits' = IF Obsolete(u) \/ (Ahead(u) /\ crowded)
                               THEN creditUnits + 1 ELSE creditUnits
             /\ staged' = IF Obsolete(u) \/ ~Ahead(u) THEN staged
                          ELSE Append(IF crowded THEN Tail(staged) ELSE staged, u)
             /\ held' = IF Obsolete(u) \/ Ahead(u) THEN held ELSE held \cup {u}
             /\ UNCHANGED <<state, failure, abandoned, pending, secrets, timer,
                            commandSequence, closeSequence, commands>>
    <3> USE DEF ClosingTypeOK
    <3>1. staged # << >> => Tail(staged) \in Seq(UnitSet)
      BY DroppedTail
    <3>2. crowded => staged # << >>
      BY DEF LinkAssumption
    <3>3. staged' \in Seq(UnitSet)
      BY <2>1, <2>4, <3>1, <3>2, AddedAppend
    <3>4. held' \in SUBSET UnitSet /\ IsFiniteSet(held')
      BY <2>1, <2>4, FS_AddElement
    <3>5. ending' \in [gen : Nat, watermark : Nat, complete : BOOLEAN]
      BY <2>4, FinishedTypes
    <3>6. creditUnits' \in Nat /\ outstandingUnits' \in Nat /\ dataSequence' \in Nat
      BY <2>1, <2>4
    <3>7. ClosingTypeOK'
      BY <2>4, <3>3, <3>4, <3>5, <3>6
    <3>8. QED
      BY <1>14, <2>1, <3>6, <3>7 DEF OnData
  <2>5. QED
    BY <1>14, <2>2, <2>3, <2>4 DEF OnData
<1>15. ASSUME NEW u \in held, Consume(u)
       PROVE  ClosingTypeOK' /\ RestTypeOK'
  <2>1. held' \in SUBSET UnitSet /\ IsFiniteSet(held') /\ creditUnits' \in Nat
    BY <1>15, FS_RemoveElement DEF Consume, ClosingTypeOK
  <2>2. QED
    BY <1>15, <2>1 DEF Consume, ClosingTypeOK, pipes
<1>16. CASE FlushCredits
  <2>1. CASE creditUnits > outstandingUnits
    BY <1>16, <2>1, FailTypes DEF FlushCredits
  <2>2. CASE ~(creditUnits > outstandingUnits)
    <3>1. Command("CREDIT", generation, 0, creditUnits) \in CommandSet
      BY CommandTypes DEF ClosingTypeOK, Commands
    <3>2. commands' \in Seq(CommandSet)
      <4>1. /\ commands \in Seq(CommandSet)
            /\ commands' = Append(commands, Command("CREDIT", generation, 0, creditUnits))
        BY <1>16, <2>2 DEF FlushCredits, ClosingTypeOK
      <4>2. QED
        BY <3>1, <4>1, AddedAppend
    <3>3. outstandingUnits' \in Nat
      BY <1>16, <2>2 DEF FlushCredits, ClosingTypeOK
    <3>4. QED
      BY <1>16, <2>2, <3>2, <3>3 DEF FlushCredits, ClosingTypeOK
  <2>3. QED
    BY <2>1, <2>2
<1>17. ASSUME NEW kind \in Kinds, IssueControl(kind)
       PROVE  ClosingTypeOK' /\ RestTypeOK'
  <2> USE DEF ClosingTypeOK
  <2>1. /\ commandSequence + 1 \in Nat /\ kind \in Commands
        /\ generation + 1 \in Nat /\ Cardinality(held) \in Nat
    BY FS_CardinalityType DEF Commands
  <2>2. Command(kind, generation, commandSequence + 1, 0) \in CommandSet
    BY <2>1, CommandTypes
  <2>3. commands' \in Seq(CommandSet)
    BY <1>17, <2>2, AddedAppend DEF IssueControl
  <2>4. pending' \in ControlSet /\ expectedGeneration' \in Nat
    BY <1>17, <2>1 DEF IssueControl, ControlSet
  <2>5. commandSequence' \in Nat /\ creditUnits' \in Nat /\ held' \in SUBSET UnitSet
        /\ IsFiniteSet(held') /\ ending' \in [gen : Nat, watermark : Nat, complete : BOOLEAN]
    BY SMTT(30), <1>8, <1>17, <2>1 DEF IssueControl
  <2>6. QED
    BY <1>17, <2>3, <2>4, <2>5 DEF IssueControl
<1>18. Command("EOF", 0, 0, 0) \in CommandSet
  BY CommandTypes DEF Commands
<1>19. CASE CloseDeadline
  <2>1. commands' \in Seq(CommandSet)
    BY <1>18, <1>19, AddedAppend DEF CloseDeadline, ClosingTypeOK
  <2>2. QED
    BY <1>19, <2>1 DEF CloseDeadline, ClosingTypeOK
<1>20. ASSUME NEW observed, Exited(observed)
       PROVE  ClosingTypeOK' /\ RestTypeOK'
  <2>1. commands' \in Seq(CommandSet)
    BY <1>18, <1>20, AddedAppend DEF Exited, ClosingTypeOK
  <2>2. secrets' \in {"empty", "written", "destroyed"}
    BY <1>20 DEF Exited, Destroyed, ClosingTypeOK
  <2>3. QED
    BY <1>8, <1>20, <2>1, <2>2 DEF Exited, ClosingTypeOK
<1>21. QED
  BY <1>3, <1>4, <1>5, <1>6, <1>9, <1>10, <1>11, <1>12, <1>13, <1>14, <1>15, <1>16, <1>17, <1>19,
     <1>20 DEF SessionNext

-----------------------------------------------------------------------------
\* What the main loop writes to the control pipe in one step.
LEMMA BusFrames ==
  ASSUME RestTypeOK, WorkerTypeOK, LoopBus
  PROVE  /\ control' \in Seq(FrameSet) /\ Len(control) <= Len(control')
         /\ \A i \in 1..Len(control) : control'[i] = control[i]
         /\ \A i \in 1..Len(control') :
              \/ i \in 1..Len(control)
              \/ wFailure # "none" /\ control'[i] = Frame("ERROR", opened, wGeneration, wRequest)
              \/ /\ eos # {} /\ (eos \subseteq {wGeneration} => i = Len(control'))
                 /\ control'[i] = EndFrame(opened, wGeneration, wRequest, wSequence)
<1> DEFINE error1 == Frame("ERROR", opened, wGeneration, wRequest)
           end1 == EndFrame(opened, wGeneration, wRequest, wSequence)
           middle == IF wFailure # "none" THEN Append(control, error1) ELSE control
           n == Cardinality(eos)
           ends == [i \in 1..n |-> end1]
<1>1. control \in Seq(FrameSet) /\ error1 \in FrameSet /\ end1 \in FrameSet
  BY FramesMade DEF RestTypeOK, WorkerTypeOK
<1>2. n \in Nat /\ (n = 0 <=> eos = {})
  BY FS_CardinalityType, FS_EmptySet DEF WorkerTypeOK
<1>3. control' = control \o (IF wFailure # "none" THEN <<error1>> ELSE << >>) \o ends
  BY DEF LoopBus
<1> HIDE DEF error1, end1, n
<1>4. ends \in Seq(FrameSet) /\ Len(ends) = n /\ \A i \in 1..n : ends[i] = end1
  BY <1>1, <1>2
<1>5. control \o (IF wFailure # "none" THEN <<error1>> ELSE << >>) = middle
  BY <1>1, Joined
<1>6. /\ middle \in Seq(FrameSet) /\ Len(control) <= Len(middle)
      /\ \A i \in 1..Len(control) : middle[i] = control[i]
      /\ \A i \in 1..Len(middle) : i \in 1..Len(control) \/ (wFailure # "none" /\ middle[i] = error1)
  <2>1. CASE wFailure = "none"
    BY <1>1, <2>1
  <2>2. CASE wFailure # "none"
    <3>1. middle \in Seq(FrameSet) /\ Added(control, middle, error1)
      BY <1>1, <2>2, AddedAppend
    <3>2. QED
      BY <1>1, <2>2, <3>1 DEF Added
  <2>3. QED
    BY <2>1, <2>2
<1>7. wFailure = "none" => middle = control
  OBVIOUS
<1>8. control' = middle \o ends
  BY <1>3, <1>5
<1> HIDE DEF middle, ends
<1>9. /\ control' \in Seq(FrameSet) /\ Len(control') = Len(middle) + n
      /\ \A i \in 1..Len(control') :
           control'[i] = IF i <= Len(middle) THEN middle[i] ELSE ends[i - Len(middle)]
  <2>1. \A f, g \in Seq(FrameSet) :
          /\ f \o g \in Seq(FrameSet) /\ Len(f \o g) = Len(f) + Len(g)
          /\ \A i \in 1..Len(f) + Len(g) :
               (f \o g)[i] = IF i <= Len(f) THEN f[i] ELSE g[i - Len(f)]
    BY ConcatProperties
  <2>2. QED
    BY <1>4, <1>6, <1>8, <2>1
<1>10. Len(control) \in Nat /\ Len(middle) \in Nat
  BY <1>1, <1>6
<1>11. Len(control) <= Len(control') /\ \A i \in 1..Len(control) : control'[i] = control[i]
  BY <1>2, <1>6, <1>9, <1>10
<1>12. eos # {} /\ eos \subseteq {wGeneration} => n = 1
  BY FS_Singleton DEF n
<1>13. ASSUME NEW i \in 1..Len(control')
       PROVE  \/ i \in 1..Len(control)
              \/ wFailure # "none" /\ control'[i] = error1
              \/ /\ eos # {} /\ (eos \subseteq {wGeneration} => i = Len(control'))
                 /\ control'[i] = end1
  <2>1. CASE i <= Len(middle)
    BY <1>6, <1>9, <1>10, <2>1
  <2>2. CASE ~(i <= Len(middle))
    <3>1. i - Len(middle) \in 1..n /\ n # 0 /\ (n = 1 => i = Len(control'))
      BY <1>2, <1>9, <1>10, <2>2
    <3>2. control'[i] = end1 /\ eos # {}
      BY <1>2, <1>4, <1>9, <2>2, <3>1
    <3>3. QED
      BY <1>12, <3>1, <3>2
  <2>3. QED
    BY <2>1, <2>2
<1>14. QED
  BY <1>9, <1>11, <1>13 DEF error1, end1

LEMMA AckFrames ==
  ASSUME RestTypeOK, WorkerTypeOK, LoopAck
  PROVE  /\ control' \in Seq(FrameSet) /\ Len(control) <= Len(control')
         /\ \A i \in 1..Len(control) : control'[i] = control[i]
         /\ \A i \in 1..Len(control') :
              \/ i \in 1..Len(control)
              \/ /\ ready /\ ~readySent /\ i = Len(control) + 1
                 /\ control'[i] = Frame("READY", TRUE, wGeneration, wRequest)
              \/ /\ controlReady # "none" /\ thread = "none" /\ i = Len(control')
                 /\ control'[i] = ControlFrame(wGeneration, wRequest, controlReady,
                                               IF paused THEN "paused" ELSE "playing")
<1> DEFINE ready1 == Frame("READY", TRUE, wGeneration, wRequest)
           ack1 == ControlFrame(wGeneration, wRequest, controlReady,
                                IF paused THEN "paused" ELSE "playing")
           acked == controlReady # "none" /\ thread = "none"
           middle == IF ready /\ ~readySent THEN Append(control, ready1) ELSE control
<1>1. control \in Seq(FrameSet) /\ ready1 \in FrameSet /\ (acked => ack1 \in FrameSet)
  BY FramesMade DEF RestTypeOK, WorkerTypeOK
<1>2. control' = control \o (IF ready /\ ~readySent THEN <<ready1>> ELSE << >>)
                         \o (IF acked THEN <<ack1>> ELSE << >>)
  BY DEF LoopAck
<1> HIDE DEF ready1, ack1, acked
<1>3. control \o (IF ready /\ ~readySent THEN <<ready1>> ELSE << >>) = middle
  BY <1>1, Joined
<1>4. /\ middle \in Seq(FrameSet) /\ Len(control) <= Len(middle)
      /\ \A i \in 1..Len(control) : middle[i] = control[i]
      /\ \A i \in 1..Len(middle) :
           i \in 1..Len(control) \/ (ready /\ ~readySent /\ i = Len(control) + 1 /\ middle[i] = ready1)
  BY <1>1, AddedAppend DEF Added
<1>5. control' = IF acked THEN Append(middle, ack1) ELSE middle
  <2> HIDE DEF middle
  <2>1. QED
    BY <1>1, <1>2, <1>3, <1>4, Joined
<1> HIDE DEF middle
<1>6. CASE ~acked
  BY <1>4, <1>5, <1>6 DEF ready1
<1>7. CASE acked
  <2>1. control' \in Seq(FrameSet) /\ Added(middle, control', ack1)
    BY <1>1, <1>4, <1>5, <1>7, AddedAppend
  <2>2. Len(control) \in Nat /\ Len(middle) \in Nat
    BY <1>1, <1>4
  <2>3. /\ Len(control') = Len(middle) + 1 /\ control'[Len(control')] = ack1
        /\ \A i \in 1..Len(middle) : control'[i] = middle[i]
    BY <2>1, <2>2 DEF Added
  <2>4. ASSUME NEW i \in 1..Len(control')
        PROVE  \/ i \in 1..Len(control)
               \/ ready /\ ~readySent /\ i = Len(control) + 1 /\ control'[i] = ready1
               \/ i = Len(control') /\ control'[i] = ack1
    <3>1. CASE i = Len(control')
      BY <2>3, <3>1
    <3>2. CASE i # Len(control')
      <4>1. i \in 1..Len(middle)
        BY <2>2, <2>3, <3>2
      <4>2. QED
        BY <1>4, <2>3, <4>1
    <3>3. QED
      BY <3>1, <3>2
  <2>5. Len(control) <= Len(control') /\ \A i \in 1..Len(control) : control'[i] = control[i]
    BY <1>4, <2>2, <2>3
  <2>6. QED
    BY <1>7, <2>1, <2>4, <2>5 DEF ready1, ack1, acked
<1>8. QED
  BY <1>6, <1>7

\* Reading a command, by kind.
LEMMA CommandTaken ==
  ASSUME commands \in Seq(CommandSet), LoopCommand
  PROVE  /\ Dropped(commands, commands') /\ commands' \in Seq(CommandSet)
         /\ Head(commands) = commands[1] /\ Head(commands) \in CommandSet /\ 1 \in 1..Len(commands)
         /\ loop = "command" /\ exit = "running"
  BY DroppedTail DEF LoopCommand, Running

Rejects == /\ wFailure' = Failing("protocol")
           /\ UNCHANGED <<opened, wRequest, closeRequest, done, ipcVars, controlVars>>

\* What LoopCommand does with its command.
LEMMA CommandCases ==
  ASSUME LoopCommand, NEW m, m = Head(commands)
  PROVE  /\ loop' = "bus"
         /\ UNCHANGED <<control, data, secrets, exit, streamVars, pipeline, error, rtspVars,
                        wGeneration, ready, readySent>>
         /\ \/ /\ m.kind = "EOF" /\ done' = TRUE
               /\ wFailure' = IF secrets = "destroyed" THEN Failing("native") ELSE wFailure
               /\ UNCHANGED <<opened, wRequest, closeRequest, ipcVars, controlVars>>
            \/ /\ m.kind = "OPEN" /\ ~opened /\ opened' = TRUE /\ wRequest' = m.seq
               /\ UNCHANGED <<closeRequest, done, wFailure, ipcVars, controlVars>>
            \/ /\ m.kind = "CLOSE" /\ ~Mismatch(m) /\ done' = TRUE /\ closeRequest' = m.seq
               /\ UNCHANGED <<opened, wRequest, wFailure, ipcVars, controlVars>>
            \/ /\ m.kind = "CREDIT" /\ ~Mismatch(m) /\ pipeline /\ ~(m.units > QueueUnits - credits)
               /\ credits' = credits + m.units
               /\ UNCHANGED <<opened, wRequest, closeRequest, done, wFailure, accepting, suspended,
                              resuming, passed, sending, frames, wSequence, controlVars>>
            \/ /\ m.kind \notin {"EOF", "OPEN", "CLOSE", "CREDIT"}
               /\ ~Mismatch(m) /\ pipeline /\ ~Busy(m) /\ TakeControl(m)
               /\ UNCHANGED <<opened, closeRequest, done>>
            \/ /\ Rejects
               /\ \/ m.kind = "OPEN" /\ opened
                  \/ m.kind \notin {"EOF", "OPEN"} /\ Mismatch(m)
                  \/ m.kind = "CREDIT" /\ (~pipeline \/ m.units > QueueUnits - credits)
                  \/ /\ m.kind \notin {"EOF", "OPEN", "CLOSE", "CREDIT"}
                     /\ ~pipeline \/ Busy(m)
<1> USE DEF Rejects
<1>1. CASE m.kind = "EOF"
  BY <1>1 DEF LoopCommand
<1>2. CASE m.kind = "OPEN"
  BY <1>2 DEF LoopCommand
<1>3. CASE m.kind = "CLOSE"
  BY <1>3 DEF LoopCommand
<1>4. CASE m.kind = "CREDIT"
  BY <1>4 DEF LoopCommand
<1>5. CASE m.kind \notin {"EOF", "OPEN", "CLOSE", "CREDIT"}
  BY <1>5 DEF LoopCommand
<1>6. QED
  BY <1>1, <1>2, <1>3, <1>4, <1>5

LEMMA WorkerTypes ==
  ASSUME LinkAssumption, LinkTypeOK, WorkerNext, UNCHANGED sessionVars
  PROVE  LinkTypeOK'
<1> USE DEF LinkTypeOK
<1> DEFINE SessionKept == ClosingTypeOK' /\ RestTypeOK'
<1>1. /\ UNCHANGED <<state, generation, expectedGeneration, openSent, commandSequence, closeSequence,
                     dataSequence, pending, abandoned, ending, staged, held, creditUnits,
                     outstandingUnits, receipt>>
  BY DEF sessionVars
<1>2. ASSUME secrets' = secrets, commands' \in Seq(CommandSet), control' \in Seq(FrameSet),
             data' \in Seq(UnitSet), exit' \in {"running", "0", "2", "3", "killed", "crashed"}
      PROVE  SessionKept
  BY <1>1, <1>2 DEF ClosingTypeOK, RestTypeOK
<1>3. /\ commands \in Seq(CommandSet) /\ control \in Seq(FrameSet) /\ data \in Seq(UnitSet)
      /\ exit \in {"running", "0", "2", "3", "killed", "crashed"}
  BY DEF ClosingTypeOK, RestTypeOK
<1> HIDE DEF SessionKept
<1>4. ASSUME UNCHANGED pipes PROVE SessionKept
  BY <1>2, <1>3, <1>4 DEF pipes
<1>5. << >> \in Seq(UnitSet)
  OBVIOUS
<1>6. CASE LoopIdle
  BY <1>4, <1>6 DEF LoopIdle, WorkerTypeOK, ipcVars, streamVars, openVars, controlVars, rtspVars,
                    SessionKept
<1>7. CASE LoopCommand
  <2> DEFINE m == Head(commands)
  <2>1. m \in CommandSet /\ commands' \in Seq(CommandSet)
    BY <1>3, <1>7, CommandTaken
  <2>2. /\ m.kind \in Commands /\ m.gen \in Nat /\ m.seq \in Nat /\ m.units \in Nat
    BY <2>1, CommandTypes
  <2> HIDE DEF m
  <2>3. /\ loop' = "bus"
        /\ UNCHANGED <<control, data, secrets, exit, streamVars, pipeline, error, rtspVars,
                       wGeneration, ready, readySent>>
    BY <1>7, CommandCases DEF m
  <2>4. SessionKept
    BY <1>2, <1>3, <2>1, <2>3
  <2>5. opened' \in BOOLEAN /\ wRequest' \in Nat /\ closeRequest' \in Nat /\ done' \in BOOLEAN
    BY <1>7, <2>2, CommandCases DEF WorkerTypeOK, m, Rejects, TakeControl
  <2>6. Len(frames) \in Nat /\ (m.kind \notin {"EOF", "OPEN", "CLOSE", "CREDIT"} => m.kind \in Kinds)
    BY <2>2 DEF Commands, WorkerTypeOK
  <2>7. CASE UNCHANGED ipcVars /\ UNCHANGED controlVars
    BY <2>3, <2>4, <2>5, <2>7 DEF WorkerTypeOK, streamVars, rtspVars, ipcVars, controlVars,
                                  SessionKept
  <2>8. CASE /\ credits' = credits + m.units
             /\ UNCHANGED <<accepting, suspended, resuming, passed, sending, frames, wSequence,
                            controlVars>>
    BY <2>2, <2>3, <2>4, <2>5, <2>8 DEF WorkerTypeOK, streamVars, rtspVars, controlVars, SessionKept
  <2>9. CASE m.kind \notin {"EOF", "OPEN", "CLOSE", "CREDIT"} /\ TakeControl(m)
    <3>1. /\ accepting' \in BOOLEAN /\ frames' \in Seq(UnitSet) /\ credits' = credits + Len(frames)
          /\ UNCHANGED <<sending, wSequence, controlReady, paused>>
          /\ pendingControl' = m.kind /\ pendingControl' \in Kinds /\ thread' = "starting"
          /\ pendingGeneration' \in {pendingGeneration, wGeneration + 1}
      BY <1>5, <2>6, <2>9 DEF TakeControl
    <3>2. WorkerTypeOK'
      BY <2>3, <2>5, <2>6, <3>1 DEF WorkerTypeOK, streamVars, rtspVars
    <3>3. QED
      BY <2>4, <3>2 DEF SessionKept
  <2>10. QED
    BY <1>7, <2>7, <2>8, <2>9, CommandCases DEF m, Rejects
<1>8. CASE OpenNative
  BY <1>4, <1>8 DEF OpenNative, WorkerTypeOK, LinkAssumption, streamVars, controlVars, loopVars,
                    rtspVars, SessionKept
<1>9. CASE LoopBus
  <2>1. SessionKept
    BY <1>2, <1>3, <1>9, BusFrames DEF LoopBus
  <2>2. WorkerTypeOK'
    <3>1. /\ eos' \in SUBSET Nat /\ IsFiniteSet(eos') /\ relabelled' \in SUBSET Nat
          /\ done' \in BOOLEAN /\ loop' \in {"close", "ack"}
      BY <1>9, FS_EmptySet DEF LoopBus, WorkerTypeOK
    <3>2. UNCHANGED <<ipcVars, streamEnded, openVars, controlVars, closeRequest, rtspVars,
                      wGeneration, wRequest, ready, readySent>>
      BY <1>9 DEF LoopBus
    <3>3. QED
      BY <3>1, <3>2 DEF WorkerTypeOK, ipcVars, openVars, controlVars, rtspVars
  <2>3. QED
    BY <2>1, <2>2 DEF SessionKept
<1>10. CASE LoopAck
  <2>1. SessionKept
    BY <1>2, <1>3, <1>10, AckFrames DEF LoopAck
  <2>2. WorkerTypeOK'
    BY <1>10 DEF LoopAck, WorkerTypeOK, ipcVars, streamVars, openVars, rtspVars
  <2>3. QED
    BY <2>1, <2>2 DEF SessionKept
<1>11. CASE SendControl
  BY <1>4, <1>11 DEF SendControl, WorkerTypeOK, ipcVars, streamVars, openVars, loopVars, SessionKept
<1>12. CASE ThreadEnds
  BY <1>4, <1>12 DEF ThreadEnds, WorkerTypeOK, ipcVars, streamVars, openVars, loopVars, rtspVars,
                     SessionKept
<1>13. CASE Setup
  BY <1>4, <1>13 DEF Setup, WorkerTypeOK, ipcVars, streamVars, openVars, controlVars, loopVars,
                     SessionKept
<1>14. CASE PlayAccepted
  BY ZenonT(30), <1>4, <1>14 DEF PlayAccepted, WorkerTypeOK, openVars, loopVars, SessionKept
<1>15. CASE PauseAccepted
  BY <1>4, <1>15 DEF PauseAccepted, WorkerTypeOK, ipcVars, streamVars, openVars, loopVars,
                     SessionKept
<1>16. CASE NativeFailure
  BY <1>4, <1>16 DEF NativeFailure, WorkerTypeOK, ipcVars, streamVars, openVars, controlVars,
                     loopVars, SessionKept
<1>17. CASE Expire
  BY <1>4, <1>17 DEF Expire, WorkerTypeOK, ipcVars, streamVars, openVars, controlVars, loopVars,
                     SessionKept
<1>18. CASE SendCheck \/ SendData \/ ResumeIpc
  <2>1. UNCHANGED pipes
    BY <1>18 DEF SendCheck, SendData, ResumeIpc
  <2>2. /\ sending' \in Nat /\ UNCHANGED <<accepting, frames, credits, wSequence>>
        /\ UNCHANGED <<streamVars, openVars, controlVars, loopVars, rtspVars, wGeneration, wRequest,
                       ready, readySent>>
    BY <1>18 DEF SendCheck, SendData, ResumeIpc, WorkerTypeOK
  <2>3. WorkerTypeOK'
    BY <2>2 DEF WorkerTypeOK, streamVars, openVars, controlVars, loopVars, rtspVars
  <2>4. QED
    BY <1>4, <2>1, <2>3 DEF SessionKept
<1>19. CASE MediaIpcData
  <2>1. [gen |-> sending, seq |-> wSequence + 1] \in UnitSet
    BY DEF WorkerTypeOK, UnitSet
  <2>2. frames' \in Seq(UnitSet) /\ credits' \in Nat /\ wSequence' \in Nat /\ sending' \in Nat
    <3>1. CASE ~suspended /\ Room
      <4>1. frames \in Seq(UnitSet) /\ credits \in Nat /\ wSequence \in Nat /\ credits > 0
        BY <3>1 DEF WorkerTypeOK, Room
      <4>2. frames' = Append(frames, [gen |-> sending, seq |-> wSequence + 1])
        BY <1>19, <3>1 DEF MediaIpcData
      <4>3. QED
        BY <1>19, <2>1, <3>1, <4>1, <4>2, AddedAppend DEF MediaIpcData
    <3>2. CASE ~(~suspended /\ Room)
      BY <1>19, <3>2 DEF MediaIpcData, WorkerTypeOK
    <3>3. QED
      BY <3>1, <3>2
  <2>3. WorkerTypeOK'
    BY <1>19, <2>2 DEF MediaIpcData, WorkerTypeOK, streamVars, openVars, controlVars, loopVars,
                       rtspVars
  <2>4. QED
    BY <1>4, <1>19, <2>3 DEF MediaIpcData, SessionKept
<1>20. CASE Writer
  <2>1. frames \in Seq(UnitSet) /\ frames # << >>
    BY <1>20 DEF Writer, WorkerTypeOK
  <2>2. frames' \in Seq(UnitSet) /\ data' \in Seq(UnitSet)
    BY <1>3, <1>20, <2>1, DroppedTail, AddedAppend DEF Writer
  <2>3. SessionKept
    BY <1>2, <1>3, <1>20, <2>2 DEF Writer
  <2>4. WorkerTypeOK'
    BY <1>20, <2>2 DEF Writer, WorkerTypeOK, streamVars, openVars, controlVars, loopVars, rtspVars
  <2>5. QED
    BY <2>3, <2>4 DEF SessionKept
<1>21. CASE EndOfStream
  <2>1. eos' \in SUBSET Nat /\ IsFiniteSet(eos') /\ streamEnded' \in BOOLEAN
    BY <1>21, FS_AddElement DEF EndOfStream, WorkerTypeOK
  <2>2. QED
    BY <1>4, <1>21, <2>1 DEF EndOfStream, WorkerTypeOK, ipcVars, openVars, controlVars, loopVars,
                             rtspVars, SessionKept
<1>22. ASSUME NEW teardown \in {"ok", "gone", "none"}, NEW local \in BOOLEAN,
              CloseNative(teardown, local)
       PROVE  LinkTypeOK'
  <2>1. Remote(teardown) \in Remotes
    BY <1>22 DEF Remote, Remotes
  <2>2. ClosedFrame(opened, wGeneration, closeRequest, Remote(teardown), local) \in FrameSet
    BY <2>1, FramesMade DEF WorkerTypeOK
  <2>3. control' \in Seq(FrameSet)
    BY <1>3, <1>22, <2>2, AddedAppend DEF CloseNative
  <2>4. SessionKept
    BY <1>2, <1>3, <1>22, <2>3 DEF CloseNative
  <2>5. server' \in {"none", "alive", "ended"}
    BY <1>22 DEF CloseNative, WorkerTypeOK
  <2>6. WorkerTypeOK'
    <3>1. /\ accepting' \in BOOLEAN /\ frames' \in Seq(UnitSet)
          /\ UNCHANGED <<sending, credits, wSequence, streamVars, openVars, controlVars, loopVars,
                         setupSent, rtsp, wGeneration, wRequest, ready, readySent>>
      BY <1>5, <1>22 DEF CloseNative
    <3>2. QED
      BY <2>5, <3>1 DEF WorkerTypeOK, streamVars, openVars, controlVars, loopVars
  <2>7. QED
    BY <2>4, <2>6 DEF SessionKept
<1>23. CASE Crash
  <2>1. SessionKept
    BY <1>2, <1>3, <1>23 DEF Crash
  <2>2. WorkerTypeOK'
    BY <1>23 DEF Crash, WorkerTypeOK, workerVars, ipcVars, streamVars, openVars, controlVars,
                 loopVars, rtspVars
  <2>3. QED
    BY <2>1, <2>2 DEF SessionKept
<1>24. QED
  BY <1>6, <1>7, <1>8, <1>9, <1>10, <1>11, <1>12, <1>13, <1>14, <1>15, <1>16, <1>17, <1>18, <1>19,
     <1>20, <1>21, <1>22, <1>23 DEF WorkerNext

-----------------------------------------------------------------------------
\* The end of a session: what a failure does to it.
LEMMA FailSettles ==
  ASSUME Settled, NEW c, Fail(c), UNCHANGED receipt
  PROVE  Settled'
<1>1. CASE Open
  <2>1. ~Open' /\ Idle' /\ held' = {} /\ staged' = << >> /\ creditUnits' = 0 /\ ending' = NoEnd
    BY <1>1 DEF Fail, BeginClose, Open, Idle
  <2>2. QED
    BY <2>1 DEF Settled
<1>2. CASE ~Open
  BY <1>2 DEF Fail, Settled, Open, Idle
<1>3. QED
  BY <1>1, <1>2

LEMMA SessionSettles ==
  ASSUME LinkTypeOK, Settled, SessionNext
  PROVE  Settled'
<1> USE DEF Settled
<1>1. CASE Close
  <2>1. ~Open' /\ Idle' /\ held' = {} /\ staged' = << >> /\ creditUnits' = 0 /\ ending' = NoEnd
    BY <1>1 DEF Close, BeginClose, Open, Idle
  <2>2. QED
    BY <2>1
<1>2. CASE Abort \/ OpenDeadline \/ ControlDeadline \/ EndDeadline \/ PipeEnd \/ OnError
  BY <1>2, FailSettles DEF Abort, OpenDeadline, ControlDeadline, EndDeadline, PipeEnd, OnError,
                           restVars
<1>3. CASE SendOpen \/ OnHello
  BY <1>3 DEF SendOpen, OnHello, Received, sessionVars, Open, Idle
<1>4. CASE OnReady
  BY <1>4, FailSettles DEF OnReady, closeVars, Open, Idle
<1>5. CASE OnControl
  <2>1. CASE \E c : Fail(c)
    BY <1>5, <2>1, FailSettles DEF OnControl
  <2>2. CASE /\ state = "closing"
             /\ UNCHANGED <<state, failure, ending, pending, staged, held, creditUnits, secrets,
                            timer, commandSequence, closeSequence, commands, generation>>
    BY <2>2 DEF Open, Idle
  <2>3. CASE /\ state # "closing" /\ state' \in {"playing", "paused"}
             /\ UNCHANGED <<abandoned, timer, closeSequence, receipt>>
    <3>1. state # "closed"
      BY <1>5 DEF OnControl, Received
    <3>2. Open /\ Open'
      BY <2>3, <3>1 DEF Open, LinkTypeOK, ClosingTypeOK
    <3>3. QED
      BY <2>3, <3>2
  <2>4. QED
    BY <1>5, <2>1, <2>2, <2>3 DEF OnControl, StateAfter
<1>6. CASE OnClosed
  <2>1. CASE \E c : Fail(c) /\ UNCHANGED receipt
    BY <2>1, FailSettles
  <2>2. CASE Open /\ BeginClose("native", FALSE)
    <3>1. ~Open' /\ Idle' /\ held' = {} /\ staged' = << >> /\ creditUnits' = 0 /\ ending' = NoEnd
      BY <2>2 DEF BeginClose, Open, Idle
    <3>2. QED
      BY <3>1
  <2>3. CASE ~Open /\ UNCHANGED closeVars
    BY <2>3 DEF closeVars, Open, Idle
  <2>4. QED
    BY <1>6, <2>1, <2>2, <2>3 DEF OnClosed
<1>7. CASE OnEnd
  <2>1. CASE \E c : Fail(c)
    BY <1>7, <2>1, FailSettles DEF OnEnd, restVars
  <2>2. CASE /\ Open \/ ending' = ending
             /\ UNCHANGED <<state, failure, abandoned, pending, staged, held, creditUnits, secrets,
                            timer, commandSequence, closeSequence, commands>>
    BY <1>7, <2>2 DEF OnEnd, restVars, Open, Idle
  <2>3. QED
    BY <1>7, <2>1, <2>2 DEF OnEnd
<1>8. CASE OnData
  <2>1. CASE \E c : Fail(c)
    BY <1>8, <2>1, FailSettles DEF OnData
  <2>2. CASE UNCHANGED closeVars
    BY <1>8, <2>2 DEF OnData, closeVars, Open, Idle
  <2>3. CASE Open /\ UNCHANGED <<state, failure, abandoned, pending, secrets, timer,
                                 commandSequence, closeSequence, commands>>
    BY <1>8, <2>3 DEF OnData, Open, Idle
  <2>4. QED
    BY <1>8, <2>1, <2>2, <2>3 DEF OnData
<1>9. ASSUME NEW u \in held, Consume(u) PROVE Settled'
  BY <1>9 DEF Consume, Open, Idle
<1>10. CASE FlushCredits
  BY <1>10, FailSettles DEF FlushCredits, Open, Idle
<1>11. ASSUME NEW kind \in Kinds, IssueControl(kind) PROVE Settled'
  BY <1>11 DEF IssueControl, Open
<1>12. CASE CloseDeadline
  BY <1>12 DEF CloseDeadline, Open, Idle
<1>13. ASSUME NEW observed, Exited(observed) PROVE Settled'
  BY <1>13 DEF Exited, Open, Idle
<1>14. QED
  BY <1>1, <1>2, <1>3, <1>4, <1>5, <1>6, <1>7, <1>8, <1>9, <1>10, <1>11, <1>12, <1>13 DEF SessionNext

\* What the session's steps do to the rest of a close.
SessionWrites ==
  \/ UNCHANGED <<commands, openSent, closeSequence>>
  \/ /\ UNCHANGED openSent
     /\ \E m \in CommandSet : commands' = Append(commands, m) /\ m.kind # "OPEN"
  \/ openSent' /\ \E m \in CommandSet : commands' = Append(commands, m)

LEMMA SessionCommands ==
  ASSUME LinkAssumption, LinkTypeOK, SessionNext
  PROVE  SessionWrites
<1> USE DEF SessionWrites
<1>1. /\ \A n \in Nat : /\ Command("CLOSE", generation, n, 0) \in CommandSet
                        /\ Command("OPEN", 0, n, 0) \in CommandSet
                        /\ Command("CREDIT", generation, 0, n) \in CommandSet
                        /\ \A kind \in Kinds : Command(kind, generation, n, 0) \in CommandSet
      /\ Command("EOF", 0, 0, 0) \in CommandSet
  BY CommandTypes DEF Commands, LinkTypeOK, RestTypeOK
<1>2. /\ \A k, g, s, n : Command(k, g, s, n).kind = k
      /\ commandSequence + 1 \in Nat /\ creditUnits \in Nat
  BY DEF Command, LinkTypeOK, ClosingTypeOK
<1>3. ASSUME NEW c, NEW a, BeginClose(c, a), UNCHANGED openSent
      PROVE  SessionWrites
  BY <1>1, <1>2, <1>3 DEF BeginClose
<1>4. ASSUME NEW c, Fail(c), UNCHANGED openSent
      PROVE  SessionWrites
  BY <1>3, <1>4 DEF Fail
<1> HIDE DEF SessionWrites
<1>5. CASE Close
  BY <1>3, <1>5 DEF Close, restVars
<1>6. CASE Abort \/ OpenDeadline \/ ControlDeadline \/ EndDeadline \/ PipeEnd \/ OnError
  BY <1>4, <1>6 DEF Abort, OpenDeadline, ControlDeadline, EndDeadline, PipeEnd, OnError, restVars
<1>7. CASE OnReady
  BY <1>4, <1>7 DEF OnReady, closeVars, SessionWrites
<1>8. CASE OnControl
  BY <1>4, <1>8 DEF OnControl, SessionWrites
<1>9. CASE OnClosed
  BY <1>3, <1>4, <1>9 DEF OnClosed, closeVars, SessionWrites
<1>10. CASE OnEnd
  <2>1. UNCHANGED openSent
    BY <1>10 DEF OnEnd, restVars
  <2>2. QED
    BY <1>4, <1>10, <2>1 DEF OnEnd, SessionWrites
<1>11. CASE OnData
  BY <1>4, <1>11 DEF OnData, closeVars, SessionWrites
<1>12. CASE FlushCredits
  BY <1>1, <1>2, <1>4, <1>12 DEF FlushCredits, SessionWrites
<1>13. ASSUME NEW kind \in Kinds, IssueControl(kind) PROVE SessionWrites
  <2>1. kind # "OPEN"
    BY DEF LinkAssumption
  <2>2. QED
    BY <1>1, <1>2, <1>13, <2>1 DEF IssueControl, SessionWrites
<1>14. CASE SendOpen \/ OnHello \/ CloseDeadline \/ \E observed : Exited(observed)
  BY <1>1, <1>2, <1>14 DEF SendOpen, OnHello, CloseDeadline, Exited, SessionWrites, sessionVars
<1>15. ASSUME NEW u \in held, Consume(u) PROVE SessionWrites
  BY <1>15 DEF Consume, SessionWrites, pipes
<1>16. QED
  BY <1>5, <1>6, <1>7, <1>8, <1>9, <1>10, <1>11, <1>12, <1>13, <1>14, <1>15 DEF SessionNext

\* The steps of the session but its deadline and exit: a frame is taken or not,
\* and only CLOSED brings a receipt.
Listens ==
  /\ state # "closed" /\ state' # "closed"
  /\ exit' = exit
  /\ control' = control \/ Dropped(control, control')
  /\ \/ UNCHANGED receipt
     \/ /\ Dropped(control, control') /\ control[1].kind = "CLOSED" /\ receipt = NoReceipt
        /\ receipt' = [remote |-> control[1].remote, localCleanup |-> control[1].localCleanup]

LEMMA SessionListens ==
  ASSUME LinkTypeOK, SessionNext
  PROVE  Listens \/ CloseDeadline \/ \E observed : Exited(observed)
<1> USE DEF Listens
<1>1. ASSUME NEW c, Fail(c), state # "closed" PROVE state' # "closed"
  BY <1>1 DEF Fail, BeginClose
<1>2. control \in Seq(FrameSet)
  BY DEF LinkTypeOK, RestTypeOK
<1>3. CASE Close
  BY <1>3 DEF Close, BeginClose, Open, restVars
<1>4. CASE Abort \/ OpenDeadline \/ ControlDeadline \/ EndDeadline
  BY <1>1, <1>4 DEF Abort, OpenDeadline, ControlDeadline, EndDeadline, restVars, Open
<1>5. CASE PipeEnd
  BY <1>1, <1>5 DEF PipeEnd, restVars, Open
<1>6. CASE SendOpen
  BY <1>6 DEF SendOpen
<1>7. CASE OnHello
  BY <1>2, <1>7, FrameTaken DEF OnHello, sessionVars
<1>8. CASE OnReady
  <2>1. Dropped(control, control') /\ state # "closed" /\ UNCHANGED <<exit, receipt>>
    BY <1>2, <1>8, FrameTaken DEF OnReady
  <2>2. state' # "closed"
    BY <1>1, <1>8, <2>1 DEF OnReady, closeVars
  <2>3. QED
    BY <2>1, <2>2
<1>9. CASE OnControl
  <2>1. Dropped(control, control') /\ state # "closed" /\ UNCHANGED <<exit, receipt>>
    BY <1>2, <1>9, FrameTaken DEF OnControl
  <2>2. state' # "closed"
    BY <1>1, <1>9, <2>1 DEF OnControl, StateAfter
  <2>3. QED
    BY <2>1, <2>2
<1>10. CASE OnClosed
  <2>1. /\ Dropped(control, control') /\ state # "closed" /\ UNCHANGED exit
        /\ Head(control) = control[1] /\ control[1].kind = "CLOSED"
    BY <1>2, <1>10, FrameTaken DEF OnClosed
  <2>2. \/ UNCHANGED receipt
        \/ /\ receipt = NoReceipt
           /\ receipt' = [remote |-> control[1].remote, localCleanup |-> control[1].localCleanup]
    BY <1>10, <2>1 DEF OnClosed
  <2>3. state' # "closed"
    BY <1>1, <1>10, <2>1 DEF OnClosed, closeVars, BeginClose
  <2>4. QED
    BY <2>1, <2>2, <2>3
<1>11. CASE OnError
  BY <1>1, <1>2, <1>11, FrameTaken DEF OnError, restVars
<1>12. CASE OnEnd
  <2>1. Dropped(control, control') /\ state # "closed" /\ UNCHANGED <<exit, receipt>>
    BY <1>2, <1>12, FrameTaken DEF OnEnd, restVars
  <2>2. state' # "closed"
    BY <1>1, <1>12, <2>1 DEF OnEnd
  <2>3. QED
    BY <2>1, <2>2
<1>13. CASE OnData
  <2>1. state # "closed" /\ UNCHANGED <<exit, receipt, control>>
    BY <1>13 DEF OnData
  <2>2. state' # "closed"
    BY <1>1, <1>13, <2>1 DEF OnData, closeVars
  <2>3. QED
    BY <2>1, <2>2
<1>14. ASSUME NEW u \in held, Consume(u) PROVE Listens
  BY <1>14 DEF Consume, pipes, Open
<1>15. CASE FlushCredits
  BY <1>1, <1>15 DEF FlushCredits, Open
<1>16. ASSUME NEW kind \in Kinds, IssueControl(kind) PROVE Listens
  BY <1>16 DEF IssueControl
<1>17. QED
  BY <1>3, <1>4, <1>5, <1>6, <1>7, <1>8, <1>9, <1>10, <1>11, <1>12, <1>13, <1>14, <1>15, <1>16
     DEF SessionNext

\* The frames that a step took none of, or the first one of.
LEMMA LeftOver ==
  ASSUME control \in Seq(FrameSet), control' \in Seq(FrameSet),
         control' = control \/ Dropped(control, control')
  PROVE  \A i \in 1..Len(control') : \E k \in 1..Len(control) :
           /\ control'[i] = control[k]
           /\ \/ k = i /\ control' = control
              \/ k = i + 1 /\ Dropped(control, control')
<1>1. Len(control) \in Nat
  OBVIOUS
<1>2. CASE control' = control
  BY <1>2
<1>3. CASE Dropped(control, control')
  <2> TAKE i \in 1..Len(control')
  <2>1. control'[i] = control[i + 1] /\ i + 1 \in 1..Len(control)
    BY <1>1, <1>3 DEF Dropped
  <2>2. QED
    BY <1>3, <2>1
<1>4. QED
  BY <1>2, <1>3

LEMMA SessionEndings ==
  ASSUME LinkTypeOK, LinkTypeOK', LastWord, ReceiptTrue, ResultTrue, SessionNext,
         UNCHANGED workerVars
  PROVE  LastWord' /\ ReceiptTrue' /\ ResultTrue'
<1> USE DEF LastWord, ReceiptTrue, ResultTrue, True
<1>1. control \in Seq(FrameSet) /\ control' \in Seq(FrameSet) /\ UNCHANGED server
  BY DEF LinkTypeOK, RestTypeOK, workerVars, rtspVars
<1>2. CASE Listens /\ UNCHANGED receipt
  <2>1. \A i \in 1..Len(control') : \E k \in 1..Len(control) :
           /\ control'[i] = control[k]
           /\ \/ k = i /\ control' = control
              \/ k = i + 1 /\ Dropped(control, control')
    BY <1>1, <1>2, LeftOver DEF Listens
  <2>2. \A i \in 1..Len(control') : control'[i].kind = "CLOSED" =>
          /\ exit' # "running" /\ receipt' = NoReceipt /\ control'[i].remote # "none"
          /\ control'[i].remote # "uncertain" => server' # "alive"
    BY <1>1, <1>2, <2>1 DEF Listens
  <2>3. ASSUME NEW i \in 1..Len(control'), NEW j \in 1..Len(control'),
               control'[i].kind = "CLOSED", control'[j].kind = "CLOSED"
        PROVE  i = j
    <3>1. PICK k \in 1..Len(control) :
             /\ control'[i] = control[k]
             /\ (k = i /\ control' = control) \/ (k = i + 1 /\ Dropped(control, control'))
      BY <2>1
    <3>2. PICK l \in 1..Len(control) :
             /\ control'[j] = control[l]
             /\ (l = j /\ control' = control) \/ (l = j + 1 /\ Dropped(control, control'))
      BY <2>1
    <3>3. k = l
      BY <2>3, <3>1, <3>2
    <3>4. QED
      BY <1>1, <3>1, <3>2, <3>3 DEF Dropped
  <2>4. LastWord'
    BY <2>2, <2>3
  <2>5. QED
    BY <1>1, <1>2, <2>4 DEF Listens
<1>3. CASE /\ Listens /\ Dropped(control, control') /\ control[1].kind = "CLOSED"
           /\ receipt = NoReceipt
           /\ receipt' = [remote |-> control[1].remote, localCleanup |-> control[1].localCleanup]
  <2>1. 1 \in 1..Len(control)
    BY <1>1, <1>3 DEF Dropped
  <2>2. exit # "running" /\ True(control[1].remote)
    BY <1>3, <2>1
  <2>3. ASSUME NEW i \in 1..Len(control') PROVE control'[i].kind # "CLOSED"
    <3>1. control'[i] = control[i + 1] /\ i + 1 \in 1..Len(control) /\ i + 1 # 1
      BY <1>1, <1>3 DEF Dropped
    <3>2. QED
      BY <1>3, <2>1, <3>1
  <2>4. ReceiptTrue'
    BY <1>1, <1>3, <2>2 DEF Listens
  <2>5. QED
    BY <1>3, <2>3, <2>4 DEF Listens
<1>4. CASE CloseDeadline
  <2>1. /\ UNCHANGED <<control, receipt>> /\ state' # "closed"
        /\ exit # "running" => exit' = exit
    BY <1>4 DEF CloseDeadline
  <2>2. QED
    BY <1>1, <2>1
<1>5. ASSUME NEW observed, Exited(observed)
      PROVE  LastWord' /\ ReceiptTrue' /\ ResultTrue'
  <2>1. /\ UNCHANGED <<control, exit, receipt, openSent>>
        /\ result' = Result(observed)
    BY <1>5 DEF Exited
  <2>2. /\ receipt = NoReceipt => result'.remote = IF openSent THEN "uncertain" ELSE "not-created"
        /\ receipt # NoReceipt => result'.remote = receipt.remote
        /\ result'.localCleanup => exit = "0"
        /\ ~result'.failed => result'.remote # "uncertain" /\ exit = "0"
    BY <2>1 DEF Result
  <2>3. QED
    BY <1>1, <2>1, <2>2
<1>6. QED
  BY <1>2, <1>3, <1>4, <1>5, SessionListens DEF Listens

\* OPEN comes first: from the request of the application to the RTSP session.
LEMMA SessionStages ==
  ASSUME LinkAssumption, LinkTypeOK, LinkTypeOK', Stages, SessionNext, UNCHANGED workerVars
  PROVE  Stages'
<1>1. UNCHANGED <<ready, setupSent, rtsp, server, pipeline, opened, thread>>
  BY DEF workerVars, rtspVars, openVars, controlVars
<1>2. openSent => openSent'
  BY SessionCommands DEF SessionWrites
<1>3. commands \in Seq(CommandSet)
  BY DEF LinkTypeOK, ClosingTypeOK
<1>4. \A i \in 1..Len(commands') : commands'[i].kind = "OPEN" => openSent'
  <2>1. CASE UNCHANGED <<commands, openSent, closeSequence>>
    BY <2>1 DEF Stages
  <2>2. CASE openSent'
    BY <2>2
  <2>3. CASE /\ UNCHANGED openSent
             /\ \E m \in CommandSet : commands' = Append(commands, m) /\ m.kind # "OPEN"
    <3>1. PICK m \in CommandSet : commands' = Append(commands, m) /\ m.kind # "OPEN"
      BY <2>3
    <3>2. Added(commands, commands', m)
      BY <1>3, <3>1, AddedAppend
    <3>3. \A i \in 1..Len(commands') : i \in 1..Len(commands) \/ i = Len(commands) + 1
      BY <1>3, <3>2 DEF Added
    <3>4. QED
      BY <2>3, <3>1, <3>2, <3>3 DEF Stages, Added
  <2>4. QED
    BY <2>1, <2>2, <2>3, SessionCommands DEF SessionWrites
<1>5. QED
  BY <1>1, <1>2, <1>4 DEF Stages

LEMMA WorkerStages ==
  ASSUME LinkAssumption, LinkTypeOK, Stages, WorkerNext, UNCHANGED sessionVars
  PROVE  Stages'
<1> USE DEF Stages
<1>1. UNCHANGED openSent
  BY DEF sessionVars
<1>2. CASE LoopCommand
  <2>1. /\ Dropped(commands, commands') /\ commands \in Seq(CommandSet)
        /\ Head(commands) = commands[1] /\ 1 \in 1..Len(commands)
    BY <1>2, CommandTaken DEF LinkTypeOK, ClosingTypeOK
  <2>2. \A i \in 1..Len(commands') : commands'[i] = commands[i + 1] /\ i + 1 \in 1..Len(commands)
    BY <2>1 DEF Dropped
  <2>3. \A i \in 1..Len(commands') : commands'[i].kind = "OPEN" => openSent'
    BY <1>1, <2>2
  <2>4. opened' => opened \/ (opened' /\ commands[1].kind = "OPEN")
    BY <1>2, <2>1, CommandCases DEF Rejects
  <2>5. opened' => openSent'
    BY <1>1, <2>1, <2>4
  <2>6. UNCHANGED <<ready, setupSent, rtsp, server, pipeline>> /\ (opened => opened')
    BY <1>2, CommandCases DEF rtspVars, Rejects
  <2>7. thread' # "none" => thread # "none" \/ ready
    BY <1>2, CommandCases DEF Rejects, TakeControl, controlVars, Busy
  <2>8. QED
    BY <2>3, <2>5, <2>6, <2>7
<1>3. CASE LoopIdle \/ SendCheck \/ SendData \/ ResumeIpc \/ MediaIpcData \/ EndOfStream \/ Expire
  <2>1. /\ UNCHANGED <<commands, opened, pipeline, ready, setupSent, rtsp, thread>>
        /\ server' = "alive" => server = "alive"
    BY <1>3 DEF LoopIdle, SendCheck, SendData, ResumeIpc, MediaIpcData, EndOfStream, Expire, pipes,
                openVars, rtspVars, controlVars
  <2>2. QED
    BY <1>1, <2>1
<1>4. CASE LoopBus \/ LoopAck \/ Writer \/ Crash
  <2>1. UNCHANGED <<commands, opened, pipeline, ready, setupSent, rtsp, server, thread>>
    BY <1>4 DEF LoopBus, LoopAck, Writer, Crash, openVars, rtspVars, controlVars, workerVars
  <2>2. QED
    BY <1>1, <2>1
<1>5. CASE OpenNative
  BY <1>1, <1>5 DEF OpenNative, pipes, rtspVars, controlVars
<1>6. CASE Setup
  BY <1>1, <1>6 DEF Setup, pipes, openVars, controlVars
<1>7. CASE PlayAccepted \/ PauseAccepted \/ NativeFailure \/ ThreadEnds
  <2>1. /\ UNCHANGED <<commands, opened, pipeline, setupSent, server>> /\ thread' \in {thread, "none"}
        /\ (ready => ready') /\ (ready' => ready \/ rtsp = "PLAY")
        /\ rtsp' # "none" => rtsp # "none"
    BY <1>7 DEF PlayAccepted, PauseAccepted, NativeFailure, ThreadEnds, pipes, openVars, controlVars,
                rtspVars
  <2>2. QED
    BY <1>1, <2>1
<1>8. CASE SendControl
  <2>1. /\ UNCHANGED <<commands, opened, pipeline, setupSent, server, ready>>
        /\ thread = "starting" /\ thread' \in {"none", "running"}
    BY <1>8 DEF SendControl, pipes, openVars
  <2>2. QED
    BY <1>1, <2>1
<1>9. ASSUME NEW teardown \in {"ok", "gone", "none"}, NEW local \in BOOLEAN,
             CloseNative(teardown, local)
      PROVE  Stages'
  <2>1. server' = "alive" => server = "alive"
    BY <1>9 DEF CloseNative
  <2>2. QED
    BY <1>1, <1>9, <2>1 DEF CloseNative, openVars, controlVars
<1>10. QED
  BY <1>2, <1>3, <1>4, <1>5, <1>6, <1>7, <1>8, <1>9 DEF WorkerNext

-----------------------------------------------------------------------------
\* What the worker adds to the control pipe is CLOSED only with its exit.
LEMMA WorkerEndings ==
  ASSUME LinkTypeOK, LinkTypeOK', Stages, LastWord, ReceiptTrue, ResultTrue, WorkerNext,
         UNCHANGED sessionVars
  PROVE  LastWord' /\ ReceiptTrue' /\ ResultTrue'
<1> USE DEF ReceiptTrue, ResultTrue, True
<1>1. UNCHANGED <<state, receipt, result, openSent>> /\ control \in Seq(FrameSet)
  BY DEF sessionVars, LinkTypeOK, RestTypeOK
<1>2. ASSUME exit' = exit, server' = server \/ exit = "running" \/ server' # "alive",
             Len(control) <= Len(control'), control' \in Seq(FrameSet),
             \A i \in 1..Len(control) : control'[i] = control[i],
             \A i \in 1..Len(control') : i \in 1..Len(control) \/ control'[i].kind # "CLOSED"
      PROVE  LastWord' /\ ReceiptTrue' /\ ResultTrue'
  <2>1. LastWord'
    BY <1>1, <1>2 DEF LastWord
  <2>2. ReceiptTrue' /\ ResultTrue'
    BY <1>1, <1>2
  <2>3. QED
    BY <2>1, <2>2
<1>3. CASE LoopIdle \/ ThreadEnds \/ SendCheck \/ SendData \/ ResumeIpc \/ MediaIpcData
           \/ EndOfStream \/ OpenNative \/ SendControl \/ PlayAccepted \/ PauseAccepted \/ NativeFailure \/ Setup
  <2>1. UNCHANGED <<control, exit>> /\ (server' = server \/ exit = "running")
    BY <1>3 DEF LoopIdle, ThreadEnds, SendCheck, SendData, ResumeIpc, MediaIpcData, EndOfStream,
                OpenNative, SendControl, PlayAccepted, PauseAccepted, NativeFailure, Setup, pipes, rtspVars, Running
  <2>2. QED
    BY <1>1, <1>2, <2>1
<1>4. CASE Expire
  <2>1. UNCHANGED <<control, exit>> /\ server' # "alive"
    BY <1>4 DEF Expire, pipes
  <2>2. QED
    BY <1>1, <1>2, <2>1
<1>5. CASE LoopCommand
  <2>1. UNCHANGED <<control, exit, server>>
    BY <1>5 DEF LoopCommand, rtspVars
  <2>2. QED
    BY <1>1, <1>2, <2>1
<1>6. CASE Writer
  <2>1. UNCHANGED <<control, exit, server>>
    BY <1>6 DEF Writer, rtspVars
  <2>2. QED
    BY <1>1, <1>2, <2>1
<1>7. CASE LoopBus
  <2>1. UNCHANGED <<exit, server>>
    BY <1>7 DEF LoopBus, rtspVars
  <2>2. \A i \in 1..Len(control') : i \in 1..Len(control) \/ control'[i].kind # "CLOSED"
    BY <1>7, BusFrames DEF LinkTypeOK, Frame, EndFrame
  <2>3. QED
    BY <1>2, <1>7, <2>1, <2>2, BusFrames DEF LinkTypeOK
<1>8. CASE LoopAck
  <2>1. UNCHANGED <<exit, server>>
    BY <1>8 DEF LoopAck, rtspVars
  <2>2. \A i \in 1..Len(control') : i \in 1..Len(control) \/ control'[i].kind # "CLOSED"
    BY <1>8, AckFrames DEF LinkTypeOK, Frame, ControlFrame
  <2>3. QED
    BY <1>2, <1>8, <2>1, <2>2, AckFrames DEF LinkTypeOK
<1>9. CASE Crash
  <2>1. /\ exit = "running" /\ exit' # "running" /\ UNCHANGED <<control, server>>
        /\ state = "closed" => ~result.localCleanup /\ result.failed
    BY <1>9 DEF Crash, Running, workerVars, rtspVars
  <2>2. LastWord'
    BY <1>1, <2>1 DEF LastWord
  <2>3. QED
    BY <1>1, <2>1, <2>2
<1>10. ASSUME NEW teardown \in {"ok", "gone", "none"}, NEW local \in BOOLEAN,
              CloseNative(teardown, local)
       PROVE  LastWord' /\ ReceiptTrue' /\ ResultTrue'
  <2> DEFINE last == ClosedFrame(opened, wGeneration, closeRequest, Remote(teardown), local)
  <2>1. exit = "running" /\ exit' # "running" /\ receipt = NoReceipt
    BY <1>10 DEF CloseNative, Running
  <2>2. \A i \in 1..Len(control) : control[i].kind # "CLOSED"
    BY <2>1 DEF LastWord
  <2>3. /\ last.kind = "CLOSED" /\ last.remote = Remote(teardown)
        /\ Remote(teardown) \in Remotes
    BY DEF ClosedFrame, Remote, Remotes
  <2>4. Remote(teardown) # "none" /\ (Remote(teardown) # "uncertain" => server' # "alive")
    <3>1. CASE ~setupSent
      BY <1>10, <3>1 DEF CloseNative, Remote, Stages
    <3>2. CASE setupSent /\ teardown = "ok"
      <4>1. server' = "ended"
        BY <1>10, <3>2 DEF CloseNative
      <4>2. QED
        BY <3>2, <4>1 DEF Remote
    <3>3. CASE setupSent /\ teardown = "gone"
      <4>1. server' = "ended"
        BY <1>10, <3>3 DEF CloseNative
      <4>2. QED
        BY <3>3, <4>1 DEF Remote
    <3>4. CASE setupSent /\ teardown = "none"
      BY <3>4 DEF Remote
    <3>5. QED
      BY <3>1, <3>2, <3>3, <3>4
  <2>5. Added(control, control', last)
    <3>1. last \in FrameSet
      BY <2>3, FramesMade DEF LinkTypeOK, WorkerTypeOK
    <3>2. QED
      BY <1>1, <1>10, <3>1, AddedAppend DEF CloseNative
  <2> HIDE DEF last
  <2>6. \A i \in 1..Len(control') :
          \/ i \in 1..Len(control) /\ control'[i] = control[i]
          \/ i = Len(control') /\ control'[i] = last
    BY <1>1, <2>5 DEF Added
  <2>7. \A i \in 1..Len(control') : control'[i].kind = "CLOSED" =>
          i = Len(control') /\ control'[i] = last
    BY <2>2, <2>6
  <2>8. LastWord'
    BY <1>1, <2>1, <2>3, <2>4, <2>7 DEF LastWord
  <2>9. state = "closed" => ~result.localCleanup /\ result.failed
    BY <2>1
  <2>10. QED
    BY <1>1, <2>1, <2>8, <2>9
<1>11. QED
  BY <1>3, <1>4, <1>5, <1>6, <1>7, <1>8, <1>9, <1>10 DEF WorkerNext

-----------------------------------------------------------------------------
LEMMA InitClose ==
  ASSUME LinkAssumption, Init
  PROVE  CloseInv
<1> USE DEF Init, PipesInit, SessionInit, WorkerInit
<1>1. << >> \in Seq(UnitSet) /\ << >> \in Seq(CommandSet) /\ IsFiniteSet({})
      /\ {} \in SUBSET UnitSet
  BY FS_EmptySet
<1>2. /\ Frame("HELLO", FALSE, 0, 0) \in FrameSet
      /\ << Frame("HELLO", FALSE, 0, 0) >> \in Seq(FrameSet)
      /\ Len(<< Frame("HELLO", FALSE, 0, 0) >>) = 1
  <2>1. Frame("HELLO", FALSE, 0, 0) \in FrameSet
    BY FramesMade
  <2>2. \A f \in FrameSet : <<f>> \in Seq(FrameSet) /\ Len(<<f>>) = 1
    OBVIOUS
  <2>3. QED
    BY <2>1, <2>2
<1>3. ClosingTypeOK
  <2>1. pending \in ControlSet /\ abandoned \in ControlSet
        /\ ending \in [gen : Nat, watermark : Nat, complete : BOOLEAN]
    BY DEF NoControl, ControlSet, NoEnd
  <2>2. state \in {"opening", "playing", "paused", "closing", "closed"}
        /\ creditUnits \in Nat /\ secrets \in {"empty", "written", "destroyed"}
        /\ commandSequence \in Nat /\ closeSequence \in Nat
    OBVIOUS
  <2>3. staged \in Seq(UnitSet) /\ held \in SUBSET UnitSet /\ IsFiniteSet(held)
        /\ commands \in Seq(CommandSet)
    BY <1>1
  <2>4. QED
    BY <2>1, <2>2, <2>3 DEF ClosingTypeOK
<1>4. RestTypeOK
  <2>1. receipt \in [remote : {"none"} \cup Remotes, localCleanup : BOOLEAN]
    BY DEF NoReceipt
  <2>2. generation \in Nat /\ expectedGeneration \in Nat /\ openSent \in BOOLEAN
        /\ dataSequence \in Nat /\ outstandingUnits \in Nat
        /\ exit \in {"running", "0", "2", "3", "killed", "crashed"}
    OBVIOUS
  <2>3. data \in Seq(UnitSet) /\ control \in Seq(FrameSet)
    BY <1>1, <1>2
  <2>4. QED
    BY <2>1, <2>2, <2>3 DEF RestTypeOK
<1>5. WorkerTypeOK
  <2>1. frames \in Seq(UnitSet)
    BY <1>1
  <2>2. done \in BOOLEAN /\ opened \in BOOLEAN /\ pipeline \in BOOLEAN /\ ready \in BOOLEAN
        /\ readySent \in BOOLEAN /\ paused \in BOOLEAN /\ accepting \in BOOLEAN
        /\ eos \in SUBSET Nat /\ IsFiniteSet(eos) /\ relabelled \in SUBSET Nat
        /\ streamEnded \in BOOLEAN /\ setupSent \in BOOLEAN
    BY <1>1
  <2>3. QED
    BY <2>1, <2>2 DEF WorkerTypeOK
<1>6. Settled
  BY DEF Settled, Open, Idle
<1>7. \A i \in 1..Len(commands) : FALSE
  OBVIOUS
<1>8. Stages
  BY <1>7 DEF Stages
<1>9. \A i \in 1..Len(control) : control[i].kind = "HELLO"
  BY <1>2 DEF Frame
<1>10. LastWord /\ ReceiptTrue /\ ResultTrue
  BY <1>9 DEF LastWord, ReceiptTrue, ResultTrue
<1>11. QED
  BY <1>3, <1>4, <1>5, <1>6, <1>8, <1>10 DEF CloseInv, LinkTypeOK

LEMMA NextClose ==
  ASSUME LinkAssumption, CloseInv, [Next]_vars
  PROVE  CloseInv'
<1> USE DEF CloseInv
<1>1. CASE SessionNext /\ UNCHANGED workerVars
  <2>1. LinkTypeOK'
    <3>1. ClosingTypeOK' /\ RestTypeOK'
      BY <1>1, SessionTypes DEF LinkTypeOK
    <3>2. WorkerTypeOK'
      BY <1>1 DEF LinkTypeOK, WorkerTypeOK, workerVars, ipcVars, streamVars, openVars, controlVars,
                  loopVars, rtspVars
    <3>3. QED
      BY <3>1, <3>2 DEF LinkTypeOK
  <2>2. QED
    BY <1>1, <2>1, SessionSettles, SessionStages, SessionEndings
<1>2. CASE WorkerNext /\ UNCHANGED sessionVars
  <2>1. LinkTypeOK'
    BY <1>2, WorkerTypes
  <2>2. Settled'
    BY <1>2 DEF Settled, sessionVars, Open, Idle
  <2>3. QED
    BY <1>2, <2>1, <2>2, WorkerStages, WorkerEndings
<1>3. CASE UNCHANGED vars
  <2>1. UNCHANGED <<commands, control, data, secrets, exit>> /\ UNCHANGED sessionVars
    BY <1>3 DEF vars, pipes
  <2>2. LinkTypeOK'
    <3>1. ClosingTypeOK' /\ RestTypeOK'
      BY <2>1 DEF LinkTypeOK, ClosingTypeOK, RestTypeOK, sessionVars
    <3>2. WorkerTypeOK'
      BY <1>3 DEF LinkTypeOK, WorkerTypeOK, vars, workerVars, ipcVars, streamVars, openVars,
                  controlVars, loopVars, rtspVars
    <3>3. QED
      BY <3>1, <3>2 DEF LinkTypeOK
  <2>3. Settled'
    BY <2>1 DEF Settled, sessionVars, Open, Idle
  <2>4. UNCHANGED <<ready, setupSent, rtsp, server, pipeline, opened, thread>>
    BY <1>3 DEF vars, workerVars, rtspVars, openVars, controlVars
  <2>5. Stages' /\ LastWord' /\ ReceiptTrue' /\ ResultTrue'
    BY <2>1, <2>4 DEF Stages, LastWord, ReceiptTrue, ResultTrue, True, sessionVars
  <2>6. QED
    BY <2>2, <2>3, <2>5
<1>4. QED
  BY <1>1, <1>2, <1>3 DEF Next

\* The invariant of a close: types, what beginClose() has settled, the order in
\* which a session on the server comes about, and that CLOSED is the last word
\* of a worker and true.
THEOREM CloseInvariant == Spec => []CloseInv
<1>1. Init => CloseInv
  BY LinkAssumption, InitClose
<1>2. CloseInv /\ [Next]_vars => CloseInv'
  BY LinkAssumption, NextClose
<1>3. QED
  BY <1>1, <1>2, PTL DEF Spec

\* exited() and the CLOSED frame: what the close result says of the remote
\* session and of the local cleanup is true, whatever crashed, expired, was
\* killed or came late.
THEOREM CloseResultTrue == Spec => []CloseHonest
<1>1. CloseInv => CloseHonest
  <2> SUFFICES ASSUME CloseInv, state = "closed" PROVE CloseHonest
    BY DEF CloseHonest
  <2>1. CASE receipt # NoReceipt
    BY <2>1 DEF CloseInv, CloseHonest, ReceiptTrue, ResultTrue, True
  <2>2. CASE receipt = NoReceipt
    <3>1. ~openSent => server # "alive"
      BY DEF CloseInv, Stages
    <3>2. QED
      BY <2>2, <3>1 DEF CloseInv, CloseHonest, ResultTrue
  <2>3. QED
    BY <2>1, <2>2
<1>2. QED
  BY <1>1, CloseInvariant, PTL

\* Only exited() changes the state of a session that is closing.
LEMMA ClosedSteps ==
  ASSUME ~Open, Idle, SessionNext
  PROVE  state' \in {state, "closed"} /\ generation' = generation
<1>1. ASSUME NEW c, Fail(c) PROVE state' = state
  BY <1>1 DEF Fail
<1>2. state \notin {"opening", "playing", "paused"}
  BY DEF Open
<1>3. ~Close /\ ~Abort /\ ~OpenDeadline /\ ~ControlDeadline /\ ~EndDeadline /\ ~SendOpen
      /\ ~FlushCredits /\ (\A u \in held : ~Consume(u)) /\ \A kind \in Kinds : ~IssueControl(kind)
  BY <1>2 DEF Close, Abort, OpenDeadline, ControlDeadline, EndDeadline, SendOpen, FlushCredits,
              Consume, IssueControl, Open
<1>4. CASE OnHello \/ CloseDeadline
  BY <1>4 DEF OnHello, CloseDeadline, sessionVars
<1>5. CASE OnReady
  BY <1>1, <1>2, <1>5 DEF OnReady, closeVars
<1>6. CASE OnControl
  <2>1. CASE state = "closing"
    BY <1>1, <1>6, <2>1 DEF OnControl
  <2>2. CASE state # "closing"
    BY <1>1, <1>6, <2>2 DEF OnControl
  <2>3. QED
    BY <2>1, <2>2
<1>7. CASE OnClosed
  BY <1>1, <1>7 DEF OnClosed, closeVars
<1>8. CASE OnError \/ PipeEnd
  BY <1>1, <1>8 DEF OnError, PipeEnd, restVars
<1>9. CASE OnEnd
  <2>1. UNCHANGED generation
    BY <1>9 DEF OnEnd, restVars
  <2>2. QED
    BY <1>1, <1>9, <2>1 DEF OnEnd
<1>10. CASE OnData
  BY <1>10 DEF OnData, closeVars
<1>11. ASSUME NEW observed, Exited(observed) PROVE state' = "closed" /\ generation' = generation
  BY <1>11 DEF Exited
<1>12. QED
  BY <1>3, <1>4, <1>5, <1>6, <1>7, <1>8, <1>9, <1>10, <1>11 DEF SessionNext

\* beginClose(): a session that has begun to close opens no more and hands out
\* nothing, whatever frame is taken from a pipe afterwards.
THEOREM ClosingIsFinal == Spec => NeverReopened
<1>1. ASSUME LinkAssumption, CloseInv, Next, state \in {"closing", "closed"}
      PROVE  state' \in {state, "closed"} /\ held' = {} /\ generation' = generation
  <2>1. ~Open /\ held = {} /\ Idle
    BY <1>1 DEF Open, CloseInv, Settled
  <2>2. CASE WorkerNext /\ UNCHANGED sessionVars
    BY <2>1, <2>2 DEF sessionVars
  <2>3. CASE SessionNext
    <3>1. state' \in {state, "closed"} /\ generation' = generation
      BY <2>1, <2>3, ClosedSteps
    <3>2. Settled' /\ ~Open'
      BY <1>1, <2>3, <3>1, SessionSettles DEF CloseInv, Open
    <3>3. QED
      BY <3>1, <3>2 DEF Settled
  <2>4. QED
    BY <1>1, <2>2, <2>3 DEF Next
<1>2. QED
  BY <1>1, CloseInvariant, LinkAssumption, PTL DEF Spec, NeverReopened

-----------------------------------------------------------------------------
(***************************************************************************)
(* The traffic of the link, under every set of faults: neither side        *)
(* mistakes the other's messages for a protocol violation but where an END *)
(* was mislabelled or the worker failed before it had an OPEN, no credit   *)
(* is lost or made, and no unit crosses a control boundary.                *)
(***************************************************************************)
Playing == state \in {"playing", "paused"}

\* The opening, on both sides.
Opening ==
  /\ readySent => ready
  /\ openSent => secrets = "written" /\ commandSequence > 0
  /\ ~openSent => ~Playing /\ commandSequence = 0
  /\ Playing => generation # 0
  /\ generation # 0 => readySent /\ state # "opening"
  /\ generation = 0 => ~paused
  /\ ~Idle => Playing
  /\ ~ready => /\ frames = << >> /\ data = << >> /\ ~accepting /\ ~passed /\ sending = 0
               /\ wSequence = 0 /\ eos = {} /\ ~streamEnded /\ ~paused
  /\ ~pipeline => credits = 0 /\ outstandingUnits = 0

\* The numbers both sides count with.  Until READY is taken, the worker is in
\* its first generation and answers the OPEN.
Numbers ==
  /\ generation <= wGeneration /\ wGeneration <= expectedGeneration
  /\ generation = 0 => /\ expectedGeneration = 1
                       /\ wGeneration = IF pipeline THEN 1 ELSE 0
                       /\ wRequest = IF opened THEN 1 ELSE 0
  /\ wRequest <= commandSequence /\ closeSequence <= commandSequence
  /\ closeRequest \in {0, closeSequence} /\ (closeRequest # 0 => opened)
  /\ dataSequence <= wSequence /\ sending <= wGeneration
  /\ wGeneration # 0 => pipeline

\* A worker that stops before it has an OPEN has failed, or will never get one.
NeverOpened ==
  done \/ loop = "close" => opened \/ wFailure # "none" \/ (~openSent /\ ~Open)

\* The commands under way: OPEN first, and none that does not fit.
CommandsFit ==
  /\ openSent /\ ~opened => commands # << >> /\ commands[1].kind = "OPEN"
  /\ \A i \in 1..Len(commands) :
       /\ commands[i].kind = "OPEN" => i = 1 /\ ~opened /\ commands[i].seq = 1
       /\ commands[i].kind = "EOF" => ~Open
       /\ commands[i].kind # "EOF" => openSent
       /\ commands[i].kind = "CREDIT" => pipeline
       /\ commands[i].kind # "CREDIT" => commands[i].units = 0
       /\ commands[i].kind = "CLOSE" => ~Open /\ commands[i].seq = closeSequence
       /\ commands[i].gen <= generation

\* The answers under way: their numbers, and READY and CONTROL once.
AnswersFit ==
  /\ \A i \in 1..Len(control) :
       /\ control[i].gen <= wGeneration /\ control[i].seq <= commandSequence
       /\ control[i].kind # "HELLO" =>
            control[i].own \/ /\ control[i].gen = 0 /\ control[i].seq = 0
                              /\ ~opened /\ loop = "close"
       /\ control[i].kind = "READY" =>
            /\ control[i].gen = 1 /\ control[i].seq = 1
            /\ readySent /\ generation = 0
       /\ control[i].kind = "CLOSED" =>
            control[i].gen = wGeneration /\ control[i].seq \in {0, closeSequence}
  /\ \A i, j \in 1..Len(control) :
       control[i].kind = control[j].kind /\ control[i].kind \in {"READY", "CONTROL"} => i = j

\* The control that awaits its receipt, or was abandoned by a close.
Asked == IF Idle THEN abandoned ELSE pending

\* Where that control is: not yet read by the worker, in the hands of its
\* control thread, answered by the server, or on its way back.
NoneSent == \A i \in 1..Len(commands) : commands[i].kind \notin Kinds
NoneAnswered == \A i \in 1..Len(control) : control[i].kind # "CONTROL"
WorkerFree ==
  /\ pendingControl = "none" /\ controlReady = "none" /\ thread = "none"
  /\ pendingGeneration = 0 /\ (ready => rtsp = "none") /\ rtsp # "PAUSE"
Sent ==
  /\ NoneAnswered /\ WorkerFree
  /\ wGeneration = generation /\ (Asked.kind = "PAUSE" => ~paused)
Taken ==
  /\ NoneSent /\ NoneAnswered
  /\ pendingControl = Asked.kind /\ controlReady = "none" /\ wRequest = Asked.seq
  /\ wGeneration = generation /\ (Asked.kind = "PAUSE" => ~paused)
  /\ pendingGeneration = IF Asked.kind = "PAUSE" THEN 0 ELSE Asked.gen
  /\ rtsp \in {"none", IF Asked.kind = "PAUSE" THEN "PAUSE" ELSE "PLAY"}
  /\ thread = "starting" => rtsp = "none"
Accepted ==
  /\ NoneSent /\ NoneAnswered
  /\ pendingControl = "none" /\ controlReady = Asked.kind /\ wRequest = Asked.seq
  /\ pendingGeneration = 0 /\ rtsp = "none" /\ thread # "starting"
  /\ wGeneration = Asked.gen /\ paused = (Asked.kind = "PAUSE")
Answered ==
  /\ NoneSent /\ WorkerFree
  /\ wGeneration = Asked.gen /\ paused = (Asked.kind = "PAUSE")

\* The two sides agree on the control under way; between controls, on the
\* generation and on whether the stream is paused.
ControlAgreed ==
  IF Asked = NoControl
  THEN /\ NoneSent /\ NoneAnswered /\ WorkerFree
       /\ Playing => /\ wGeneration = generation /\ expectedGeneration = generation
                     /\ paused = (state = "paused")
  ELSE /\ Asked.kind \in Kinds /\ generation # 0
       /\ Asked.gen = expectedGeneration /\ Asked.seq <= commandSequence
       /\ expectedGeneration = IF Asked.kind = "PAUSE" THEN generation ELSE generation + 1
       /\ Sent \/ Taken \/ Accepted \/ Answered

\* The command and the receipt of that control.
ControlSent ==
  \A i \in 1..Len(commands) : commands[i].kind \in Kinds =>
    /\ commands[i].kind = Asked.kind /\ commands[i].seq = Asked.seq
    /\ commands[i].gen = generation
    /\ commands[i].kind = "SEEK" => ~Live
    /\ \A j \in 1..Len(commands) : commands[j].kind \in Kinds => i = j
ReceiptSent ==
  \A i \in 1..Len(control) : control[i].kind = "CONTROL" =>
    /\ control[i].command = Asked.kind /\ control[i].seq = Asked.seq
    /\ control[i].gen = Asked.gen /\ control[i].state = StateAfter(Asked.kind)

\* Once the session is closed and the process is gone, nobody acts on it.
Over == state = "closed" /\ exit # "running"
Controls == Over \/ (ControlAgreed /\ ControlSent /\ ReceiptSent)

-----------------------------------------------------------------------------
\* The units under way are in order, of generations that have begun, and
\* newer than what the session has seen.
UnitsFit ==
  /\ Increasing(data) /\ Increasing(frames)
  /\ \A i \in 1..Len(data), j \in 1..Len(frames) : data[i].seq < frames[j].seq
  /\ \A u \in Units(data) \cup Units(frames) :
       /\ 0 < u.gen /\ u.gen <= wGeneration /\ u.seq <= wSequence
       /\ Open => dataSequence < u.seq

\* What the session keeps: units it has seen, staged ahead of a receipt or
\* handed to its consumers.
UnitsKept ==
  /\ Increasing(staged)
  /\ \A u \in Units(staged) : /\ u.seq <= dataSequence
                              /\ u.gen = expectedGeneration /\ u.gen > generation
  /\ \A u \in held : u.seq <= dataSequence /\ u.gen = generation /\ 0 < u.gen
  /\ staged # << >> => state = "opening" \/ ~Idle
  /\ ~Idle => held = {}

\* The credits: the window is never exceeded, and is whole while both sides run.
Window == credits + Len(frames) + Len(data) + outstandingUnits + Granted
Credits ==
  /\ IsFiniteSet(Grants(commands))
  /\ pipeline => Window <= QueueUnits
  /\ Open /\ pipeline /\ loop # "close" /\ exit = "running" => Window = QueueUnits
  /\ Open => outstandingUnits = Cardinality(held) + Len(staged) + creditUnits

\* The END of generation g at watermark w: nothing of g follows, and nothing
\* of g will be sent, unless g was given to the END of an older generation.
EndHolds(g, w) ==
  /\ 0 < g /\ g <= wGeneration /\ w <= wSequence
  /\ g \notin relabelled =>
       /\ g = wGeneration => streamEnded /\ wGeneration \notin eos /\ w = wSequence
       /\ sending = 0 \/ g < sending
       /\ \A u \in Units(data) \cup Units(frames) : w < u.seq => g < u.gen
Streams ==
  /\ \A g \in eos : 0 < g /\ g <= wGeneration
  /\ \A g \in relabelled : 1 < g /\ g <= wGeneration
  /\ wGeneration \in eos => streamEnded
  /\ streamEnded => sending = 0 /\ ~passed
Ends ==
  /\ Streams
  /\ ending # NoEnd =>
       /\ EndHolds(ending.gen, ending.watermark) /\ generation <= ending.gen
       /\ ~Idle /\ pending.kind # "PAUSE" => ending.gen = expectedGeneration
  /\ ending.complete => /\ ending.gen = generation
                        /\ ending.gen \notin relabelled => dataSequence = ending.watermark
  /\ \A i \in 1..Len(control) : control[i].kind = "END" =>
       /\ EndHolds(control[i].gen, control[i].watermark)
       /\ relabelled = {} =>
            /\ ending # NoEnd => ending.gen < control[i].gen
            /\ \A j \in 1..Len(control) :
                 control[j].kind = "END" /\ i < j => control[i].gen < control[j].gen

\* Neither side has rejected anything, but for a mislabelled END or the last
\* words of a worker that failed before it had an OPEN.
Excused == relabelled # {} \/ (~opened /\ loop = "close" /\ wFailure # "none")
NoRejection == wFailure # "protocol" /\ (failure = "protocol" => Excused)

\* The inductive invariant.
IInv == /\ CloseInv /\ Opening /\ Numbers /\ NeverOpened /\ CommandsFit /\ AnswersFit
        /\ Controls /\ UnitsFit /\ UnitsKept /\ Credits /\ Ends /\ NoRejection

-----------------------------------------------------------------------------
\* Neither side rejects what the other sends.  First the session.
LEMMA FirstFrame ==
  ASSUME IInv, NEW kind, Received(kind), NEW m, m = Head(control)
  PROVE  /\ m = control[1] /\ 1 \in 1..Len(control) /\ m \in FrameSet /\ m.kind = kind
         /\ Dropped(control, control') /\ control' \in Seq(FrameSet) /\ state # "closed"
         /\ m.gen \in Nat /\ m.seq \in Nat /\ m.gen <= expectedGeneration
         /\ kind # "HELLO" => Belongs(m) \/ (Excused /\ ~opened /\ m.gen = 0)
<1>1. control \in Seq(FrameSet)
  BY DEF IInv, CloseInv, LinkTypeOK, RestTypeOK
<1>2. /\ m = control[1] /\ 1 \in 1..Len(control) /\ m \in FrameSet /\ m.kind = kind
      /\ Dropped(control, control') /\ control' \in Seq(FrameSet) /\ state # "closed"
  BY <1>1, FrameTaken
<1>3. m.gen \in Nat /\ m.seq \in Nat
  BY <1>2, FrameTypes
<1>4. m.gen <= wGeneration /\ m.seq <= commandSequence /\ wGeneration <= expectedGeneration
      /\ wGeneration \in Nat /\ expectedGeneration \in Nat
  BY <1>2 DEF IInv, AnswersFit, Numbers, CloseInv, LinkTypeOK, RestTypeOK, WorkerTypeOK
<1>5. kind # "HELLO" => m.own \/ /\ m.gen = 0 /\ m.seq = 0 /\ ~opened
                                 /\ Excused \/ ~openSent
  BY <1>2 DEF IInv, AnswersFit, NeverOpened, Excused
<1>6. m.own \in BOOLEAN
  BY <1>2, FrameTypes
<1>7. QED
  BY <1>2, <1>3, <1>4, <1>5, <1>6 DEF Belongs

\* An END of the generation that the worker is in: nothing lies beyond it.
LEMMA EndOfLast ==
  ASSUME IInv, NEW end, NEW g, end.gen = g => g = wGeneration, g \notin relabelled,
         end.gen = g /\ g # 0 => EndHolds(g, end.watermark)
  PROVE  ~Overrun(end, g, dataSequence)
<1>1. dataSequence <= wSequence /\ dataSequence \in Nat /\ wSequence \in Nat
  BY DEF IInv, Numbers, CloseInv, LinkTypeOK, RestTypeOK, WorkerTypeOK
<1>2. SUFFICES ASSUME end.gen = g, g # 0 PROVE ~(dataSequence > end.watermark)
  BY DEF Overrun
<1>3. end.watermark = wSequence
  BY <1>2 DEF EndHolds
<1>4. QED
  BY <1>1, <1>3

LEMMA ReadyAccepted ==
  ASSUME IInv, Received("READY"), NEW m, m = Head(control)
  PROVE  /\ Belongs(m) /\ openSent /\ m.gen = 1 /\ m.seq = OpenSequence
         /\ state \in {"opening", "closing"} /\ ~Overrun(ending, 1, dataSequence)
         /\ generation = 0 /\ readySent /\ wGeneration = 1
<1>1. /\ m = control[1] /\ 1 \in 1..Len(control) /\ m.kind = "READY"
      /\ state # "closed" /\ (Belongs(m) \/ m.gen = 0)
  BY FirstFrame
<1>2. m.gen = 1 /\ m.seq = OpenSequence /\ generation = 0 /\ readySent
  BY <1>1 DEF IInv, AnswersFit, OpenSequence
<1>3. pipeline /\ openSent
  BY <1>2 DEF IInv, Opening, CloseInv, Stages
<1>4. state \in {"opening", "closing"}
  BY <1>1, <1>2 DEF IInv, Opening, Playing, CloseInv, LinkTypeOK, ClosingTypeOK
<1>5. wGeneration = 1
  BY <1>2, <1>3 DEF IInv, Numbers
<1>6. ending.gen = 1 => EndHolds(1, ending.watermark)
  BY DEF IInv, Ends, NoEnd
<1>7. ~Overrun(ending, 1, dataSequence)
  <2>1. 1 \notin relabelled
    BY DEF IInv, Ends, Streams
  <2>2. QED
    BY <1>5, <1>6, <2>1, EndOfLast
<1>8. QED
  BY <1>1, <1>2, <1>3, <1>4, <1>5, <1>7

\* The frame CONTROL answers the control that was asked for.
LEMMA ControlAccepted ==
  ASSUME IInv, Received("CONTROL"), NEW m, m = Head(control)
  PROVE  /\ Belongs(m) /\ Asked # NoControl /\ m.seq = Asked.seq /\ m.gen = Asked.gen
         /\ m.command = Asked.kind /\ m.state = StateAfter(Asked.kind)
         /\ Asked = IF ~Idle THEN pending ELSE IF state = "closing" THEN abandoned ELSE NoControl
         /\ state # "closing" => ~Overrun(ending, m.gen, dataSequence) \/ Excused
         /\ Answered /\ ControlAgreed
<1>1. /\ m = control[1] /\ 1 \in 1..Len(control) /\ m.kind = "CONTROL" /\ Belongs(m)
      /\ state # "closed"
  <2>1. /\ m = control[1] /\ 1 \in 1..Len(control) /\ m.kind = "CONTROL" /\ m \in FrameSet
        /\ state # "closed" /\ m.gen <= expectedGeneration
    BY FirstFrame
  <2>2. m.own /\ m.seq <= commandSequence
    BY <2>1, FrameTypes DEF IInv, AnswersFit
  <2>3. QED
    BY <2>1, <2>2 DEF Belongs
<1>2. ControlAgreed /\ ReceiptSent
  BY <1>1 DEF IInv, Controls, Over
<1>3. ~NoneAnswered
  BY <1>1 DEF NoneAnswered
<1>4. Asked # NoControl /\ Answered
  BY <1>2, <1>3 DEF ControlAgreed, Sent, Taken, Accepted
<1>5. /\ m.command = Asked.kind /\ m.seq = Asked.seq /\ m.gen = Asked.gen
      /\ m.state = StateAfter(Asked.kind)
  BY <1>1, <1>2 DEF ReceiptSent
<1>6. Asked = IF ~Idle THEN pending ELSE IF state = "closing" THEN abandoned ELSE NoControl
  <2>1. Open \/ state = "closing"
    BY <1>1 DEF Open, IInv, CloseInv, LinkTypeOK, ClosingTypeOK
  <2>2. Open => abandoned = NoControl
    BY DEF IInv, CloseInv, Settled
  <2>3. state = "closing" => ~Open
    BY DEF Open
  <2>4. QED
    BY <2>1, <2>2, <2>3 DEF Asked
<1>7. m.gen = wGeneration
  BY <1>4, <1>5 DEF Answered
<1>8. ending.gen = m.gen /\ m.gen # 0 => EndHolds(m.gen, ending.watermark)
  BY DEF IInv, Ends, NoEnd
<1>9. ~Overrun(ending, m.gen, dataSequence) \/ Excused
  BY <1>7, <1>8, EndOfLast DEF Excused
<1>10. QED
  BY <1>1, <1>2, <1>4, <1>5, <1>6, <1>9

LEMMA ClosedAccepted ==
  ASSUME IInv, Received("CLOSED"), NEW m, m = Head(control)
  PROVE  /\ Belongs(m) \/ Excused
         /\ receipt = NoReceipt /\ ~(m.gen < generation)
         /\ ~(m.seq # 0 /\ m.seq # closeSequence)
<1>1. /\ m = control[1] /\ 1 \in 1..Len(control) /\ m.kind = "CLOSED"
      /\ Belongs(m) \/ Excused
  BY FirstFrame
<1>2. receipt = NoReceipt
  BY <1>1 DEF IInv, CloseInv, LastWord
<1>3. m.gen = wGeneration /\ m.seq \in {0, closeSequence}
  BY <1>1 DEF IInv, AnswersFit
<1>4. generation <= wGeneration /\ generation \in Nat /\ wGeneration \in Nat
  BY DEF IInv, Numbers, CloseInv, LinkTypeOK, RestTypeOK, WorkerTypeOK
<1>5. QED
  BY <1>1, <1>2, <1>3, <1>4

\* Between controls, and while a PAUSE is under way, no generation is ahead.
LEMMA NothingAhead ==
  ASSUME IInv, Playing
  PROVE  /\ Idle \/ pending.kind = "PAUSE" => expectedGeneration = generation
         /\ Idle => wGeneration = generation
<1>1. Open
  BY DEF Playing, Open
<1>2. ControlAgreed
  BY DEF IInv, Controls, Over, Playing
<1>3. Idle => Asked = NoControl
  BY <1>1 DEF IInv, CloseInv, Settled, Asked
<1>4. ~Idle => Asked = pending /\ Asked # NoControl
  BY DEF Asked, Idle
<1>5. QED
  BY <1>2, <1>3, <1>4 DEF ControlAgreed

LEMMA EndBelongs ==
  ASSUME IInv, Received("END"), NEW m, m = Head(control)
  PROVE  Belongs(m)
<1>1. m = control[1] /\ 1 \in 1..Len(control) /\ m.kind = "END" /\ m.gen \in Nat
  BY FirstFrame
<1>2. 0 < m.gen
  BY <1>1 DEF IInv, Ends, EndHolds
<1>3. QED
  BY <1>1, <1>2, FirstFrame

LEMMA EndAccepted ==
  ASSUME IInv, Received("END"), NEW m, m = Head(control),
         ~(m.gen < generation \/ ~Open \/ (~Idle /\ m.gen = generation))
  PROVE  /\ ending = NoEnd \/ relabelled # {}
         /\ Belongs(m) /\ m.watermark \in Nat
         /\ EndHolds(m.gen, m.watermark) /\ m.gen \in Nat /\ generation <= m.gen
         /\ Idle /\ state # "opening" =>
              /\ m.gen = generation /\ generation = wGeneration
              /\ \/ relabelled # {}
                 \/ ~Overrun([gen |-> m.gen, watermark |-> m.watermark, complete |-> FALSE],
                             generation, dataSequence)
<1>1. /\ m = control[1] /\ 1 \in 1..Len(control) /\ m.kind = "END" /\ m.gen \in Nat
      /\ m.watermark \in Nat /\ m.gen <= expectedGeneration /\ (Belongs(m) \/ m.gen = 0)
  BY FirstFrame, FrameTypes
<1>2. /\ EndHolds(m.gen, m.watermark) /\ Belongs(m)
      /\ ending # NoEnd => ending.gen < m.gen \/ relabelled # {}
  BY <1>1 DEF IInv, Ends, EndHolds
<1>3. /\ generation \in Nat /\ expectedGeneration \in Nat /\ wGeneration \in Nat /\ ending.gen \in Nat
      /\ m.gen \in Nat
      /\ m.gen <= wGeneration /\ wGeneration <= expectedGeneration
  BY <1>1, <1>2 DEF IInv, CloseInv, LinkTypeOK, RestTypeOK, WorkerTypeOK, ClosingTypeOK, Numbers,
                    EndHolds
<1>4. generation <= m.gen
  BY <1>1, <1>3
<1>5. CASE state = "opening"
  <2>1. generation = 0 /\ Idle
    BY <1>5 DEF IInv, Opening, Playing
  <2>2. wGeneration <= 1
    BY <2>1 DEF IInv, Numbers
  <2>3. ending = NoEnd \/ relabelled # {}
    <3> SUFFICES ASSUME ending # NoEnd, relabelled = {} PROVE FALSE
      OBVIOUS
    <3>1. ending.gen < m.gen /\ 0 < ending.gen
      BY <1>2 DEF IInv, Ends, EndHolds
    <3>2. QED
      BY <1>3, <2>2, <3>1
  <2>4. QED
    BY <1>1, <1>2, <1>4, <1>5, <2>3
<1>6. CASE state # "opening"
  <2>1. Playing
    BY <1>6 DEF Open, Playing
  <2>2. ending # NoEnd => generation <= ending.gen
    BY DEF IInv, Ends
  <2>3. CASE Idle
    <3>1. generation = wGeneration /\ expectedGeneration = generation
      BY <2>1, <2>3, NothingAhead
    <3>2. m.gen = generation
      BY <1>3, <1>4, <3>1
    <3>3. ending = NoEnd \/ relabelled # {}
      <4> SUFFICES ASSUME ending # NoEnd, relabelled = {} PROVE FALSE
        OBVIOUS
      <4>1. ending.gen < m.gen /\ generation <= ending.gen
        BY <1>2, <2>2
      <4>2. QED
        BY <1>3, <3>2, <4>1
    <3> DEFINE end == [gen |-> m.gen, watermark |-> m.watermark, complete |-> FALSE]
    <3>4. end.gen = m.gen /\ end.watermark = m.watermark
      OBVIOUS
    <3> HIDE DEF end
    <3>5. ~Overrun(end, generation, dataSequence) \/ relabelled # {}
      BY <1>2, <3>1, <3>2, <3>4, EndOfLast
    <3>6. QED
      BY <1>1, <1>2, <1>4, <3>1, <3>2, <3>3, <3>5 DEF end
  <2>4. CASE ~Idle
    <3>1. ending # NoEnd => ending.gen = expectedGeneration \/ expectedGeneration = generation
      BY <2>1, <2>4, NothingAhead DEF IInv, Ends
    <3>2. ending = NoEnd \/ relabelled # {}
      <4> SUFFICES ASSUME ending # NoEnd, relabelled = {} PROVE FALSE
        OBVIOUS
      <4>1. ending.gen < m.gen /\ generation <= ending.gen
        BY <1>2, <2>2
      <4>2. CASE ending.gen = expectedGeneration
        BY <1>3, <4>1, <4>2
      <4>3. CASE expectedGeneration = generation
        BY <1>3, <4>1, <4>3
      <4>4. QED
        BY <3>1, <4>2, <4>3
    <3>3. QED
      BY <1>1, <1>2, <1>4, <2>4, <3>2
  <2>5. QED
    BY <2>3, <2>4
<1>7. QED
  BY <1>5, <1>6

LEMMA Counts ==
  ASSUME IInv
  PROVE  /\ Granted \in Nat /\ credits \in Nat /\ Len(frames) \in Nat /\ Len(data) \in Nat
         /\ outstandingUnits \in Nat /\ QueueUnits \in Nat /\ creditUnits \in Nat
         /\ Len(staged) \in Nat /\ Cardinality(held) \in Nat
         /\ commands \in Seq(CommandSet) /\ control \in Seq(FrameSet) /\ data \in Seq(UnitSet)
         /\ frames \in Seq(UnitSet) /\ staged \in Seq(UnitSet) /\ held \in SUBSET UnitSet
         /\ IsFiniteSet(held) /\ QueueUnits > 0
         /\ generation \in Nat /\ expectedGeneration \in Nat /\ wGeneration \in Nat
         /\ dataSequence \in Nat /\ wSequence \in Nat /\ commandSequence \in Nat
         /\ closeSequence \in Nat /\ wRequest \in Nat /\ sending \in Nat /\ closeRequest \in Nat
         /\ pendingGeneration \in Nat
<1>1. IsFiniteSet(Grants(commands)) /\ IsFiniteSet(held)
  BY DEF IInv, Credits, CloseInv, LinkTypeOK, ClosingTypeOK
<1>2. Granted \in Nat /\ Cardinality(held) \in Nat
  BY <1>1, FS_CardinalityType DEF Granted
<1>3. QED
  BY <1>1, <1>2, LinkAssumption DEF IInv, CloseInv, LinkTypeOK, RestTypeOK, ClosingTypeOK, WorkerTypeOK

LEMMA DataAccepted ==
  ASSUME IInv, Open, data # << >>, NEW u, u = Head(data)
  PROVE  /\ u \in UnitSet /\ u = data[1] /\ Dropped(data, Tail(data)) /\ u.gen \in Nat /\ u.seq \in Nat
         /\ openSent /\ u.gen <= expectedGeneration /\ u.seq > dataSequence /\ u.seq <= wSequence
         /\ outstandingUnits + 1 <= QueueUnits /\ Len(staged) < QueueUnits
         /\ 0 < u.gen /\ u.gen <= wGeneration
         /\ relabelled = {} =>
              /\ ~(ending.gen = u.gen /\ u.seq > ending.watermark)
              /\ Idle /\ state # "opening" => ~Overrun(ending, generation, u.seq)
<1>1. u \in UnitSet /\ u = data[1] /\ Dropped(data, Tail(data)) /\ 1 \in 1..Len(data)
  BY Counts, DroppedTail
<1>2. u.gen \in Nat /\ u.seq \in Nat /\ u \in Units(data)
  <2>1. DOMAIN data = 1..Len(data)
    BY Counts
  <2>2. QED
    BY <1>1, <2>1, UnitTypes DEF Units
<1>3. ready /\ pipeline /\ openSent
  BY DEF IInv, Opening, CloseInv, Stages
<1>4. 0 < u.gen /\ u.gen <= wGeneration /\ u.seq <= wSequence /\ dataSequence < u.seq
  BY <1>2 DEF IInv, UnitsFit
<1>5. u.gen <= expectedGeneration
  <2>1. wGeneration <= expectedGeneration
    BY DEF IInv, Numbers
  <2>2. wGeneration \in Nat /\ expectedGeneration \in Nat
    BY Counts
  <2>3. QED
    BY <1>2, <1>4, <2>1, <2>2
<1>6. relabelled = {} => ~(ending.gen = u.gen /\ u.seq > ending.watermark)
  <2> SUFFICES ASSUME relabelled = {}, ending.gen = u.gen, u.seq > ending.watermark PROVE FALSE
    OBVIOUS
  <2>1. ending # NoEnd
    BY <1>2, <1>4 DEF NoEnd
  <2>2. EndHolds(ending.gen, ending.watermark) /\ ending.watermark \in Nat
    BY <2>1 DEF IInv, Ends, CloseInv, LinkTypeOK, ClosingTypeOK
  <2>3. ending.watermark < u.seq
    BY <1>2, <2>2
  <2>4. ending.gen < u.gen
    BY <1>2, <2>2, <2>3 DEF EndHolds
  <2>5. QED
    BY <1>2, <2>4
<1>7. Len(data) > 0
  BY <1>1, Counts
<1>8. /\ Granted \in Nat /\ credits \in Nat /\ Len(frames) \in Nat /\ Len(data) \in Nat
      /\ outstandingUnits \in Nat /\ QueueUnits \in Nat /\ creditUnits \in Nat
      /\ Len(staged) \in Nat /\ Cardinality(held) \in Nat
  BY Counts
<1>9. outstandingUnits + 1 <= QueueUnits /\ Len(staged) < QueueUnits
  <2>1. credits + Len(frames) + Len(data) + outstandingUnits + Granted <= QueueUnits
    BY <1>3 DEF IInv, Credits, Window
  <2>2. outstandingUnits = Cardinality(held) + Len(staged) + creditUnits
    BY DEF IInv, Credits
  <2>3. QED
    BY SMTT(30), <1>7, <1>8, <2>1, <2>2
<1>10. relabelled = {} /\ Idle /\ state # "opening" => ~Overrun(ending, generation, u.seq)
  <2> SUFFICES ASSUME relabelled = {}, Idle, state # "opening", ending.gen = generation, ending.gen # 0
               PROVE  ~(u.seq > ending.watermark)
    BY DEF Overrun
  <2>1. Playing
    BY DEF Open, Playing
  <2>2. generation = wGeneration
    BY <2>1, NothingAhead
  <2>3. ending.watermark = wSequence
    BY <2>2 DEF IInv, Ends, EndHolds, NoEnd
  <2>4. wSequence \in Nat
    BY Counts
  <2>5. QED
    BY <1>2, <1>4, <2>3, <2>4
<1>11. QED
  BY <1>1, <1>2, <1>3, <1>4, <1>5, <1>6, <1>9, <1>10

LEMMA CreditsAccepted ==
  ASSUME IInv, Open
  PROVE  creditUnits <= outstandingUnits
<1>1. outstandingUnits = Cardinality(held) + Len(staged) + creditUnits
  BY DEF IInv, Credits
<1>2. /\ outstandingUnits \in Nat /\ Cardinality(held) \in Nat /\ Len(staged) \in Nat
      /\ creditUnits \in Nat
  BY Counts
<1>3. QED
  BY <1>1, <1>2

\* The worker: a command fits, and the control it takes can be taken.
LEMMA FirstCommand ==
  ASSUME IInv, commands # << >>, NEW m, m = Head(commands)
  PROVE  /\ m = commands[1] /\ 1 \in 1..Len(commands) /\ m \in CommandSet /\ m.kind \in Commands
         /\ m.gen \in Nat /\ m.seq \in Nat /\ m.units \in Nat
         /\ Tail(commands) \in Seq(CommandSet) /\ Dropped(commands, Tail(commands))
  BY Counts, DroppedTail, CommandTypes

LEMMA CommandAccepted ==
  ASSUME IInv, commands # << >>, exit = "running", NEW m, m = Head(commands)
  PROVE  /\ m.kind = "OPEN" => ~opened /\ openSent /\ m.seq = 1
         /\ m.kind # "EOF" => ~Mismatch(m)
         /\ m.kind = "CREDIT" => pipeline /\ ~(m.units > QueueUnits - credits)
         /\ m.kind \notin {"EOF", "OPEN", "CLOSE", "CREDIT"} => pipeline /\ ~Busy(m)
<1>1. /\ m = commands[1] /\ 1 \in 1..Len(commands) /\ m.kind \in Commands /\ m.gen \in Nat
      /\ m.units \in Nat
  BY FirstCommand
<1>2. m.kind = "OPEN" => ~opened /\ m.seq = 1 /\ openSent
  BY <1>1 DEF IInv, CommandsFit
<1>3. m.kind \notin {"EOF", "OPEN"} => opened
  BY <1>1 DEF IInv, CommandsFit
<1>4. m.gen <= generation /\ generation <= wGeneration /\ generation \in Nat /\ wGeneration \in Nat
  BY <1>1, Counts DEF IInv, CommandsFit, Numbers
<1>5. m.kind = "CREDIT" => pipeline /\ ~(m.units > QueueUnits - credits)
  <2> SUFFICES ASSUME m.kind = "CREDIT" PROVE pipeline /\ ~(m.units > QueueUnits - credits)
    OBVIOUS
  <2>1. pipeline
    BY <1>1 DEF IInv, CommandsFit
  <2>2. /\ IsFiniteSet(Grants(commands)) /\ Tail(commands) \in Seq(CommandSet)
        /\ Dropped(commands, Tail(commands)) /\ \A c \in CommandSet : c.units \in Nat
    BY FirstCommand, CommandTypes DEF IInv, Credits
  <2>3. /\ Granted = Cardinality(Grants(Tail(commands))) + m.units
        /\ Cardinality(Grants(Tail(commands))) \in Nat
    BY <1>1, <2>2, Counts, GrantsDropped DEF Granted
  <2>4. credits + Len(frames) + Len(data) + outstandingUnits + Granted <= QueueUnits
    BY <2>1 DEF IInv, Credits, Window
  <2>5. /\ credits \in Nat /\ Len(frames) \in Nat /\ Len(data) \in Nat
        /\ outstandingUnits \in Nat /\ QueueUnits \in Nat
    BY Counts
  <2>6. QED
    BY <1>1, <2>1, <2>3, <2>4, <2>5
<1>6. m.kind \notin {"EOF", "OPEN", "CLOSE", "CREDIT"} =>
        pipeline /\ ~Busy(m) /\ m.gen = wGeneration
  <2> SUFFICES ASSUME m.kind \notin {"EOF", "OPEN", "CLOSE", "CREDIT"}
               PROVE  pipeline /\ ~Busy(m) /\ m.gen = wGeneration
    OBVIOUS
  <2>1. m.kind \in Kinds /\ ~NoneSent
    BY <1>1 DEF Commands, NoneSent
  <2>2. ControlAgreed /\ ControlSent
    BY DEF IInv, Controls, Over
  <2>3. Sent /\ generation # 0 /\ wGeneration = generation
    BY <2>1, <2>2 DEF ControlAgreed, Taken, Accepted, Answered, Sent
  <2>4. m.gen = generation /\ (m.kind = "SEEK" => ~Live)
    BY <1>1, <2>1, <2>2 DEF ControlSent
  <2>5. ready /\ pipeline
    BY <2>3 DEF IInv, Opening, CloseInv, Stages
  <2>6. pendingControl = "none" /\ thread = "none"
    BY <2>3 DEF Sent, WorkerFree
  <2>7. QED
    BY <2>3, <2>4, <2>5, <2>6 DEF Busy
<1>7. m.kind # "EOF" => ~Mismatch(m)
  <2>1. ~(m.gen > wGeneration)
    BY <1>1, <1>4
  <2>2. QED
    BY <1>3, <1>6, <2>1 DEF Mismatch
<1>8. QED
  BY <1>2, <1>5, <1>6, <1>7

LEMMA ControlSendable ==
  ASSUME IInv, exit = "running", thread = "starting"
  PROVE  /\ ~(pendingControl = "PAUSE" /\ paused)
         /\ Taken /\ Asked # NoControl
<1>1. ControlAgreed
  BY DEF IInv, Controls, Over
<1>2. Taken /\ Asked # NoControl
  BY <1>1 DEF ControlAgreed, WorkerFree, Sent, Accepted, Answered
<1>3. QED
  BY <1>2 DEF Taken

-----------------------------------------------------------------------------
\* The steps of the session; a rejection is a failure like any other.
Takes == /\ control' = control \/ Dropped(control, control')
         /\ data' = data \/ (Dropped(data, data') /\ ~Open)

\* Something is taken from a pipe, a failure or a receipt is noted.
Notes ==
  /\ Takes
  /\ UNCHANGED <<commands, secrets, exit, state, generation, expectedGeneration, openSent,
                 commandSequence, closeSequence, dataSequence, pending, ending, staged, held,
                 creditUnits, outstandingUnits>>
  /\ abandoned' = abandoned
     \/ (abandoned' = NoControl /\ state = "closing" /\ Dropped(control, control')
         /\ control[1].kind = "CONTROL")

\* beginClose().
Closes ==
  /\ Open
  /\ control' = control \/ Dropped(control, control')
  /\ data' = data \/ Dropped(data, data')
  /\ UNCHANGED <<exit, generation, expectedGeneration, openSent, dataSequence, outstandingUnits>>
  /\ state' = "closing" /\ ending' = NoEnd
  /\ abandoned' = pending /\ pending' = NoControl
  /\ staged' = << >> /\ held' = {} /\ creditUnits' = 0
  /\ secrets' \in Destroyed(secrets)
  /\ \/ /\ openSent
        /\ commandSequence' = commandSequence + 1 /\ closeSequence' = commandSequence + 1
        /\ Added(commands, commands', Command("CLOSE", generation, commandSequence + 1, 0))
     \/ /\ Added(commands, commands', Command("EOF", 0, 0, 0))
        /\ UNCHANGED <<commandSequence, closeSequence>>

OpenSent ==
  /\ state = "opening" /\ secrets = "written" /\ ~openSent /\ openSent'
  /\ commandSequence' = commandSequence + 1
  /\ Added(commands, commands', Command("OPEN", 0, commandSequence + 1, 0))
  /\ UNCHANGED <<control, data, secrets, exit, state, generation, expectedGeneration,
                 closeSequence, dataSequence, pending, abandoned, ending, staged, held,
                 creditUnits, outstandingUnits>>

HelloTaken ==
  /\ state = "opening" /\ secrets' = "written" /\ Dropped(control, control')
  /\ UNCHANGED <<commands, data, exit, sessionVars>>

ReadyTaken ==
  /\ state = "opening" /\ generation = 0 /\ readySent /\ wGeneration = 1
  /\ Dropped(control, control')
  /\ generation' = 1 /\ state' = "playing"
  /\ held' = held \cup Units(staged) /\ staged' = << >>
  /\ ending' = Finished(ending, 1, dataSequence)
  /\ control[1].kind = "READY"
  /\ UNCHANGED <<commands, data, secrets, exit, expectedGeneration, openSent, commandSequence,
                 closeSequence, dataSequence, pending, abandoned, creditUnits, outstandingUnits>>

ControlTaken ==
  /\ Open /\ ~Idle /\ Dropped(control, control') /\ control[1].kind = "CONTROL"
  /\ Answered /\ ControlAgreed
  /\ generation' = pending.gen /\ state' = StateAfter(pending.kind)
  /\ held' = held \cup Units(staged) /\ staged' = << >>
  /\ pending' = NoControl
  /\ ending' = Finished(ending, pending.gen, dataSequence)
  /\ UNCHANGED <<commands, data, secrets, exit, expectedGeneration, openSent, commandSequence,
                 closeSequence, dataSequence, abandoned, creditUnits, outstandingUnits>>

EndTaken ==
  /\ Open /\ ending = NoEnd /\ Dropped(control, control')
  /\ \E g, w \in Nat :
       /\ control[1].kind = "END" /\ control[1].gen = g /\ control[1].watermark = w
       /\ EndHolds(g, w) /\ generation <= g
       /\ ~Idle => g # generation
       /\ Idle /\ state # "opening" => g = generation
       /\ ending'.gen = g /\ ending'.watermark = w
       /\ ending'.complete => g = generation /\ dataSequence = w
  /\ UNCHANGED <<commands, data, secrets, exit, state, generation, expectedGeneration, openSent,
                 commandSequence, closeSequence, dataSequence, pending, abandoned, staged, held,
                 creditUnits, outstandingUnits>>

\* A unit is released at once, staged or handed to the consumers.
DataTaken(u) ==
  /\ Open /\ u = data[1] /\ Dropped(data, data')
  /\ u \in UnitSet /\ u.gen \in Nat /\ u.seq \in Nat /\ dataSequence < u.seq /\ u.seq <= wSequence
  /\ u.gen <= expectedGeneration /\ 0 < u.gen /\ u.gen <= wGeneration
  /\ ~(ending.gen = u.gen /\ u.seq > ending.watermark)
  /\ dataSequence' = u.seq /\ outstandingUnits' = outstandingUnits + 1
  /\ outstandingUnits + 1 <= QueueUnits
  /\ ending' = IF Idle /\ state # "opening"
               THEN Finished(ending, generation, u.seq) ELSE ending
  /\ \/ /\ Obsolete(u) /\ creditUnits' = creditUnits + 1 /\ UNCHANGED <<staged, held>>
     \/ /\ ~Obsolete(u) /\ Ahead(u) /\ Added(staged, staged', u) /\ UNCHANGED <<creditUnits, held>>
     \/ /\ ~Obsolete(u) /\ ~Ahead(u) /\ held' = held \cup {u} /\ UNCHANGED <<creditUnits, staged>>
  /\ UNCHANGED <<commands, control, secrets, exit, state, generation, expectedGeneration, openSent,
                 commandSequence, closeSequence, pending, abandoned>>

CreditsSent ==
  /\ Open /\ creditUnits > 0 /\ creditUnits <= outstandingUnits
  /\ outstandingUnits' = outstandingUnits - creditUnits /\ creditUnits' = 0
  /\ Added(commands, commands', Command("CREDIT", generation, 0, creditUnits))
  /\ UNCHANGED <<control, data, secrets, exit, state, generation, expectedGeneration, openSent,
                 commandSequence, closeSequence, dataSequence, pending, abandoned, ending, staged,
                 held>>

Killed ==
  /\ state = "closing" /\ exit' \in (IF exit = "running" THEN {"killed", "running"} ELSE {exit})
  /\ Added(commands, commands', Command("EOF", 0, 0, 0))
  /\ UNCHANGED <<control, data, secrets, state, generation, expectedGeneration, openSent,
                 commandSequence, closeSequence, dataSequence, pending, abandoned, ending, staged,
                 held, creditUnits, outstandingUnits>>

Leaves ==
  /\ state # "closed" /\ state' = "closed"
  /\ exit = "running" => ~Open
  /\ ending' = NoEnd /\ pending' = NoControl
  /\ staged' = << >> /\ held' = {} /\ creditUnits' = 0
  /\ secrets' \in Destroyed(secrets)
  /\ Added(commands, commands', Command("EOF", 0, 0, 0))
  /\ UNCHANGED <<control, data, exit, generation, expectedGeneration, openSent, commandSequence,
                 closeSequence, dataSequence, abandoned, outstandingUnits>>

Issues(kind) ==
  /\ IssueControl(kind)
  /\ Added(commands, commands', Command(kind, generation, commandSequence + 1, 0))

SessionStep ==
  \/ Notes \/ Closes \/ OpenSent \/ HelloTaken \/ ReadyTaken \/ ControlTaken \/ EndTaken
  \/ \E u : DataTaken(u)
  \/ \E u \in held : Consume(u)
  \/ CreditsSent
  \/ \E kind \in Kinds : Issues(kind)
  \/ Killed \/ Leaves

LEMMA CloseCases ==
  ASSUME IInv, Open, NEW c, NEW a \in BOOLEAN, BeginClose(c, a), a => openSent, c = "protocol" => Excused,
         control' = control \/ Dropped(control, control'), data' = data \/ Dropped(data, data'),
         UNCHANGED <<exit, generation, expectedGeneration, openSent, dataSequence,
                     outstandingUnits>>
  PROVE  Closes /\ (failure' = "protocol" => Excused)
<1>1. /\ Command("CLOSE", generation, commandSequence + 1, 0) \in CommandSet
      /\ Command("EOF", 0, 0, 0) \in CommandSet
  <2>1. generation \in Nat /\ commandSequence \in Nat
    BY Counts
  <2>2. commandSequence + 1 \in Nat
    BY <2>1
  <2>3. QED
    BY <2>1, <2>2, CommandTypes DEF Commands
<1>2. commands \in Seq(CommandSet) /\ (failure = "protocol" => Excused)
  BY Counts DEF IInv, NoRejection
<1>3. failure' = "protocol" => Excused
  BY <1>2 DEF BeginClose, Cause
<1>4. CASE a
  <2>1. Added(commands, commands', Command("CLOSE", generation, commandSequence + 1, 0))
    BY <1>1, <1>2, <1>4, AddedAppend DEF BeginClose
  <2>2. QED
    BY <1>3, <1>4, <2>1 DEF BeginClose, Closes
<1>5. CASE ~a
  <2>1. Added(commands, commands', Command("EOF", 0, 0, 0))
    BY <1>1, <1>2, <1>5, AddedAppend DEF BeginClose
  <2>2. QED
    BY <1>3, <1>5, <2>1 DEF BeginClose, Closes
<1>6. QED
  BY <1>4, <1>5

LEMMA FailCases ==
  ASSUME IInv, NEW c, Fail(c), c = "protocol" => Excused,
         control' = control \/ Dropped(control, control'),
         data' = data \/ (Dropped(data, data') /\ Open),
         UNCHANGED <<exit, generation, expectedGeneration, openSent, dataSequence,
                     outstandingUnits>>
  PROVE  (Closes \/ Notes) /\ (failure' = "protocol" => Excused)
<1>1. CASE Open
  <2>1. BeginClose(c, openSent /\ receipt = NoReceipt)
    BY <1>1 DEF Fail
  <2>2. QED
    BY <1>1, <2>1, CloseCases
<1>2. CASE ~Open
  <2>1. failure = "protocol" => Excused
    BY DEF IInv, NoRejection
  <2>2. QED
    BY <1>2, <2>1 DEF Fail, Notes, Takes, Cause
<1>3. QED
  BY <1>1, <1>2

LEMMA SessionCases ==
  ASSUME IInv, SessionNext
  PROVE  SessionStep /\ (failure' = "protocol" => Excused)
<1> USE DEF SessionStep
<1>1. commands \in Seq(CommandSet) /\ (failure = "protocol" => Excused)
  BY Counts DEF IInv, NoRejection
<1>2. CASE Close
  <2>1. BeginClose("none", openSent /\ receipt = NoReceipt) /\ Open
    BY <1>2 DEF Close
  <2>2. QED
    BY <1>2, <2>1, CloseCases DEF Close, restVars
<1>3. CASE Abort \/ OpenDeadline \/ ControlDeadline \/ EndDeadline \/ PipeEnd
  <2>1. \E c : Fail(c) /\ c # "protocol" /\ UNCHANGED <<restVars, control>>
    BY <1>3 DEF Abort, OpenDeadline, ControlDeadline, EndDeadline, PipeEnd
  <2>2. QED
    BY <2>1, FailCases DEF restVars
<1>4. CASE SendOpen
  <2>1. Command("OPEN", 0, commandSequence + 1, 0) \in CommandSet
    <3>1. commandSequence \in Nat
      BY Counts
    <3>2. commandSequence + 1 \in Nat
      BY <3>1
    <3>3. QED
      BY <3>2, CommandTypes DEF Commands
  <2>2. Added(commands, commands', Command("OPEN", 0, commandSequence + 1, 0))
    BY <1>1, <1>4, <2>1, AddedAppend DEF SendOpen
  <2>3. OpenSent
    BY <1>4, <2>2 DEF SendOpen, OpenSent
  <2>4. failure' = "protocol" => Excused
    BY <1>1, <1>4 DEF SendOpen
  <2>5. QED
    BY <2>3, <2>4
<1>5. CASE OnHello
  <2>1. Dropped(control, control')
    BY <1>5, FirstFrame DEF OnHello
  <2>2. CASE state = "opening"
    BY <1>1, <1>5, <2>1, <2>2 DEF OnHello, HelloTaken, sessionVars
  <2>3. CASE state # "opening"
    BY <1>1, <1>5, <2>1, <2>3 DEF OnHello, Notes, Takes, sessionVars
  <2>4. QED
    BY <2>2, <2>3
<1>6. CASE OnReady
  <2> DEFINE m == Head(control)
  <2>1. /\ Belongs(m) /\ openSent /\ m.gen = 1 /\ m.seq = OpenSequence
        /\ state \in {"opening", "closing"} /\ ~Overrun(ending, 1, dataSequence)
        /\ generation = 0 /\ readySent /\ wGeneration = 1
    BY <1>6, ReadyAccepted DEF OnReady
  <2>2. Dropped(control, control') /\ control[1].kind = "READY"
    BY <1>6, FirstFrame DEF OnReady
  <2>3. CASE state = "closing"
    BY <1>1, <1>6, <2>1, <2>2, <2>3 DEF OnReady, Notes, Takes, closeVars
  <2>4. CASE state = "opening"
    BY <1>1, <1>6, <2>1, <2>2, <2>4 DEF OnReady, ReadyTaken
  <2>5. QED
    BY <2>1, <2>3, <2>4
<1>7. CASE OnControl
  <2> DEFINE m == Head(control)
             asked == IF ~Idle THEN pending ELSE IF state = "closing" THEN abandoned ELSE NoControl
  <2>1. /\ Belongs(m) /\ Asked # NoControl /\ m.seq = Asked.seq /\ m.gen = Asked.gen
        /\ m.command = Asked.kind /\ m.state = StateAfter(Asked.kind)
        /\ Asked = asked
        /\ state # "closing" => ~Overrun(ending, m.gen, dataSequence) \/ Excused
        /\ Answered /\ ControlAgreed
    BY <1>7, ControlAccepted DEF OnControl
  <2>2. Dropped(control, control') /\ control[1].kind = "CONTROL" /\ state # "closed"
    BY <1>7, FirstFrame DEF OnControl
  <2>3. CASE state = "closing"
    <3>1. /\ abandoned' = NoControl
          /\ UNCHANGED <<state, failure, ending, pending, staged, held, creditUnits, secrets,
                         timer, commandSequence, closeSequence, commands, generation>>
          /\ UNCHANGED <<expectedGeneration, openSent, dataSequence, outstandingUnits, receipt,
                         result, data, exit>>
      BY <1>7, <2>1, <2>3 DEF OnControl
    <3>2. QED
      BY <1>1, <2>2, <2>3, <3>1 DEF Notes, Takes
  <2>4. CASE state # "closing" /\ Overrun(ending, m.gen, dataSequence)
    <3>1. Fail("protocol") /\ Excused
          /\ UNCHANGED <<generation, expectedGeneration, openSent, dataSequence, outstandingUnits,
                         receipt, result, data, exit>>
      BY <1>7, <2>1, <2>4 DEF OnControl
    <3>2. QED
      BY <2>2, <3>1, FailCases
  <2>5. CASE state # "closing" /\ ~Overrun(ending, m.gen, dataSequence)
    <3>1. Open /\ ~Idle /\ asked = pending
      BY <2>1, <2>2, <2>5 DEF IInv, CloseInv, LinkTypeOK, ClosingTypeOK, Open
    <3>2. /\ generation' = m.gen /\ state' = StateAfter(asked.kind)
          /\ held' = held \cup Units(staged) /\ staged' = << >>
          /\ pending' = NoControl
          /\ ending' = Finished(ending, m.gen, dataSequence)
          /\ UNCHANGED <<failure, abandoned, creditUnits, secrets, timer,
                         commandSequence, closeSequence, commands>>
          /\ UNCHANGED <<expectedGeneration, openSent, dataSequence, outstandingUnits, receipt,
                         result, data, exit>>
      BY <1>7, <2>1, <2>5 DEF OnControl
    <3>3. m.gen = pending.gen
      BY <2>1, <3>1
    <3> HIDE DEF m, asked
    <3>4. ControlTaken
      BY <2>1, <2>2, <3>1, <3>2, <3>3 DEF ControlTaken
    <3>5. QED
      BY <1>1, <3>2, <3>4
  <2>6. QED
    BY <2>3, <2>4, <2>5
<1>8. CASE OnClosed
  <2> DEFINE m == Head(control)
  <2>1. /\ Belongs(m) \/ Excused
        /\ receipt = NoReceipt /\ ~(m.gen < generation)
        /\ ~(m.seq # 0 /\ m.seq # closeSequence)
    BY <1>8, ClosedAccepted DEF OnClosed
  <2>2. Dropped(control, control')
    BY <1>8, FirstFrame DEF OnClosed
  <2>3. UNCHANGED <<generation, expectedGeneration, openSent, dataSequence, outstandingUnits,
                    result, data, exit>>
    BY <1>8 DEF OnClosed
  <2>4. CASE ~Belongs(m)
    <3>1. Fail("protocol") /\ Excused
      BY <1>8, <2>1, <2>4 DEF OnClosed
    <3>2. QED
      BY <2>2, <2>3, <3>1, FailCases
  <2>5. CASE Belongs(m)
    <3>1. IF Open THEN BeginClose("native", FALSE) ELSE UNCHANGED closeVars
      BY <1>8, <2>1, <2>5 DEF OnClosed
    <3>2. CASE Open
      BY <2>2, <2>3, <3>1, <3>2, CloseCases
    <3>3. CASE ~Open
      BY <1>1, <2>2, <2>3, <3>1, <3>3 DEF Notes, Takes, closeVars
    <3>4. QED
      BY <3>2, <3>3
  <2>6. QED
    BY <2>4, <2>5
<1>9. CASE OnError
  <2> DEFINE c == IF Belongs(Head(control)) THEN "native" ELSE "protocol"
  <2>1. Belongs(Head(control)) \/ Excused
    BY <1>9, FirstFrame DEF OnError
  <2>2. Dropped(control, control') /\ Fail(c) /\ UNCHANGED restVars
    BY <1>9, FirstFrame DEF OnError
  <2>3. c = "protocol" => Excused
    BY <2>1
  <2> HIDE DEF c
  <2>4. QED
    BY <2>2, <2>3, FailCases DEF restVars
<1>10. CASE OnEnd
  <2> DEFINE m == Head(control)
             late == m.gen < generation \/ ~Open \/ (~Idle /\ m.gen = generation)
             end == [gen |-> m.gen, watermark |-> m.watermark, complete |-> FALSE]
             current == Idle /\ state # "opening"
             rejected == \/ ~Belongs(m)
                         \/ ~late /\ ending # NoEnd
                         \/ ~late /\ current /\ Overrun(end, generation, dataSequence)
  <2>1. /\ Dropped(control, control') /\ m = control[1] /\ m.kind = "END"
        /\ UNCHANGED restVars /\ Belongs(m)
    BY <1>10, EndBelongs, FirstFrame DEF OnEnd
  <2>2. CASE late
    <3>1. /\ ending' = ending
          /\ UNCHANGED <<state, failure, abandoned, pending, staged, held, creditUnits, secrets,
                         timer, commandSequence, closeSequence, commands>>
      BY <1>10, <2>1, <2>2 DEF OnEnd
    <3>2. QED
      BY <1>1, <2>1, <3>1 DEF Notes, Takes, restVars
  <2>3. CASE ~late /\ rejected
    <3>1. relabelled # {}
      BY <1>10, <2>1, <2>3, EndAccepted DEF OnEnd
    <3>2. Fail("protocol") /\ Excused
      BY <1>10, <2>3, <3>1 DEF OnEnd, Excused
    <3>3. QED
      BY <2>1, <3>2, FailCases DEF restVars
  <2>4. CASE ~late /\ ~rejected
    <3>1. /\ ending = NoEnd /\ m.watermark \in Nat
          /\ EndHolds(m.gen, m.watermark) /\ m.gen \in Nat /\ generation <= m.gen
          /\ current => m.gen = generation /\ ~Overrun(end, generation, dataSequence)
      BY <1>10, <2>4, EndAccepted DEF OnEnd
    <3>2. /\ ending' = IF current THEN Finished(end, generation, dataSequence) ELSE end
          /\ UNCHANGED <<state, failure, abandoned, pending, staged, held, creditUnits, secrets,
                         timer, commandSequence, closeSequence, commands>>
      BY <1>10, <2>1, <2>4, <3>1 DEF OnEnd
    <3>3. end.gen = m.gen /\ end.watermark = m.watermark /\ ~end.complete
          /\ end \in [gen : Nat, watermark : Nat, complete : BOOLEAN]
      BY <3>1
    <3> HIDE DEF m, end
    <3>4. /\ ending'.gen = m.gen /\ ending'.watermark = m.watermark
          /\ ending'.complete => m.gen = generation /\ dataSequence = m.watermark
      BY <3>2, <3>3, FinishedTypes
    <3>5. EndTaken
      BY <2>1, <2>4, <3>1, <3>2, <3>4 DEF EndTaken, restVars
    <3>6. QED
      BY <1>1, <3>2, <3>5
  <2>5. QED
    BY <2>2, <2>3, <2>4
<1>11. CASE OnData
  <2> DEFINE u == Head(data)
             crowded == Len(staged) >= QueueUnits
             beyond == \/ ending.gen = u.gen /\ u.seq > ending.watermark
                       \/ Idle /\ state # "opening" /\ Overrun(ending, generation, u.seq)
  <2>1. Dropped(data, data') /\ data # << >>
    BY <1>11, Counts, DroppedTail DEF OnData
  <2>2. CASE ~Open
    <3>1. UNCHANGED <<closeVars, dataSequence, outstandingUnits, control, generation,
                      expectedGeneration, openSent, receipt, result, exit>>
      BY <1>11, <2>2 DEF OnData
    <3>2. QED
      BY <1>1, <2>1, <2>2, <3>1 DEF Notes, Takes, closeVars
  <2>3. CASE Open /\ beyond
    <3>1. Excused
      BY <2>1, <2>3, DataAccepted DEF Excused
    <3>2. /\ Fail("protocol")
          /\ UNCHANGED <<dataSequence, outstandingUnits, control, generation, expectedGeneration,
                         openSent, receipt, result, exit>>
      BY <1>11, <2>3 DEF OnData
    <3>3. QED
      BY <2>1, <2>3, <3>1, <3>2, FailCases
  <2>4. CASE Open /\ ~beyond
    <3>1. /\ u \in UnitSet /\ u = data[1] /\ u.gen \in Nat /\ u.seq \in Nat
          /\ openSent /\ u.gen <= expectedGeneration /\ u.seq > dataSequence /\ u.seq <= wSequence
          /\ ~(ending.gen = u.gen /\ u.seq > ending.watermark)
          /\ outstandingUnits + 1 <= QueueUnits /\ Len(staged) < QueueUnits
          /\ Idle /\ state # "opening" => ~Overrun(ending, generation, u.seq)
          /\ 0 < u.gen /\ u.gen <= wGeneration
      BY <2>1, <2>4, DataAccepted
    <3>2. /\ ~(u.gen > expectedGeneration) /\ ~(u.seq <= dataSequence)
          /\ ~(outstandingUnits + 1 > QueueUnits) /\ ~crowded /\ dataSequence < u.seq
      <4>1. /\ expectedGeneration \in Nat /\ dataSequence \in Nat /\ outstandingUnits \in Nat
            /\ QueueUnits \in Nat /\ Len(staged) \in Nat
        BY Counts
      <4>2. QED
        BY <3>1, <4>1
    <3>3. /\ dataSequence' = u.seq /\ outstandingUnits' = outstandingUnits + 1
          /\ ending' = IF Idle /\ state # "opening"
                       THEN Finished(ending, generation, u.seq) ELSE ending
          /\ creditUnits' = IF Obsolete(u) THEN creditUnits + 1 ELSE creditUnits
          /\ staged' = IF Obsolete(u) \/ ~Ahead(u) THEN staged ELSE Append(staged, u)
          /\ held' = IF Obsolete(u) \/ Ahead(u) THEN held ELSE held \cup {u}
          /\ UNCHANGED <<state, failure, abandoned, pending, secrets, timer,
                         commandSequence, closeSequence, commands>>
          /\ UNCHANGED <<control, generation, expectedGeneration, openSent, receipt, result, exit>>
      BY <1>11, <2>4, <3>1, <3>2 DEF OnData
    <3>4. Added(staged, Append(staged, u), u)
      BY <3>1, Counts, AddedAppend
    <3> HIDE DEF u, crowded
    <3>5. \/ /\ Obsolete(u) /\ creditUnits' = creditUnits + 1 /\ UNCHANGED <<staged, held>>
          \/ /\ ~Obsolete(u) /\ Ahead(u) /\ Added(staged, staged', u)
             /\ UNCHANGED <<creditUnits, held>>
          \/ /\ ~Obsolete(u) /\ ~Ahead(u) /\ held' = held \cup {u} /\ UNCHANGED <<creditUnits, staged>>
      BY <3>3, <3>4
    <3>6. DataTaken(u)
      BY <2>1, <2>4, <3>1, <3>2, <3>3, <3>5 DEF DataTaken
    <3>7. QED
      BY <1>1, <3>3, <3>6
  <2>5. QED
    BY <2>2, <2>3, <2>4
<1>12. ASSUME NEW u \in held, Consume(u) PROVE SessionStep /\ (failure' = "protocol" => Excused)
  BY <1>1, <1>12 DEF Consume
<1>13. CASE FlushCredits
  <2>1. Open /\ creditUnits <= outstandingUnits /\ ~(creditUnits > outstandingUnits)
    <3>1. Open /\ creditUnits <= outstandingUnits
      BY <1>13, CreditsAccepted DEF FlushCredits
    <3>2. creditUnits \in Nat /\ outstandingUnits \in Nat
      BY Counts
    <3>3. QED
      BY <3>1, <3>2
  <2>2. Command("CREDIT", generation, 0, creditUnits) \in CommandSet
    <3>1. generation \in Nat /\ creditUnits \in Nat
      BY Counts
    <3>2. QED
      BY <3>1, CommandTypes DEF Commands
  <2>3. /\ creditUnits > 0
        /\ outstandingUnits' = outstandingUnits - creditUnits /\ creditUnits' = 0
        /\ commands' = Append(commands, Command("CREDIT", generation, 0, creditUnits))
        /\ UNCHANGED <<state, failure, ending, abandoned, pending, staged, held, secrets,
                       timer, commandSequence, closeSequence>>
        /\ UNCHANGED <<control, data, exit, generation, expectedGeneration, openSent, dataSequence,
                       receipt, result>>
    BY <1>13, <2>1 DEF FlushCredits
  <2>4. Added(commands, commands', Command("CREDIT", generation, 0, creditUnits))
    BY <1>1, <2>2, <2>3, AddedAppend
  <2>5. CreditsSent
    BY <2>1, <2>3, <2>4 DEF CreditsSent
  <2>6. QED
    BY <1>1, <2>3, <2>5
<1>14. ASSUME NEW kind \in Kinds, IssueControl(kind) PROVE SessionStep /\ (failure' = "protocol" => Excused)
  <2>1. Command(kind, generation, commandSequence + 1, 0) \in CommandSet
    <3>1. generation \in Nat /\ commandSequence \in Nat
      BY Counts
    <3>2. commandSequence + 1 \in Nat
      BY <3>1
    <3>3. kind \in Commands
      BY DEF Commands
    <3>4. QED
      BY <3>1, <3>2, <3>3, CommandTypes
  <2>2. Issues(kind)
    BY <1>1, <1>14, <2>1, AddedAppend DEF Issues, IssueControl
  <2>3. failure' = "protocol" => Excused
    BY <1>1, <1>14 DEF IssueControl
  <2>4. QED
    BY <2>2, <2>3
<1>15. Command("EOF", 0, 0, 0) \in CommandSet
  BY CommandTypes DEF Commands
<1>16. CASE CloseDeadline
  <2>1. Added(commands, commands', Command("EOF", 0, 0, 0))
    BY <1>1, <1>15, <1>16, AddedAppend DEF CloseDeadline
  <2>2. Killed
    BY <1>16, <2>1 DEF CloseDeadline, Killed
  <2>3. failure' = "protocol" => Excused
    BY <1>1, <1>16 DEF CloseDeadline, Cause
  <2>4. QED
    BY <2>2, <2>3
<1>17. ASSUME NEW observed \in BOOLEAN, Exited(observed) PROVE SessionStep /\ (failure' = "protocol" => Excused)
  <2>1. Added(commands, commands', Command("EOF", 0, 0, 0))
    BY <1>1, <1>15, <1>17, AddedAppend DEF Exited
  <2>2. exit = "running" => ~Open
    BY <1>17 DEF Exited, IInv, CloseInv, Settled
  <2>3. Leaves
    BY <1>17, <2>1, <2>2 DEF Exited, Leaves
  <2>4. failure' = "protocol" => Excused
    BY <1>1, <1>17 DEF Exited, Cause
  <2>5. QED
    BY <2>3, <2>4
<1>18. QED
  BY <1>2, <1>3, <1>4, <1>5, <1>6, <1>7, <1>8, <1>9, <1>10, <1>11, <1>12, <1>13, <1>14, <1>16, <1>17
     DEF SessionNext

-----------------------------------------------------------------------------
\* The steps of the worker that are left when nothing is rejected: a command
\* is read, or its other actions.
Reads(m) ==
  /\ m = commands[1] /\ m \in CommandSet /\ Dropped(commands, commands')
  /\ commands' \in Seq(CommandSet)
  /\ m.kind \in Commands /\ m.gen \in Nat /\ m.seq \in Nat /\ m.units \in Nat
  /\ exit = "running" /\ loop = "command" /\ loop' = "bus"
  /\ UNCHANGED <<control, data, secrets, exit, streamVars, pipeline, error, rtspVars,
                 wGeneration, ready, readySent>>

EofRead ==
  /\ Reads(commands[1]) /\ commands[1].kind = "EOF" /\ done' = TRUE
  /\ wFailure' = IF secrets = "destroyed" THEN Failing("native") ELSE wFailure
  /\ UNCHANGED <<opened, wRequest, closeRequest, ipcVars, controlVars>>
OpenRead ==
  /\ Reads(commands[1]) /\ commands[1].kind = "OPEN" /\ ~opened /\ opened' = TRUE
  /\ openSent /\ commands[1].seq = 1 /\ wRequest' = 1
  /\ UNCHANGED <<closeRequest, done, wFailure, ipcVars, controlVars>>
CloseRead ==
  /\ Reads(commands[1]) /\ commands[1].kind = "CLOSE" /\ opened
  /\ done' = TRUE /\ closeRequest' = commands[1].seq
  /\ UNCHANGED <<opened, wRequest, wFailure, ipcVars, controlVars>>
CreditRead ==
  /\ Reads(commands[1]) /\ commands[1].kind = "CREDIT" /\ pipeline
  /\ credits' = credits + commands[1].units
  /\ UNCHANGED <<opened, wRequest, closeRequest, done, wFailure, accepting, suspended, resuming,
                 passed, sending, frames, wSequence, controlVars>>
ControlRead ==
  /\ Reads(commands[1]) /\ commands[1].kind \in Kinds /\ pipeline /\ ready
  /\ pendingControl' = commands[1].kind /\ wRequest' = commands[1].seq
  /\ accepting' = FALSE /\ suspended' = TRUE
  /\ frames' = << >> /\ credits' = credits + Len(frames)
  /\ pendingGeneration' = IF commands[1].kind = "PAUSE" THEN pendingGeneration ELSE wGeneration + 1
  /\ thread' = "starting"
  /\ UNCHANGED <<wFailure, controlReady, paused, resuming, passed, sending, wSequence, opened,
                 closeRequest, done>>

\* The request of a control goes out.
ControlRequested ==
  /\ exit = "running" /\ thread = "starting" /\ Taken /\ Asked # NoControl
  /\ rtsp' = IF pendingControl = "PAUSE" THEN "PAUSE" ELSE "PLAY"
  /\ thread' = "running"
  /\ UNCHANGED <<pipes, ipcVars, streamVars, openVars, pendingGeneration, pendingControl,
                 controlReady, paused, loopVars, setupSent, server, wGeneration, wRequest,
                 ready, readySent, wFailure>>

WorkerStep ==
  \/ LoopIdle \/ EofRead \/ OpenRead \/ CloseRead \/ CreditRead \/ ControlRead
  \/ OpenNative \/ LoopBus \/ LoopAck
  \/ ControlRequested \/ ThreadEnds \/ Setup \/ PlayAccepted \/ ResumeIpc \/ PauseAccepted
  \/ NativeFailure \/ Expire \/ SendCheck \/ SendData \/ MediaIpcData \/ Writer \/ EndOfStream
  \/ \E teardown \in {"ok", "gone", "none"}, local \in BOOLEAN : CloseNative(teardown, local)
  \/ Crash

\* All but the reading of a command and the request of a control are as they
\* are; those two are never refused.
LEMMA CommandReads ==
  ASSUME IInv, LoopCommand
  PROVE  (EofRead \/ OpenRead \/ CloseRead \/ CreditRead \/ ControlRead) /\ wFailure' # "protocol"
<1> DEFINE m == Head(commands)
<1>1. commands \in Seq(CommandSet) /\ wFailure # "protocol"
  BY Counts DEF IInv, NoRejection
<1>2. /\ Dropped(commands, commands') /\ commands' \in Seq(CommandSet)
      /\ m = commands[1] /\ m \in CommandSet
      /\ loop = "command" /\ exit = "running" /\ commands # << >>
  BY <1>1, CommandTaken DEF LoopCommand
<1>3. m.kind \in Commands /\ m.gen \in Nat /\ m.seq \in Nat /\ m.units \in Nat
  BY <1>2, FirstCommand
<1>4. /\ m.kind = "OPEN" => ~opened /\ openSent /\ m.seq = 1
      /\ m.kind # "EOF" => ~Mismatch(m)
      /\ m.kind = "CREDIT" => pipeline /\ ~(m.units > QueueUnits - credits)
      /\ m.kind \notin {"EOF", "OPEN", "CLOSE", "CREDIT"} => pipeline /\ ~Busy(m)
  BY <1>2, CommandAccepted
<1>5. m.kind \notin {"EOF", "OPEN"} => opened
  BY <1>4 DEF Mismatch
<1>6. m.kind \notin {"EOF", "OPEN", "CLOSE", "CREDIT"} => m.kind \in Kinds /\ ready
  BY <1>3, <1>4 DEF Commands, Busy
<1>7. /\ loop' = "bus"
      /\ UNCHANGED <<control, data, secrets, exit, streamVars, pipeline, error, rtspVars,
                     wGeneration, ready, readySent>>
  BY CommandCases
<1> HIDE DEF m
<1>8. Reads(m)
  BY <1>2, <1>3, <1>7 DEF Reads
<1>9. CASE m.kind = "EOF"
  <2>1. /\ done' = TRUE
        /\ wFailure' = IF secrets = "destroyed" THEN Failing("native") ELSE wFailure
        /\ UNCHANGED <<opened, wRequest, closeRequest, ipcVars, controlVars>>
    BY <1>9, CommandCases DEF m
  <2>2. wFailure' # "protocol"
    BY <1>1, <2>1 DEF Failing
  <2>3. QED
    BY <1>2, <1>8, <1>9, <2>1, <2>2 DEF EofRead
<1>10. CASE m.kind = "OPEN"
  <2>1. /\ opened' = TRUE /\ wRequest' = m.seq
        /\ UNCHANGED <<closeRequest, done, wFailure, ipcVars, controlVars>>
    BY <1>4, <1>10, CommandCases DEF m
  <2>2. QED
    BY <1>1, <1>2, <1>4, <1>8, <1>10, <2>1 DEF OpenRead
<1>11. CASE m.kind = "CLOSE"
  <2>1. /\ done' = TRUE /\ closeRequest' = m.seq
        /\ UNCHANGED <<opened, wRequest, wFailure, ipcVars, controlVars>>
    BY <1>4, <1>11, CommandCases DEF m
  <2>2. QED
    BY <1>1, <1>2, <1>5, <1>8, <1>11, <2>1 DEF CloseRead
<1>12. CASE m.kind = "CREDIT"
  <2>1. /\ credits' = credits + m.units
        /\ UNCHANGED <<opened, wRequest, closeRequest, done, wFailure, accepting, suspended,
                       resuming, passed, sending, frames, wSequence, controlVars>>
    BY <1>4, <1>12, CommandCases DEF m
  <2>2. QED
    BY <1>1, <1>2, <1>4, <1>8, <1>12, <2>1 DEF CreditRead
<1>13. CASE m.kind \notin {"EOF", "OPEN", "CLOSE", "CREDIT"}
  <2>1. TakeControl(m) /\ UNCHANGED <<opened, closeRequest, done>>
    BY <1>4, <1>13, CommandCases DEF m
  <2>2. ControlRead
    BY <1>2, <1>4, <1>6, <1>8, <1>13, <2>1 DEF ControlRead, TakeControl
  <2>3. QED
    BY <1>1, <2>1, <2>2 DEF TakeControl
<1>14. QED
  BY <1>9, <1>10, <1>11, <1>12, <1>13

LEMMA WorkerCases ==
  ASSUME IInv, WorkerNext
  PROVE  WorkerStep /\ wFailure' # "protocol"
<1>1. wFailure # "protocol"
  BY DEF IInv, NoRejection
<1>2. CASE LoopCommand
  BY <1>2, CommandReads DEF WorkerStep
<1>3. CASE SendControl
  <2>1. /\ ~(pendingControl = "PAUSE" /\ paused) /\ Taken /\ Asked # NoControl
        /\ exit = "running" /\ thread = "starting"
    BY <1>3, ControlSendable DEF SendControl, Running
  <2>2. ControlRequested /\ wFailure' = wFailure
    BY <1>3, <2>1 DEF SendControl, ControlRequested
  <2>3. QED
    BY <1>1, <2>2 DEF WorkerStep
<1>4. CASE NativeFailure
  BY <1>4 DEF NativeFailure, WorkerStep
<1>5. CASE LoopIdle \/ OpenNative \/ LoopBus \/ LoopAck \/ ThreadEnds \/ Setup
  BY <1>1, <1>5 DEF WorkerStep, LoopIdle, OpenNative, LoopBus, LoopAck, ThreadEnds, Setup
<1>6. CASE \/ PlayAccepted \/ ResumeIpc \/ PauseAccepted \/ Expire
           \/ SendCheck \/ SendData \/ MediaIpcData \/ Writer \/ EndOfStream
  BY <1>1, <1>6 DEF WorkerStep, PlayAccepted, ResumeIpc, PauseAccepted, Expire, SendCheck, SendData,
                    MediaIpcData, Writer, EndOfStream
<1>7. ASSUME NEW teardown \in {"ok", "gone", "none"}, NEW local \in BOOLEAN,
             CloseNative(teardown, local)
      PROVE  WorkerStep /\ wFailure' # "protocol"
  BY <1>1, <1>7 DEF WorkerStep, CloseNative
<1>8. CASE Crash
  BY <1>1, <1>8 DEF Crash, workerVars, WorkerStep
<1>9. QED
  BY <1>2, <1>3, <1>4, <1>5, <1>6, <1>7, <1>8 DEF WorkerNext

-----------------------------------------------------------------------------
\* What the other side leaves alone.
LEMMA WorkerSame ==
  ASSUME UNCHANGED workerVars
  PROVE  /\ UNCHANGED <<accepting, resuming, passed, sending, frames, credits, wSequence, eos,
                        streamEnded, relabelled, opened, pipeline, pendingGeneration,
                        pendingControl, controlReady, thread>>
         /\ UNCHANGED <<paused, loop, done, closeRequest, setupSent, rtsp, server, wGeneration,
                        wRequest, ready, readySent, wFailure>>
  BY DEF workerVars, ipcVars, streamVars, openVars, controlVars, loopVars, rtspVars

LEMMA SessionSame ==
  ASSUME UNCHANGED sessionVars
  PROVE  /\ UNCHANGED <<state, generation, expectedGeneration, openSent, commandSequence,
                        closeSequence, dataSequence, pending, abandoned, ending, staged, held>>
         /\ UNCHANGED <<creditUnits, outstandingUnits, failure, receipt, timer, result>>
  BY DEF sessionVars

\* What a session step does to the pipes.
LEMMA SessionPipes ==
  ASSUME IInv, SessionStep
  PROVE  /\ data' = data \/ Dropped(data, data')
         /\ control' = control \/ Dropped(control, control')
         /\ ~ready => data' = data
         /\ exit' = exit \/ (exit = "running" /\ exit' = "killed" /\ state = "closing")
<1>1. data' = data \/ Dropped(data, data')
  BY DEF SessionStep, Notes, Takes, Closes, OpenSent, HelloTaken, ReadyTaken, ControlTaken, EndTaken,
         DataTaken, Consume, CreditsSent, Issues, IssueControl, Killed, Leaves, pipes
<1>2. control' = control \/ Dropped(control, control')
  BY DEF SessionStep, Notes, Takes, Closes, OpenSent, HelloTaken, ReadyTaken, ControlTaken, EndTaken,
         DataTaken, Consume, CreditsSent, Issues, IssueControl, Killed, Leaves, pipes
<1>3. ~ready => data' = data
  <2>1. ~ready => data = << >>
    BY DEF IInv, Opening
  <2>2. data = << >> => ~Dropped(data, data')
    BY DEF Dropped
  <2>3. QED
    BY <1>1, <2>1, <2>2
<1>4. exit' = exit \/ (exit = "running" /\ exit' = "killed" /\ state = "closing")
  BY DEF SessionStep, Notes, Takes, Closes, OpenSent, HelloTaken, ReadyTaken, ControlTaken, EndTaken,
         DataTaken, Consume, CreditsSent, Issues, IssueControl, Killed, Leaves, pipes
<1>5. QED
  BY <1>1, <1>2, <1>3, <1>4

\* The counters of the session.
LEMMA SessionCounts ==
  ASSUME IInv, SessionStep
  PROVE  /\ commandSequence' \in {commandSequence, commandSequence + 1}
         /\ commandSequence \in Nat /\ commandSequence' \in Nat /\ commandSequence <= commandSequence'
         /\ openSent => openSent'
         /\ state \in {"closing", "closed"} => state' \in {"closing", "closed"}
<1>1. commandSequence' \in {commandSequence, commandSequence + 1}
  BY DEF SessionStep, Notes, Closes, OpenSent, HelloTaken, ReadyTaken, ControlTaken, EndTaken,
         DataTaken, Consume, CreditsSent, Issues, IssueControl, Killed, Leaves, sessionVars
<1>2. commandSequence \in Nat
  BY Counts
<1>3. openSent => openSent'
  BY DEF SessionStep, Notes, Closes, OpenSent, HelloTaken, ReadyTaken, ControlTaken, EndTaken,
         DataTaken, Consume, CreditsSent, Issues, IssueControl, Killed, Leaves, sessionVars
<1>4. state \in {"closing", "closed"} => state' \in {"closing", "closed"}
  BY DEF SessionStep, Notes, Closes, OpenSent, HelloTaken, ReadyTaken, ControlTaken, EndTaken,
         DataTaken, Consume, CreditsSent, Issues, IssueControl, Killed, Leaves, sessionVars, Open
<1>5. QED
  BY <1>1, <1>2, <1>3, <1>4

-----------------------------------------------------------------------------
LEMMA SessionOpening ==
  ASSUME IInv, SessionStep, UNCHANGED workerVars
  PROVE  Opening'
<1>1. UNCHANGED <<readySent, ready, frames, accepting, passed, sending, wSequence, eos, streamEnded,
                  paused, pipeline, credits>>
  BY WorkerSame
<1>2. ~ready => data' = data
  BY SessionPipes
<1>3. openSent' => commandSequence' > 0
  <2>1. commandSequence \in Nat /\ commandSequence' \in {commandSequence, commandSequence + 1}
    BY SessionCounts
  <2>2. CASE openSent
    <3>1. commandSequence > 0
      BY <2>2 DEF IInv, Opening
    <3>2. QED
      BY <2>1, <3>1
  <2>3. CASE ~openSent /\ openSent'
    <3>1. commandSequence' = commandSequence + 1
      BY <2>3 DEF SessionStep, Notes, Closes, OpenSent, HelloTaken, ReadyTaken, ControlTaken, EndTaken,
             DataTaken, Consume, CreditsSent, Issues, IssueControl, Killed, Leaves, sessionVars
    <3>2. QED
      BY <2>1, <3>1
  <2>4. QED
    BY <2>2, <2>3
<1>4. ~pipeline => outstandingUnits' = 0
  <2>1. ~pipeline => ~ready /\ outstandingUnits = 0
    BY DEF IInv, Opening, CloseInv, Stages
  <2>2. outstandingUnits' # outstandingUnits =>
          \/ Dropped(data, data') /\ data' # data
          \/ creditUnits > 0 /\ creditUnits <= outstandingUnits
    <3>1. ASSUME NEW u, DataTaken(u) PROVE data' # data
      <4>1. Len(data) \in Nat
        BY Counts
      <4>2. QED
        BY <3>1, <4>1 DEF DataTaken, Dropped
    <3>2. QED
      BY <3>1 DEF SessionStep, Notes, Closes, OpenSent, HelloTaken, ReadyTaken, ControlTaken, EndTaken,
             DataTaken, Consume, CreditsSent, Issues, IssueControl, Killed, Leaves, sessionVars
  <2>3. creditUnits \in Nat
    BY Counts
  <2>4. QED
    BY <1>2, <2>1, <2>2, <2>3
<1>5. ~openSent' => commandSequence' = 0
  <2> SUFFICES ASSUME ~openSent' PROVE commandSequence' = 0
    OBVIOUS
  <2>1. ~openSent
    BY SessionCounts
  <2>2. commandSequence = 0 /\ ~Playing
    BY <2>1 DEF IInv, Opening
  <2>3. commandSequence' = commandSequence
    BY <2>1, <2>2 DEF SessionStep, Notes, Closes, OpenSent, HelloTaken, ReadyTaken, ControlTaken, EndTaken,
             DataTaken, Consume, CreditsSent, Issues, IssueControl, Killed, Leaves, sessionVars, Playing
  <2>4. QED
    BY <2>2, <2>3
<1>6. openSent' => secrets' = "written"
  BY DEF SessionStep, Notes, Closes, OpenSent, HelloTaken, ReadyTaken, ControlTaken, EndTaken,
         DataTaken, Consume, CreditsSent, Issues, IssueControl, Killed, Leaves, sessionVars, pipes,
         Destroyed, IInv, Opening
<1>7. /\ ~openSent' => ~Playing' 
      /\ Playing' => generation' # 0
      /\ generation' # 0 => readySent' /\ state' # "opening"
      /\ ~Idle' => Playing'
  <2>1. CASE Notes \/ OpenSent \/ HelloTaken \/ EndTaken \/ (\E u : DataTaken(u)) \/ CreditsSent \/ Killed
             \/ (\E u \in held : Consume(u))
    <3>1. UNCHANGED <<state, generation, pending>> /\ (openSent => openSent')
      BY <2>1, SessionCounts DEF Notes, OpenSent, HelloTaken, EndTaken, DataTaken, CreditsSent, Killed,
             Consume, sessionVars
    <3>2. QED
      BY <1>1, <3>1 DEF IInv, Opening, Playing, Idle
  <2>2. CASE Closes \/ Leaves
    <3>1. state' \in {"closing", "closed"} /\ generation' = generation /\ pending' = NoControl
      BY <2>2 DEF Closes, Leaves
    <3>2. QED
      BY <1>1, <3>1 DEF IInv, Opening, Playing, Idle, NoControl
  <2>3. CASE ReadyTaken
    <3>1. openSent
      BY <2>3 DEF ReadyTaken, IInv, Opening, CloseInv, Stages
    <3>2. QED
      BY <1>1, <2>3, <3>1 DEF ReadyTaken, Playing, Idle, IInv, Opening
  <2>4. CASE ControlTaken
    <3>1. Asked = pending /\ pending # NoControl
      BY <2>4 DEF ControlTaken, Asked, Idle
    <3>2. generation # 0 /\ pending.gen = expectedGeneration /\ readySent /\ Playing
      BY <2>4, <3>1 DEF ControlTaken, ControlAgreed, IInv, Opening, Idle
    <3>3. generation <= expectedGeneration
      <4>1. generation <= wGeneration /\ wGeneration <= expectedGeneration
        BY DEF IInv, Numbers
      <4>2. generation \in Nat /\ wGeneration \in Nat /\ expectedGeneration \in Nat
        BY Counts
      <4>3. QED
        BY <4>1, <4>2
    <3>4. pending.gen # 0
      <4>1. generation \in Nat /\ expectedGeneration \in Nat
        BY Counts
      <4>2. QED
        BY <3>2, <3>3, <4>1
    <3>5. openSent
      BY <3>2 DEF IInv, Opening
    <3>6. /\ generation' # 0 /\ state' \in {"playing", "paused"} /\ pending' = NoControl
          /\ openSent' = openSent
      BY <2>4, <3>4 DEF ControlTaken, StateAfter
    <3>7. QED
      BY <1>1, <3>2, <3>5, <3>6 DEF Playing, Idle, NoControl
  <2>5. ASSUME NEW kind \in Kinds, Issues(kind)
        PROVE  /\ ~openSent' => ~Playing' 
               /\ Playing' => generation' # 0
               /\ generation' # 0 => readySent' /\ state' # "opening"
               /\ ~Idle' => Playing'
    <3>1. UNCHANGED <<state, generation, openSent>> /\ Playing
      BY <2>5 DEF Issues, IssueControl, Playing
    <3>2. QED
      BY <1>1, <3>1 DEF IInv, Opening, Playing
  <2>6. QED
    BY <2>1, <2>2, <2>3, <2>4, <2>5 DEF SessionStep
<1>8. generation' = 0 => ~paused
  <2>1. generation' = 0 => generation = 0
    <3>1. ControlTaken => generation' # 0
      <4>1. ControlTaken => /\ generation' = expectedGeneration /\ generation # 0
                            /\ expectedGeneration \in {generation, generation + 1}
        BY DEF ControlTaken, ControlAgreed, Asked, Idle
      <4>2. generation \in Nat
        BY Counts
      <4>3. QED
        BY <4>1, <4>2
    <3>2. QED
      BY <3>1 DEF SessionStep, Notes, Closes, OpenSent, HelloTaken, ReadyTaken, EndTaken,
             DataTaken, Consume, CreditsSent, Issues, IssueControl, Killed, Leaves, sessionVars
  <2>2. QED
    BY <2>1 DEF IInv, Opening
<1>9. QED
  BY <1>1, <1>2, <1>3, <1>4, <1>5, <1>6, <1>7, <1>8 DEF IInv, Opening

LEMMA WorkerOpening ==
  ASSUME IInv, WorkerStep, UNCHANGED sessionVars
  PROVE  Opening'
<1>1. UNCHANGED <<openSent, commandSequence, state, generation, pending, outstandingUnits>>
  BY SessionSame
<1>2. secrets' = secrets
  BY DEF WorkerStep, LoopIdle, EofRead, OpenRead, CloseRead, CreditRead, ControlRead, Reads, OpenNative,
         LoopBus, LoopAck, ControlRequested, ThreadEnds, ResumeIpc, SendCheck, Setup, PlayAccepted, PauseAccepted,
         NativeFailure, Expire, SendData, MediaIpcData, Writer, EndOfStream, CloseNative, Crash, pipes
<1>3. readySent' => ready'
  BY DEF WorkerStep, LoopIdle, EofRead, OpenRead, CloseRead, CreditRead, ControlRead, Reads, OpenNative,
         LoopBus, LoopAck, ControlRequested, ThreadEnds, ResumeIpc, SendCheck, Setup, PlayAccepted, PauseAccepted,
         NativeFailure, Expire, SendData, MediaIpcData, Writer, EndOfStream, CloseNative, Crash,
         workerVars, IInv, Opening
<1>4. readySent => readySent'
  BY DEF WorkerStep, LoopIdle, EofRead, OpenRead, CloseRead, CreditRead, ControlRead, Reads, OpenNative,
         LoopBus, LoopAck, ControlRequested, ThreadEnds, ResumeIpc, SendCheck, Setup, PlayAccepted, PauseAccepted,
         NativeFailure, Expire, SendData, MediaIpcData, Writer, EndOfStream, CloseNative, Crash,
         workerVars, IInv, Opening
<1>5. ~ready' => /\ frames' = << >> /\ data' = << >> /\ ~accepting' /\ ~passed' /\ sending' = 0
                 /\ wSequence' = 0 /\ eos' = {} /\ ~streamEnded' /\ ~paused'
  <2> SUFFICES ASSUME ~ready'
               PROVE  /\ frames' = << >> /\ data' = << >> /\ ~accepting' /\ ~passed' /\ sending' = 0
                      /\ wSequence' = 0 /\ eos' = {} /\ ~streamEnded' /\ ~paused'
    OBVIOUS
  <2>1. ~ready
    BY DEF WorkerStep, LoopIdle, EofRead, OpenRead, CloseRead, CreditRead, ControlRead, Reads, OpenNative,
         LoopBus, LoopAck, ControlRequested, ThreadEnds, ResumeIpc, SendCheck, Setup, PlayAccepted, PauseAccepted,
         NativeFailure, Expire, SendData, MediaIpcData, Writer, EndOfStream, CloseNative, Crash,
         workerVars
  <2>2. /\ frames = << >> /\ data = << >> /\ ~accepting /\ ~passed /\ sending = 0
        /\ wSequence = 0 /\ eos = {} /\ ~streamEnded /\ ~paused
    BY <2>1 DEF IInv, Opening
  <2>3. ~PauseAccepted
    <3> SUFFICES ASSUME PauseAccepted PROVE FALSE
      OBVIOUS
    <3>1. ControlAgreed /\ rtsp = "PAUSE"
      BY DEF PauseAccepted, Running, IInv, Controls, Over
    <3>2. generation # 0
      BY <3>1 DEF ControlAgreed, WorkerFree
    <3>3. QED
      BY <2>1, <3>2 DEF IInv, Opening
  <2>4. QED
    BY <2>1, <2>2, <2>3 DEF WorkerStep, LoopIdle, EofRead, OpenRead, CloseRead, CreditRead, ControlRead,
         Reads, OpenNative,
         LoopBus, LoopAck, ControlRequested, ThreadEnds, ResumeIpc, SendCheck, Setup, PlayAccepted,
         NativeFailure, Expire, SendData, MediaIpcData, Writer, EndOfStream, CloseNative, Crash,
         workerVars, pipes, ipcVars, streamVars, controlVars
<1>6. ~pipeline' => credits' = 0
  <2> SUFFICES ASSUME ~pipeline' PROVE credits' = 0
    OBVIOUS
  <2>1. ~pipeline
    BY DEF WorkerStep, LoopIdle, EofRead, OpenRead, CloseRead, CreditRead, ControlRead, Reads, OpenNative,
         LoopBus, LoopAck, ControlRequested, ThreadEnds, ResumeIpc, SendCheck, Setup, PlayAccepted, PauseAccepted,
         NativeFailure, Expire, SendData, MediaIpcData, Writer, EndOfStream, CloseNative, Crash,
         workerVars, openVars
  <2>2. credits = 0 /\ sending = 0
    BY <2>1 DEF IInv, Opening, CloseInv, Stages
  <2>3. QED
    BY <2>1, <2>2 DEF WorkerStep, LoopIdle, EofRead, OpenRead, CloseRead, CreditRead, ControlRead,
         Reads, OpenNative,
         LoopBus, LoopAck, ControlRequested, ThreadEnds, ResumeIpc, SendCheck, Setup, PlayAccepted, PauseAccepted,
         NativeFailure, Expire, SendData, MediaIpcData, Writer, EndOfStream, CloseNative, Crash,
         workerVars, ipcVars
<1>7. ~pipeline' => ~pipeline
    BY DEF WorkerStep, LoopIdle, EofRead, OpenRead, CloseRead, CreditRead, ControlRead, Reads, OpenNative,
         LoopBus, LoopAck, ControlRequested, ThreadEnds, ResumeIpc, SendCheck, Setup, PlayAccepted, PauseAccepted,
         NativeFailure, Expire, SendData, MediaIpcData, Writer, EndOfStream, CloseNative, Crash,
         workerVars, openVars
<1>8. generation = 0 => ~paused'
  <2> SUFFICES ASSUME generation = 0 PROVE ~paused'
    OBVIOUS
  <2>1. ~paused
    BY DEF IInv, Opening
  <2>2. ~PauseAccepted
    <3> SUFFICES ASSUME PauseAccepted PROVE FALSE
      OBVIOUS
    <3>1. ControlAgreed /\ rtsp = "PAUSE"
      BY DEF PauseAccepted, Running, IInv, Controls, Over
    <3>2. QED
      BY <3>1 DEF ControlAgreed, WorkerFree
  <2>3. QED
    BY <2>1, <2>2 DEF WorkerStep, LoopIdle, EofRead, OpenRead, CloseRead, CreditRead, ControlRead,
         Reads, OpenNative, LoopBus, LoopAck, ControlRequested, ThreadEnds, ResumeIpc, SendCheck, Setup, PlayAccepted,
         NativeFailure, Expire, SendData, MediaIpcData, Writer, EndOfStream, CloseNative, Crash,
         workerVars, controlVars
<1>9. QED
  BY <1>1, <1>2, <1>3, <1>4, <1>5, <1>6, <1>7, <1>8 DEF IInv, Opening, Playing, Idle

-----------------------------------------------------------------------------
\* What is under way between the two sides, while somebody can still act on it.
LEMMA ControlHeld ==
  ASSUME IInv, exit = "running" \/ state # "closed"
  PROVE  /\ ControlAgreed /\ ControlSent /\ ReceiptSent
         /\ Asked # NoControl =>
              /\ Asked.kind \in Kinds /\ generation # 0 /\ Asked.gen = expectedGeneration
              /\ Asked.seq <= commandSequence
              /\ expectedGeneration = IF Asked.kind = "PAUSE" THEN generation ELSE generation + 1
              /\ Sent \/ Taken \/ Accepted \/ Answered
         /\ Asked = NoControl => /\ NoneSent /\ NoneAnswered /\ WorkerFree
                                 /\ Playing => /\ wGeneration = generation
                                               /\ expectedGeneration = generation
                                               /\ paused = (state = "paused")
  BY DEF IInv, Controls, Over, ControlAgreed

LEMMA ControlTyped ==
  ASSUME IInv
  PROVE  Asked.seq \in Nat /\ Asked.gen \in Nat
  BY DEF IInv, CloseInv, LinkTypeOK, ClosingTypeOK, ControlSet, Asked

LEMMA SessionNumbers ==
  ASSUME IInv, SessionStep, UNCHANGED workerVars
  PROVE  Numbers'
<1>1. UNCHANGED <<wGeneration, pipeline, wRequest, opened, closeRequest, wSequence, sending>>
  BY WorkerSame
<1>2. /\ generation \in Nat /\ expectedGeneration \in Nat /\ wGeneration \in Nat
      /\ dataSequence \in Nat /\ wSequence \in Nat /\ commandSequence \in Nat
      /\ closeSequence \in Nat /\ wRequest \in Nat
  BY Counts
<1>3. Numbers
  BY DEF IInv
<1>4. /\ wRequest <= commandSequence' /\ closeSequence' <= commandSequence'
      /\ closeRequest \in {0, closeSequence'}
  <2>1. commandSequence' \in {commandSequence, commandSequence + 1}
    BY SessionCounts
  <2>2. \/ closeSequence' = closeSequence
        \/ Open /\ closeSequence' = commandSequence'
    <3>1. CASE Closes
      BY <3>1 DEF Closes
    <3>2. CASE ~Closes
      BY <3>2 DEF SessionStep, Notes, OpenSent, HelloTaken, ReadyTaken, ControlTaken, EndTaken,
             DataTaken, Consume, CreditsSent, Issues, IssueControl, Killed, Leaves, sessionVars
    <3>3. QED
      BY <3>1, <3>2
  <2>3. Open => closeSequence = 0
    BY DEF IInv, CloseInv, Settled
  <2>4. wRequest <= commandSequence /\ closeSequence <= commandSequence
        /\ closeRequest \in {0, closeSequence}
    BY <1>3 DEF Numbers
  <2>5. QED
    BY <1>2, <2>1, <2>2, <2>3, <2>4
<1>5. dataSequence' <= wSequence
  <2>1. dataSequence' = dataSequence \/ dataSequence' <= wSequence
    BY DEF SessionStep, Notes, Closes, OpenSent, HelloTaken, ReadyTaken, ControlTaken, EndTaken,
           DataTaken, Consume, CreditsSent, Issues, IssueControl, Killed, Leaves, sessionVars
  <2>2. QED
    BY <1>3, <2>1 DEF Numbers
<1>6. /\ generation' <= wGeneration /\ wGeneration <= expectedGeneration'
      /\ generation' = 0 => generation = 0 /\ expectedGeneration' = expectedGeneration
  <2>1. CASE UNCHANGED <<generation, expectedGeneration>>
    BY <1>3, <2>1 DEF Numbers
  <2>2. CASE ReadyTaken
    BY <1>2, <1>3, <2>2 DEF ReadyTaken, Numbers
  <2>3. CASE ControlTaken
    <3>1. generation' = wGeneration /\ expectedGeneration' = expectedGeneration /\ generation # 0
      BY <2>3 DEF ControlTaken, ControlAgreed, Answered, Asked, Idle
    <3>2. QED
      BY <1>2, <1>3, <3>1 DEF Numbers
  <2>4. ASSUME NEW kind \in Kinds, Issues(kind)
        PROVE  /\ generation' <= wGeneration /\ wGeneration <= expectedGeneration'
               /\ generation' = 0 => generation = 0 /\ expectedGeneration' = expectedGeneration
    <3>1. /\ generation' = generation /\ expectedGeneration' \in {generation, generation + 1}
          /\ Playing /\ Idle
      BY <2>4 DEF Issues, IssueControl, Playing
    <3>2. wGeneration = generation /\ generation # 0
      BY <3>1, NothingAhead DEF IInv, Opening
    <3>3. QED
      BY <1>2, <1>3, <3>1, <3>2
  <2>5. QED
    BY <2>1, <2>2, <2>3, <2>4
       DEF SessionStep, Notes, Closes, OpenSent, HelloTaken, EndTaken, DataTaken, Consume,
           CreditsSent, Killed, Leaves, sessionVars
<1>7. QED
  BY <1>1, <1>3, <1>4, <1>5, <1>6 DEF Numbers

LEMMA WorkerNumbers ==
  ASSUME IInv, WorkerStep, UNCHANGED sessionVars
  PROVE  Numbers'
<1>1. UNCHANGED <<generation, expectedGeneration, commandSequence, closeSequence, dataSequence>>
  BY SessionSame
<1>2. /\ generation \in Nat /\ expectedGeneration \in Nat /\ wGeneration \in Nat
      /\ dataSequence \in Nat /\ wSequence \in Nat /\ commandSequence \in Nat
      /\ closeSequence \in Nat /\ wRequest \in Nat /\ sending \in Nat
  BY Counts
<1>3. Numbers
  BY DEF IInv
<1>4. CASE UNCHANGED <<wGeneration, pipeline, wRequest, opened, closeRequest, wSequence, sending>>
  BY <1>1, <1>3, <1>4 DEF Numbers
<1>5. CASE OpenRead
  <2>1. /\ UNCHANGED <<wGeneration, pipeline, closeRequest, wSequence, sending>>
        /\ opened' = TRUE /\ wRequest' = 1 /\ openSent
    BY <1>5 DEF OpenRead, Reads, ipcVars
  <2>2. commandSequence > 0
    BY <2>1 DEF IInv, Opening
  <2>3. QED
    BY <1>1, <1>2, <1>3, <2>1, <2>2 DEF Numbers
<1>6. CASE CloseRead
  <2>1. /\ UNCHANGED <<wGeneration, pipeline, wRequest, opened, wSequence, sending>>
        /\ opened /\ closeRequest' = commands[1].seq
    BY <1>6 DEF CloseRead, Reads, ipcVars
  <2>2. 1 \in 1..Len(commands)
    BY <1>6, Counts DEF CloseRead, Reads, Dropped
  <2>3. commands[1].seq = closeSequence
    BY <1>6, <2>2 DEF CloseRead, IInv, CommandsFit
  <2>4. QED
    BY <1>1, <1>3, <2>1, <2>3 DEF Numbers
<1>7. CASE ControlRead
  <2>1. /\ UNCHANGED <<wGeneration, pipeline, closeRequest, opened, wSequence, sending>>
        /\ commands[1].kind \in Kinds /\ wRequest' = commands[1].seq
    BY <1>7 DEF ControlRead, Reads
  <2>2. 1 \in 1..Len(commands) /\ exit = "running"
    BY <1>7, Counts DEF ControlRead, Reads, Dropped
  <2>3. ~NoneSent
    BY <2>1, <2>2 DEF NoneSent
  <2>4. generation # 0 /\ commands[1].seq <= commandSequence
    BY <2>1, <2>2, <2>3, ControlHeld DEF ControlSent
  <2>5. QED
    BY <1>1, <1>3, <2>1, <2>4 DEF Numbers
<1>8. CASE OpenNative
  <2>1. /\ UNCHANGED <<wRequest, closeRequest, opened, wSequence, sending>>
        /\ ~pipeline /\ pipeline' = TRUE /\ wGeneration' = 1
    BY <1>8 DEF OpenNative, loopVars
  <2>2. wGeneration = 0 /\ generation = 0 /\ expectedGeneration = 1
    BY <1>2, <1>3, <2>1 DEF Numbers
  <2>3. sending = 0
    BY <1>2, <1>3, <2>2 DEF Numbers
  <2>4. QED
    BY <1>1, <1>3, <2>1, <2>2, <2>3 DEF Numbers
<1>9. CASE PlayAccepted
  <2>1. /\ UNCHANGED <<pipeline, wRequest, closeRequest, opened, wSequence, sending>>
        /\ wGeneration' = IF pendingGeneration # 0 THEN pendingGeneration ELSE wGeneration
        /\ exit = "running"
    BY <1>9 DEF PlayAccepted, openVars, loopVars, Running
  <2>2. CASE pendingGeneration = 0
    BY <1>1, <1>3, <2>1, <2>2 DEF Numbers
  <2>3. CASE pendingGeneration # 0
    <3>1. generation # 0 /\ pendingGeneration = expectedGeneration
      BY <2>1, <2>3, ControlHeld DEF WorkerFree, Sent, Taken, Accepted, Answered
    <3>2. wGeneration' = expectedGeneration /\ wGeneration <= expectedGeneration
      BY <1>3, <2>1, <2>3, <3>1 DEF Numbers
    <3>3. generation <= wGeneration' /\ sending <= wGeneration' /\ pipeline
      BY <1>2, <1>3, <3>1, <3>2 DEF Numbers
    <3>4. QED
      BY <1>1, <1>2, <1>3, <2>1, <3>1, <3>2, <3>3 DEF Numbers
  <2>4. QED
    BY <2>2, <2>3
<1>10. CASE SendData
  <2>1. /\ UNCHANGED <<wGeneration, pipeline, wRequest, opened, closeRequest, wSequence>>
        /\ sending' = wGeneration
    BY <1>10 DEF SendData, openVars, loopVars
  <2>2. QED
    BY <1>1, <1>2, <1>3, <2>1 DEF Numbers
<1>11. CASE MediaIpcData
  <2>1. /\ UNCHANGED <<wGeneration, pipeline, wRequest, opened, closeRequest>>
        /\ sending' = 0 /\ wSequence' \in {wSequence, wSequence + 1}
    BY <1>11 DEF MediaIpcData, openVars, loopVars
  <2>2. dataSequence <= wSequence' /\ 0 <= wGeneration
    BY <1>2, <1>3, <2>1 DEF Numbers
  <2>3. QED
    BY <1>1, <1>3, <2>1, <2>2 DEF Numbers
<1>12. QED
  BY <1>4, <1>5, <1>6, <1>7, <1>8, <1>9, <1>10, <1>11
     DEF WorkerStep, LoopIdle, EofRead, CreditRead, Reads,
         LoopBus, LoopAck, ControlRequested, ThreadEnds, ResumeIpc, SendCheck, Setup, PauseAccepted,
         NativeFailure, Expire, Writer, EndOfStream, CloseNative, Crash,
         workerVars, ipcVars, openVars, loopVars

\* The worker's generation only grows.
LEMMA GenerationGrows ==
  ASSUME IInv, WorkerStep
  PROVE  /\ wGeneration <= wGeneration' /\ wGeneration' \in Nat
         /\ wGeneration' # wGeneration => exit = "running"
<1>0. wGeneration \in Nat /\ expectedGeneration \in Nat /\ pendingGeneration \in Nat
  BY Counts
<1>1. CASE wGeneration' = wGeneration
  BY <1>0, <1>1
<1>2. CASE OpenNative
  <2>1. wGeneration = 0 /\ wGeneration' = 1 /\ exit = "running"
    BY <1>2 DEF OpenNative, Running, IInv, Numbers
  <2>2. QED
    BY <2>1
<1>3. CASE PlayAccepted
  <2>1. exit = "running"
    BY <1>3 DEF PlayAccepted, Running
  <2>2. pendingGeneration # 0 => pendingGeneration = expectedGeneration
    BY <2>1, ControlHeld DEF WorkerFree, Sent, Taken, Accepted, Answered
  <2>3. wGeneration' = IF pendingGeneration # 0 THEN pendingGeneration ELSE wGeneration
    BY <1>3 DEF PlayAccepted
  <2>4. wGeneration <= expectedGeneration
    BY DEF IInv, Numbers
  <2>5. QED
    BY <1>0, <2>1, <2>2, <2>3, <2>4
<1>4. QED
  BY <1>1, <1>2, <1>3
     DEF WorkerStep, LoopIdle, EofRead, OpenRead, CloseRead, CreditRead, ControlRead, Reads,
       LoopBus, LoopAck, ControlRequested, ThreadEnds, ResumeIpc, SendCheck, Setup, PauseAccepted,
       NativeFailure, Expire, SendData, MediaIpcData, Writer, EndOfStream, CloseNative, Crash,
       workerVars

-----------------------------------------------------------------------------
\* The elements of a sequence after one was added, or the first one taken.
LEMMA AddedElements ==
  ASSUME NEW S, NEW s \in Seq(S), NEW t, NEW x, Added(s, t, x), NEW i \in 1..Len(t)
  PROVE  (i \in 1..Len(s) /\ t[i] = s[i]) \/ (i = Len(s) + 1 /\ t[i] = x)
  BY DEF Added

LEMMA DroppedElements ==
  ASSUME NEW S, NEW s \in Seq(S), NEW t, Dropped(s, t), NEW i \in 1..Len(t)
  PROVE  i + 1 \in 1..Len(s) /\ i + 1 > 1 /\ t[i] = s[i + 1]
  BY DEF Dropped

LEMMA SessionNeverOpened ==
  ASSUME IInv, SessionStep, UNCHANGED workerVars
  PROVE  NeverOpened'
<1>1. UNCHANGED <<wFailure, done, loop, opened>>
  BY WorkerSame
<1>2. NeverOpened /\ state \in {"opening", "playing", "paused", "closing", "closed"}
  BY DEF IInv, CloseInv, LinkTypeOK, ClosingTypeOK
<1>3. ~Open => ~Open' /\ openSent' = openSent
  <2>1. ~Open => ~Open'
    BY <1>2, SessionCounts DEF Open
  <2>2. ~Open => openSent' = openSent
    BY DEF SessionStep, Notes, Closes, OpenSent, HelloTaken, ReadyTaken, ControlTaken, EndTaken,
           DataTaken, Consume, CreditsSent, Issues, IssueControl, Killed, Leaves, sessionVars, Open
  <2>3. QED
    BY <2>1, <2>2
<1>4. QED
  BY <1>1, <1>2, <1>3 DEF NeverOpened

LEMMA WorkerNeverOpened ==
  ASSUME IInv, WorkerStep, UNCHANGED sessionVars
  PROVE  NeverOpened'
<1>1. Open' = Open /\ openSent' = openSent
  BY SessionSame DEF Open
<1>2. NeverOpened
  BY DEF IInv
<1>3. opened => opened'
  BY DEF WorkerStep, LoopIdle, EofRead, OpenRead, CloseRead, CreditRead, ControlRead, Reads, OpenNative,
         LoopBus, LoopAck, ControlRequested, ThreadEnds, ResumeIpc, SendCheck, Setup, PlayAccepted, PauseAccepted,
         NativeFailure, Expire, SendData, MediaIpcData, Writer, EndOfStream, CloseNative, Crash,
         workerVars, openVars
<1>4. CASE EofRead
  <2>1. 1 \in 1..Len(commands) /\ commands[1].kind = "EOF"
    BY <1>4, Counts DEF EofRead, Reads, Dropped
  <2>2. ~Open /\ (openSent => opened)
    BY <2>1 DEF IInv, CommandsFit
  <2>3. QED
    BY <1>1, <1>3, <2>2 DEF NeverOpened
<1>5. CASE NativeFailure \/ CloseRead
  BY <1>3, <1>5 DEF NativeFailure, CloseRead, NeverOpened, Reads
<1>6. CASE ~(EofRead \/ NativeFailure \/ CloseRead)
  <2>1. /\ done' \/ loop' = "close" => wFailure # "none" \/ done \/ loop = "close"
        /\ wFailure # "none" => wFailure' # "none"
    <3>0. CASE LoopBus
      <4>1. (done' <=> done \/ wFailure # "none") /\ (loop' = "close" => done') /\ wFailure' = wFailure
        BY <3>0 DEF LoopBus
      <4>2. QED
        BY <4>1
    <3>1. CASE LoopIdle \/ OpenRead \/ CreditRead \/ ControlRead \/ OpenNative \/ LoopAck
      <4>1. CASE OpenRead \/ CreditRead \/ ControlRead
        <5>1. UNCHANGED <<done, wFailure>> /\ loop' = "bus"
          BY <4>1 DEF OpenRead, CreditRead, ControlRead, Reads
        <5>2. QED
          BY <5>1
      <4>2. CASE LoopIdle \/ LoopAck
        <5>1. UNCHANGED <<done, wFailure>> /\ loop' \in {"bus", "command"}
          BY <4>2 DEF LoopIdle, LoopAck
        <5>2. QED
          BY <5>1
      <4>3. CASE OpenNative
        BY <4>3 DEF OpenNative, loopVars
      <4>4. QED
        BY <3>1, <4>1, <4>2, <4>3
    <3>2. CASE ControlRequested \/ ThreadEnds \/ ResumeIpc \/ SendCheck \/ Setup \/ PlayAccepted
               \/ PauseAccepted \/ SendData \/ MediaIpcData \/ Writer \/ EndOfStream
      BY <3>2 DEF ControlRequested, ThreadEnds, ResumeIpc, SendCheck, Setup, PlayAccepted, PauseAccepted,
           SendData, MediaIpcData, Writer, EndOfStream, workerVars, loopVars
    <3>3. CASE Expire \/ Crash \/ \E teardown \in {"ok", "gone", "none"}, local \in BOOLEAN :
                                     CloseNative(teardown, local)
      BY <3>3 DEF Expire, CloseNative, Crash, workerVars, loopVars
    <3>4. QED
      BY <1>6, <3>0, <3>1, <3>2, <3>3 DEF WorkerStep
  <2>2. QED
    BY <1>1, <1>2, <1>3, <2>1 DEF NeverOpened
<1>7. QED
  BY <1>4, <1>5, <1>6

-----------------------------------------------------------------------------
\* One command that fits.
CommandFits(i, m) ==
  /\ m.kind = "OPEN" => i = 1 /\ ~opened /\ m.seq = 1
  /\ m.kind = "EOF" => ~Open
  /\ m.kind # "EOF" => openSent
  /\ m.kind = "CREDIT" => pipeline
  /\ m.kind # "CREDIT" => m.units = 0
  /\ m.kind = "CLOSE" => ~Open /\ m.seq = closeSequence
  /\ m.gen <= generation

LEMMA CommandsFitEach ==
  CommandsFit <=> /\ openSent /\ ~opened => commands # << >> /\ commands[1].kind = "OPEN"
                  /\ \A i \in 1..Len(commands) : CommandFits(i, commands[i])
  BY DEF CommandsFit, CommandFits

LEMMA SessionCommandsFit ==
  ASSUME IInv, SessionStep, UNCHANGED workerVars
  PROVE  CommandsFit'
<1>1. UNCHANGED <<opened, pipeline>>
  BY WorkerSame
<1>2. commands \in Seq(CommandSet) /\ generation \in Nat /\ expectedGeneration \in Nat
      /\ commandSequence \in Nat /\ creditUnits \in Nat /\ outstandingUnits \in Nat
  BY Counts
<1>3. \A i \in 1..Len(commands) : commands[i].gen \in Nat
  BY <1>2, CommandTypes
<1>4. /\ openSent /\ ~opened => commands # << >> /\ commands[1].kind = "OPEN"
      /\ \A i \in 1..Len(commands) : CommandFits(i, commands[i])
  BY CommandsFitEach DEF IInv
<1>5. Open => closeSequence = 0 /\ \A i \in 1..Len(commands) : commands[i].kind # "CLOSE"
  BY <1>4 DEF IInv, CloseInv, Settled, CommandFits
<1>6. /\ openSent => openSent'
      /\ ~Open => ~Open' /\ closeSequence' = closeSequence
      /\ generation <= generation' /\ generation' \in Nat
  <2>1. openSent => openSent'
    BY SessionCounts
  <2>2. ~Open => ~Open'
    BY SessionCounts DEF Open, IInv, CloseInv, LinkTypeOK, ClosingTypeOK
  <2>3. ~Open => closeSequence' = closeSequence
    BY DEF SessionStep, Notes, Closes, OpenSent, HelloTaken, ReadyTaken, ControlTaken, EndTaken,
           DataTaken, Consume, CreditsSent, Issues, IssueControl, Killed, Leaves, sessionVars, Open
  <2>4. generation <= generation' /\ generation' \in Nat
    <3>1. CASE generation' = generation
      BY <1>2, <3>1
    <3>2. CASE ReadyTaken
      BY <1>2, <3>2 DEF ReadyTaken
    <3>3. CASE ControlTaken
      <4>1. generation' = wGeneration
        BY <3>3 DEF ControlTaken, ControlAgreed, Answered, Asked, Idle
      <4>2. generation <= wGeneration /\ wGeneration \in Nat
        BY Counts DEF IInv, Numbers
      <4>3. QED
        BY <4>1, <4>2
    <3>4. QED
      BY <3>1, <3>2, <3>3
         DEF SessionStep, Notes, Closes, OpenSent, HelloTaken, EndTaken,
             DataTaken, Consume, CreditsSent, Issues, IssueControl, Killed, Leaves, sessionVars
  <2>5. QED
    BY <2>1, <2>2, <2>3, <2>4
<1>7. ASSUME NEW i \in 1..Len(commands), NEW m, m = commands[i] PROVE CommandFits(i, m)'
  <2>1. CommandFits(i, m)
    BY <1>4, <1>7
  <2>2. m.gen <= generation'
    <3>1. m.gen <= generation /\ m.gen \in Nat
      BY <1>3, <1>7, <2>1 DEF CommandFits
    <3>2. QED
      BY <1>2, <1>6, <3>1
  <2>3. QED
    BY <1>1, <1>5, <1>6, <1>7, <2>1, <2>2 DEF CommandFits
<1>8. CASE commands' = commands /\ openSent' = openSent
  BY <1>1, <1>4, <1>7, <1>8 DEF CommandsFit, CommandFits
<1>9. ASSUME NEW m, NEW k, k = Len(commands) + 1, Added(commands, commands', m),
             CommandFits(k, m)',
             openSent' /\ ~opened => m.kind = "OPEN" \/ openSent
      PROVE  CommandsFit'
  <2>1. ASSUME NEW i \in 1..Len(commands') PROVE \A m2 : m2 = commands'[i] => CommandFits(i, m2)'
    <3>1. \/ i \in 1..Len(commands) /\ commands'[i] = commands[i]
          \/ i = k /\ commands'[i] = m
      BY <1>2, <1>9, AddedElements
    <3>2. CASE i \in 1..Len(commands) /\ commands'[i] = commands[i]
      BY <1>4, <1>7, <3>2
    <3>3. CASE i = k /\ commands'[i] = m
      BY <1>9, <3>3 DEF CommandFits
    <3>4. QED
      BY <3>1, <3>2, <3>3
  <2>2. openSent' /\ ~opened => commands' # << >> /\ commands'[1].kind = "OPEN"
    <3> SUFFICES ASSUME openSent', ~opened PROVE commands' # << >> /\ commands'[1].kind = "OPEN"
      OBVIOUS
    <3>1. Len(commands') > 0 /\ Len(commands) \in Nat
      BY <1>2, <1>9 DEF Added
    <3>2. CASE openSent
      <4>1. commands # << >> /\ commands[1].kind = "OPEN" /\ 1 \in 1..Len(commands)
        BY <1>2, <1>4, <3>2
      <4>2. QED
        BY <1>9, <3>1, <4>1 DEF Added
    <3>3. CASE ~openSent
      <4>1. m.kind = "OPEN"
        BY <1>9, <3>3
      <4>2. k = 1
        BY <1>9, <4>1 DEF CommandFits
      <4>3. QED
        BY <1>9, <3>1, <4>1, <4>2 DEF Added
    <3>4. QED
      BY <3>2, <3>3
  <2>3. QED
    BY <1>1, <2>1, <2>2 DEF CommandsFit, CommandFits
<1>10. Command("EOF", 0, 0, 0).kind = "EOF" /\ Command("EOF", 0, 0, 0).units = 0
       /\ Command("EOF", 0, 0, 0).gen = 0
  BY DEF Command
<1>11. ASSUME Added(commands, commands', Command("EOF", 0, 0, 0)), ~Open', openSent' = openSent
       PROVE  CommandsFit'
  <2>1. PICK k : k = Len(commands) + 1
    OBVIOUS
  <2>2. CommandFits(k, Command("EOF", 0, 0, 0))'
    BY <1>6, <1>10, <1>11 DEF CommandFits, Command
  <2>3. QED
    BY <1>9, <1>11, <2>1, <2>2
<1>12. CASE Closes
  <2>1. ~Open' /\ openSent' = openSent
    BY <1>12 DEF Closes, Open
  <2>2. CASE Added(commands, commands', Command("EOF", 0, 0, 0))
    BY <1>11, <2>1, <2>2
  <2>3. CASE /\ openSent
             /\ commandSequence' = commandSequence + 1 /\ closeSequence' = commandSequence + 1
             /\ Added(commands, commands', Command("CLOSE", generation, commandSequence + 1, 0))
    <3>1. PICK k, m : k = Len(commands) + 1 /\ m = Command("CLOSE", generation, commandSequence + 1, 0)
      OBVIOUS
    <3>2. m.kind = "CLOSE" /\ m.gen = generation /\ m.seq = commandSequence + 1 /\ m.units = 0
      BY <3>1 DEF Command
    <3>3. m.seq = closeSequence' /\ m.gen <= generation'
      BY <1>6, <2>3, <3>2
    <3>4. CommandFits(k, m)'
      BY <2>1, <2>3, <3>2, <3>3 DEF CommandFits
    <3>5. QED
      BY <1>9, <2>1, <2>3, <3>1, <3>4
  <2>4. QED
    BY <1>12, <2>2, <2>3 DEF Closes
<1>13. CASE Killed \/ Leaves
  <2>1. ~Open' /\ openSent' = openSent /\ Added(commands, commands', Command("EOF", 0, 0, 0))
    BY <1>13 DEF Killed, Leaves, Open
  <2>2. QED
    BY <1>11, <2>1
<1>14. CASE OpenSent
  <2>1. PICK k, m : k = Len(commands) + 1 /\ m = Command("OPEN", 0, commandSequence + 1, 0)
    OBVIOUS
  <2>2. /\ m.kind = "OPEN" /\ m.gen = 0 /\ m.seq = commandSequence + 1 /\ m.units = 0
        /\ Added(commands, commands', m)
    BY <1>14, <2>1 DEF Command, OpenSent
  <2>3. Open /\ ~openSent /\ openSent'
    BY <1>14 DEF OpenSent, Open
  <2>4. ~opened /\ commandSequence = 0
    BY <2>3 DEF IInv, CloseInv, Stages, Opening
  <2>5. commands = << >>
    <3>1. \A i \in 1..Len(commands) : FALSE
      BY <1>4, <2>3 DEF CommandFits
    <3>2. QED
      BY <1>2, <3>1
  <2>6. k = 1 /\ m.seq = 1
    BY <1>2, <2>1, <2>2, <2>4, <2>5
  <2>7. CommandFits(k, m)'
    BY <1>1, <1>6, <2>2, <2>3, <2>4, <2>6 DEF CommandFits
  <2>8. QED
    BY <1>9, <2>1, <2>2, <2>7
<1>15. CASE CreditsSent
  <2>1. PICK k, m : k = Len(commands) + 1 /\ m = Command("CREDIT", generation, 0, creditUnits)
    OBVIOUS
  <2>2. /\ m.kind = "CREDIT" /\ m.gen = generation /\ Added(commands, commands', m)
        /\ openSent' = openSent
    BY <1>15, <2>1 DEF Command, CreditsSent
  <2>3. outstandingUnits # 0
    BY <1>2, <1>15 DEF CreditsSent
  <2>4. pipeline /\ openSent
    BY <2>3 DEF IInv, Opening, CloseInv, Stages
  <2>5. CommandFits(k, m)'
    BY <1>1, <1>6, <2>2, <2>4 DEF CommandFits
  <2>6. QED
    BY <1>9, <2>1, <2>2, <2>5
<1>16. ASSUME NEW kind \in Kinds, Issues(kind) PROVE CommandsFit'
  <2>1. PICK k, m : k = Len(commands) + 1 /\ m = Command(kind, generation, commandSequence + 1, 0)
    OBVIOUS
  <2>2. /\ m.kind = kind /\ m.gen = generation /\ m.units = 0 /\ Added(commands, commands', m)
        /\ openSent' = openSent /\ Playing
    BY <1>16, <2>1 DEF Command, Issues, IssueControl, Playing
  <2>3. openSent /\ kind \in {"PAUSE", "PLAY", "SEEK"}
    BY <2>2, LinkAssumption DEF IInv, Opening, LinkAssumption
  <2>4. CommandFits(k, m)'
    BY <1>6, <2>2, <2>3 DEF CommandFits
  <2>5. QED
    BY <1>9, <2>1, <2>2, <2>4
<1>17. QED
  BY <1>8, <1>12, <1>13, <1>14, <1>15, <1>16
     DEF SessionStep, Notes, HelloTaken, ReadyTaken, ControlTaken, EndTaken, DataTaken, Consume,
         sessionVars, pipes

LEMMA WorkerCommandsFit ==
  ASSUME IInv, WorkerStep, UNCHANGED sessionVars
  PROVE  CommandsFit'
<1>1. UNCHANGED <<openSent, state, generation, closeSequence>>
  BY SessionSame
<1>2. commands \in Seq(CommandSet)
  BY Counts
<1>3. /\ openSent /\ ~opened => commands # << >> /\ commands[1].kind = "OPEN"
      /\ \A i \in 1..Len(commands) : CommandFits(i, commands[i])
  BY CommandsFitEach DEF IInv
<1>4. CASE EofRead \/ OpenRead \/ CloseRead \/ CreditRead \/ ControlRead
  <2>1. /\ Dropped(commands, commands') /\ commands' \in Seq(CommandSet)
        /\ opened \/ commands[1].kind = "OPEN" => opened'
        /\ pipeline' = pipeline
        /\ commands[1].kind = "OPEN" => ~opened
    BY <1>4, LinkAssumption DEF EofRead, OpenRead, CloseRead, CreditRead, ControlRead, Reads,
       LinkAssumption
  <2>2. openSent => opened'
    BY <1>3, <2>1
  <2>3. ASSUME NEW i \in 1..Len(commands') PROVE \A m : m = commands'[i] => CommandFits(i, m)'
    <3>1. i + 1 \in 1..Len(commands) /\ i + 1 # 1 /\ commands'[i] = commands[i + 1]
      BY <1>2, <2>1, DroppedElements
    <3>2. CommandFits(i + 1, commands[i + 1])
      BY <1>3, <3>1
    <3>3. commands'[i].kind # "OPEN"
      BY <3>1, <3>2 DEF CommandFits
    <3>4. QED
      BY <1>1, <2>1, <3>1, <3>2, <3>3 DEF CommandFits, Open
  <2>4. QED
    BY <1>1, <2>2, <2>3 DEF CommandsFit, CommandFits
<1>5. CASE commands' = commands /\ opened' = opened /\ (pipeline => pipeline')
  BY <1>1, <1>3, <1>5 DEF CommandsFit, CommandFits, Open
<1>6. CASE ~(EofRead \/ OpenRead \/ CloseRead \/ CreditRead \/ ControlRead)
  <2>1. commands' = commands
    BY <1>6 DEF WorkerStep, LoopIdle, OpenNative, LoopBus, LoopAck, ControlRequested, ThreadEnds, ResumeIpc, SendCheck, Setup,
         PlayAccepted, PauseAccepted, NativeFailure, Expire, SendData, MediaIpcData, Writer,
         EndOfStream, CloseNative, Crash, pipes
  <2>2. opened' = opened
    BY <1>6 DEF WorkerStep, LoopIdle, OpenNative, LoopBus, LoopAck, ControlRequested, ThreadEnds, ResumeIpc, SendCheck, Setup,
         PlayAccepted, PauseAccepted, NativeFailure, Expire, SendData, MediaIpcData, Writer,
         EndOfStream, CloseNative, Crash, workerVars, openVars
  <2>3. pipeline => pipeline'
    BY <1>6 DEF WorkerStep, LoopIdle, OpenNative, LoopBus, LoopAck, ControlRequested, ThreadEnds, ResumeIpc, SendCheck, Setup,
         PlayAccepted, PauseAccepted, NativeFailure, Expire, SendData, MediaIpcData, Writer,
         EndOfStream, CloseNative, Crash, workerVars, openVars
  <2>4. QED
    BY <1>5, <2>1, <2>2, <2>3
<1>7. QED
  BY <1>4, <1>6

-----------------------------------------------------------------------------
\* The frames that a worker step adds.
ErrorAdded(m) == /\ LoopBus /\ wFailure # "none"
                 /\ m.kind = "ERROR" /\ m.own = opened /\ m.gen = wGeneration /\ m.seq = wRequest
EndAdded(m) == /\ LoopBus /\ eos # {}
               /\ m.kind = "END" /\ m.own = opened /\ m.gen = wGeneration /\ m.seq = wRequest
               /\ m.watermark = wSequence
ReadyAdded(m) == /\ LoopAck /\ ready /\ ~readySent
                 /\ m.kind = "READY" /\ m.own = TRUE /\ m.gen = wGeneration /\ m.seq = wRequest
ReceiptAdded(m) == /\ LoopAck /\ controlReady # "none" /\ thread = "none"
                   /\ m.kind = "CONTROL" /\ m.own = TRUE /\ m.gen = wGeneration /\ m.seq = wRequest
                   /\ m.command = controlReady
                   /\ m.state = IF paused THEN "paused" ELSE "playing"
ClosedAdded(m) == /\ \E teardown \in {"ok", "gone", "none"}, local \in BOOLEAN : CloseNative(teardown, local)
                  /\ m.kind = "CLOSED" /\ m.own = opened /\ m.gen = wGeneration /\ m.seq = closeRequest

LEMMA WorkerFrames ==
  ASSUME IInv, WorkerStep
  PROVE  /\ control' \in Seq(FrameSet) /\ control \in Seq(FrameSet)
         /\ Len(control) \in Nat /\ Len(control') \in Nat /\ Len(control) <= Len(control')
         /\ \A i \in 1..Len(control) : i \in 1..Len(control') /\ control'[i] = control[i]
         /\ \A i \in 1..Len(control') :
              \/ i \in 1..Len(control)
              \/ ErrorAdded(control'[i])
              \/ EndAdded(control'[i]) /\ (eos \subseteq {wGeneration} => i = Len(control'))
              \/ ReadyAdded(control'[i]) /\ i = Len(control) + 1
              \/ ReceiptAdded(control'[i]) /\ i = Len(control')
              \/ ClosedAdded(control'[i]) /\ i = Len(control')
<1>1. RestTypeOK /\ WorkerTypeOK /\ control \in Seq(FrameSet)
  BY DEF IInv, CloseInv, LinkTypeOK, RestTypeOK
<1>2. CASE control' = control
  BY <1>1, <1>2
<1>3. CASE LoopBus
  <2>1. /\ control' \in Seq(FrameSet) /\ Len(control) <= Len(control')
        /\ \A i \in 1..Len(control) : control'[i] = control[i]
        /\ \A i \in 1..Len(control') :
              \/ i \in 1..Len(control)
              \/ wFailure # "none" /\ control'[i] = Frame("ERROR", opened, wGeneration, wRequest)
              \/ /\ eos # {} /\ (eos \subseteq {wGeneration} => i = Len(control'))
                 /\ control'[i] = EndFrame(opened, wGeneration, wRequest, wSequence)
    BY <1>1, <1>3, BusFrames
  <2>2. \A i \in 1..Len(control') :
              \/ i \in 1..Len(control)
              \/ ErrorAdded(control'[i])
              \/ EndAdded(control'[i]) /\ (eos \subseteq {wGeneration} => i = Len(control'))
    BY <1>3, <2>1 DEF Frame, EndFrame, ErrorAdded, EndAdded
  <2>3. QED
    BY <1>1, <2>1, <2>2
<1>4. CASE LoopAck
  <2>1. /\ control' \in Seq(FrameSet) /\ Len(control) <= Len(control')
        /\ \A i \in 1..Len(control) : control'[i] = control[i]
        /\ \A i \in 1..Len(control') :
              \/ i \in 1..Len(control)
              \/ /\ ready /\ ~readySent /\ i = Len(control) + 1
                 /\ control'[i] = Frame("READY", TRUE, wGeneration, wRequest)
              \/ /\ controlReady # "none" /\ thread = "none" /\ i = Len(control')
                 /\ control'[i] = ControlFrame(wGeneration, wRequest, controlReady,
                                               IF paused THEN "paused" ELSE "playing")
    BY <1>1, <1>4, AckFrames
  <2>2. \A i \in 1..Len(control') :
              \/ i \in 1..Len(control)
              \/ ReadyAdded(control'[i]) /\ i = Len(control) + 1
              \/ ReceiptAdded(control'[i]) /\ i = Len(control')
    BY <1>4, <2>1 DEF Frame, ControlFrame, ReadyAdded, ReceiptAdded
  <2>3. QED
    BY <1>1, <2>1, <2>2
<1>5. ASSUME NEW teardown \in {"ok", "gone", "none"}, NEW local \in BOOLEAN,
             CloseNative(teardown, local), NEW last,
             last = ClosedFrame(opened, wGeneration, closeRequest, Remote(teardown), local)
      PROVE  /\ control' \in Seq(FrameSet) /\ Added(control, control', last)
             /\ ClosedAdded(last)
  <2>1. Remote(teardown) \in Remotes
    BY DEF Remote, Remotes
  <2>2. last \in FrameSet
    BY <1>1, <1>5, <2>1, FramesMade DEF WorkerTypeOK
  <2>3. control' \in Seq(FrameSet) /\ Added(control, control', last)
    BY <1>1, <1>5, <2>2, AddedAppend DEF CloseNative
  <2>4. last.kind = "CLOSED" /\ last.own = opened /\ last.gen = wGeneration /\ last.seq = closeRequest
    BY <1>5 DEF ClosedFrame
  <2>5. QED
    BY <1>5, <2>3, <2>4 DEF ClosedAdded
<1>6. ASSUME NEW teardown \in {"ok", "gone", "none"}, NEW local \in BOOLEAN,
             CloseNative(teardown, local)
      PROVE  /\ control' \in Seq(FrameSet) /\ Len(control) <= Len(control')
             /\ \A i \in 1..Len(control) : control'[i] = control[i]
             /\ \A i \in 1..Len(control') :
                  i \in 1..Len(control) \/ (ClosedAdded(control'[i]) /\ i = Len(control'))
  <2>1. PICK last : last = ClosedFrame(opened, wGeneration, closeRequest, Remote(teardown), local)
    OBVIOUS
  <2>2. control' \in Seq(FrameSet) /\ Added(control, control', last) /\ ClosedAdded(last)
    BY <1>5, <1>6, <2>1
  <2>3. /\ Len(control) \in Nat /\ Len(control') = Len(control) + 1 /\ control'[Len(control')] = last
        /\ \A i \in 1..Len(control) : control'[i] = control[i]
    BY <1>1, <2>2 DEF Added
  <2>4. QED
    BY <2>2, <2>3
<1>7. CASE ~(LoopBus \/ LoopAck \/
             (\E teardown \in {"ok", "gone", "none"}, local \in BOOLEAN : CloseNative(teardown, local)))
  <2>1. control' = control
    BY <1>7 DEF WorkerStep, LoopIdle, EofRead, OpenRead, CloseRead, CreditRead, ControlRead, Reads,
         OpenNative, ControlRequested, ThreadEnds, ResumeIpc, SendCheck, Setup, PlayAccepted, PauseAccepted,
         NativeFailure, Expire, SendData, MediaIpcData, Writer, EndOfStream, Crash, pipes
  <2>2. QED
    BY <1>2, <2>1
<1>8. CASE \E teardown \in {"ok", "gone", "none"}, local \in BOOLEAN : CloseNative(teardown, local)
  <2>1. /\ control' \in Seq(FrameSet) /\ Len(control) <= Len(control')
        /\ \A i \in 1..Len(control) : control'[i] = control[i]
        /\ \A i \in 1..Len(control') :
             i \in 1..Len(control) \/ (ClosedAdded(control'[i]) /\ i = Len(control'))
    BY <1>6, <1>8
  <2>2. QED
    BY <1>1, <2>1
<1>9. QED
  BY <1>3, <1>4, <1>7, <1>8

-----------------------------------------------------------------------------
\* One answer that fits.
AnswerFits(m) ==
  /\ m.gen <= wGeneration /\ m.seq <= commandSequence
  /\ m.kind # "HELLO" => m.own \/ (m.gen = 0 /\ m.seq = 0 /\ ~opened /\ loop = "close")
  /\ m.kind = "READY" => m.gen = 1 /\ m.seq = 1 /\ readySent /\ generation = 0
  /\ m.kind = "CLOSED" => m.gen = wGeneration /\ m.seq \in {0, closeSequence}
AnsweredOnce ==
  \A i, j \in 1..Len(control) :
    control[i].kind = control[j].kind /\ control[i].kind \in {"READY", "CONTROL"} => i = j

LEMMA AnswersFitEach ==
  AnswersFit <=> AnsweredOnce /\ \A i \in 1..Len(control) : AnswerFits(control[i])
  BY DEF AnswersFit, AnswerFits, AnsweredOnce

LEMMA SessionAnswersFit ==
  ASSUME IInv, SessionStep, UNCHANGED workerVars
  PROVE  AnswersFit'
<1>1. UNCHANGED <<wGeneration, readySent, opened, loop>>
  BY WorkerSame
<1>2. control \in Seq(FrameSet) /\ commandSequence \in Nat
  BY Counts
<1>3. \A i \in 1..Len(control) : control[i].seq \in Nat
  BY <1>2, FrameTypes
<1>4. AnsweredOnce /\ \A i \in 1..Len(control) : AnswerFits(control[i])
  BY AnswersFitEach DEF IInv
<1>5. \A i \in 1..Len(control') :
        \E k \in 1..Len(control) : /\ control'[i] = control[k]
                                   /\ k = i \/ (k = i + 1 /\ k # 1 /\ Dropped(control, control'))
                                   /\ control' # control => k = i + 1
  <2>1. CASE control' = control
    BY <2>1
  <2>2. CASE Dropped(control, control')
    BY <1>2, <2>2, DroppedElements
  <2>3. QED
    BY <2>1, <2>2, SessionPipes
<1>6. /\ commandSequence <= commandSequence' /\ commandSequence' \in Nat
      /\ ~openSent /\ ~Open => ~openSent' /\ ~Open'
      /\ closeSequence' = closeSequence \/ closeSequence = 0
  <2>1. ~Open => ~Open' /\ openSent' = openSent /\ closeSequence' = closeSequence
    <3>1. ~Open => ~Open'
      BY SessionCounts DEF Open, IInv, CloseInv, LinkTypeOK, ClosingTypeOK
    <3>2. ~Open => openSent' = openSent /\ closeSequence' = closeSequence
      BY DEF SessionStep, Notes, Closes, OpenSent, HelloTaken, ReadyTaken, ControlTaken, EndTaken,
             DataTaken, Consume, CreditsSent, Issues, IssueControl, Killed, Leaves, sessionVars, Open
    <3>3. QED
      BY <3>1, <3>2
  <2>2. Open => closeSequence = 0
    BY DEF IInv, CloseInv, Settled
  <2>3. QED
    BY <2>1, <2>2, SessionCounts
<1>7. generation = 0 /\ generation' # 0 => control[1].kind = "READY" /\ Dropped(control, control')
  <2>1. generation = 0 => ~ControlTaken
    BY DEF ControlTaken, ControlAgreed, Asked, Idle
  <2>2. QED
    BY <2>1 DEF SessionStep, Notes, Closes, OpenSent, HelloTaken, ReadyTaken, EndTaken,
             DataTaken, Consume, CreditsSent, Issues, IssueControl, Killed, Leaves, sessionVars
<1>8. ASSUME NEW i \in 1..Len(control') PROVE \A m : m = control'[i] => AnswerFits(m)'
  <2>1. PICK k \in 1..Len(control) : /\ control'[i] = control[k]
                                     /\ k = i \/ (k = i + 1 /\ k # 1 /\ Dropped(control, control'))
                                     /\ control' # control => k = i + 1
    BY <1>5
  <2>2. AnswerFits(control[k])
    BY <1>4
  <2>3. control[k].seq <= commandSequence'
    <3>1. control[k].seq <= commandSequence /\ control[k].seq \in Nat
      BY <1>3, <2>2 DEF AnswerFits
    <3>2. QED
      BY <1>2, <1>6, <3>1
  <2>4. control[k].kind = "READY" => generation' = 0
    <3> SUFFICES ASSUME control[k].kind = "READY", generation' # 0 PROVE FALSE
      OBVIOUS
    <3>1. generation = 0
      BY <2>2 DEF AnswerFits
    <3>2. control[1].kind = "READY" /\ Dropped(control, control')
      BY <1>7, <3>1
    <3>3. Len(control) > 0 /\ Len(control') # Len(control) /\ 1 \in 1..Len(control)
      BY <1>2, <3>2 DEF Dropped
    <3>4. k = i + 1 /\ k # 1
      BY <2>1, <3>3
    <3>5. k = 1
      BY <1>4, <3>2, <3>3 DEF AnsweredOnce
    <3>6. QED
      BY <3>4, <3>5
  <2>5. control[k].kind = "CLOSED" => control[k].seq \in {0, closeSequence'}
    BY <1>6, <2>2 DEF AnswerFits
  <2>6. QED
    BY <1>1, <1>6, <2>1, <2>2, <2>3, <2>4, <2>5 DEF AnswerFits
<1>9. AnsweredOnce'
  <2> SUFFICES ASSUME NEW i \in 1..Len(control'), NEW j \in 1..Len(control'),
                      control'[i].kind = control'[j].kind, control'[i].kind \in {"READY", "CONTROL"}
               PROVE  i = j
    BY DEF AnsweredOnce
  <2>1. CASE control' = control
    BY <1>4, <2>1 DEF AnsweredOnce
  <2>2. CASE Dropped(control, control')
    <3>1. /\ i + 1 \in 1..Len(control) /\ control'[i] = control[i + 1]
          /\ j + 1 \in 1..Len(control) /\ control'[j] = control[j + 1]
      BY <1>2, <2>2, DroppedElements
    <3>2. i + 1 = j + 1
      BY <1>4, <3>1 DEF AnsweredOnce
    <3>3. QED
      BY <3>2
  <2>3. QED
    BY <2>1, <2>2, SessionPipes
<1>10. QED
  BY <1>8, <1>9 DEF AnswersFit, AnswerFits, AnsweredOnce

LEMMA WorkerAnswersFit ==
  ASSUME IInv, WorkerStep, UNCHANGED sessionVars
  PROVE  AnswersFit'
<1>1. UNCHANGED <<openSent, commandSequence, state, generation, closeSequence>>
  BY SessionSame
<1>2. /\ control \in Seq(FrameSet) /\ commandSequence \in Nat /\ wGeneration \in Nat
      /\ generation \in Nat /\ expectedGeneration \in Nat /\ wRequest \in Nat /\ closeSequence \in Nat
      /\ closeRequest \in Nat /\ pendingGeneration \in Nat
  BY Counts
<1>3. \A i \in 1..Len(control) : control[i].gen \in Nat
  BY <1>2, FrameTypes
<1>4. AnsweredOnce /\ \A i \in 1..Len(control) : AnswerFits(control[i])
  BY AnswersFitEach DEF IInv
<1>5. /\ wGeneration <= wGeneration' /\ wGeneration' \in Nat
      /\ wGeneration' # wGeneration => exit = "running"
  BY GenerationGrows
<1>6. readySent => readySent'
  BY DEF WorkerStep, LoopIdle, EofRead, OpenRead, CloseRead, CreditRead, ControlRead, Reads, OpenNative,
         LoopBus, LoopAck, ControlRequested, ThreadEnds, ResumeIpc, SendCheck, Setup, PlayAccepted, PauseAccepted,
         NativeFailure, Expire, SendData, MediaIpcData, Writer, EndOfStream, CloseNative, Crash,
         workerVars, IInv, Opening
<1>0. loop = "close" => loop' = "close" /\ opened' = opened
  BY DEF WorkerStep, LoopIdle, EofRead, OpenRead, CloseRead, CreditRead, ControlRead, Reads, OpenNative,
         LoopBus, LoopAck, ControlRequested, ThreadEnds, ResumeIpc, SendCheck, Setup, PlayAccepted,
         PauseAccepted, NativeFailure, Expire, SendData, MediaIpcData, Writer, EndOfStream, CloseNative,
         Crash, workerVars, openVars, loopVars
<1>7. ASSUME NEW i \in 1..Len(control), NEW m, m = control[i] PROVE AnswerFits(m)'
  <2>1. AnswerFits(m)
    BY <1>4, <1>7
  <2>2. m.kind = "CLOSED" => wGeneration' = wGeneration
    BY <1>5, <1>7 DEF IInv, CloseInv, LastWord
  <2>3. m.gen <= wGeneration'
    <3>1. m.gen <= wGeneration /\ m.gen \in Nat
      BY <1>3, <1>7, <2>1 DEF AnswerFits
    <3>2. QED
      BY <1>2, <1>5, <3>1
  <2>4. QED
    BY <1>0, <1>1, <1>6, <2>1, <2>2, <2>3 DEF AnswerFits
\* What every answer of the worker has in common.
<1>8. ~opened => wGeneration = 0 /\ wRequest = 0 /\ closeRequest = 0
  <2> SUFFICES ASSUME ~opened PROVE wGeneration = 0 /\ wRequest = 0 /\ closeRequest = 0
    OBVIOUS
  <2>1. ~pipeline /\ generation = 0
    BY DEF IInv, CloseInv, Stages, Opening
  <2>2. QED
    BY <2>1 DEF IInv, Numbers
<1>9. wRequest <= commandSequence /\ closeRequest <= commandSequence
  BY <1>2 DEF IInv, Numbers
<1>10. ASSUME NEW m, m.own = opened, m.gen = wGeneration, m.seq \in {wRequest, closeRequest},
              m.kind \notin {"HELLO", "READY"}, m.kind = "CLOSED" => m.seq = closeRequest,
              opened \/ loop' = "close", UNCHANGED <<wGeneration, opened>>
       PROVE  AnswerFits(m)'
  <2>1. m.gen <= wGeneration' /\ m.seq <= commandSequence'
    BY <1>1, <1>2, <1>9, <1>10
  <2>2. m.own \/ (m.gen = 0 /\ m.seq = 0 /\ ~opened' /\ loop' = "close")
    BY <1>8, <1>10
  <2>3. closeRequest \in {0, closeSequence}
    BY DEF IInv, Numbers
  <2>4. QED
    BY <1>1, <1>10, <2>1, <2>2, <2>3 DEF AnswerFits
<1>11. ASSUME NEW m, ErrorAdded(m) \/ EndAdded(m) \/ ReceiptAdded(m) \/ ClosedAdded(m)
       PROVE  AnswerFits(m)'
  <2>1. CASE ErrorAdded(m)
    <3>1. loop' = "close"
      BY <2>1 DEF ErrorAdded, LoopBus
    <3>2. UNCHANGED <<wGeneration, opened>>
      BY <2>1 DEF ErrorAdded, LoopBus, openVars
    <3>3. QED
      BY <1>10, <2>1, <3>1, <3>2 DEF ErrorAdded
  <2>2. CASE EndAdded(m)
    <3>1. opened
      BY <2>2 DEF EndAdded, IInv, Opening, CloseInv, Stages
    <3>2. UNCHANGED <<wGeneration, opened>>
      BY <2>2 DEF EndAdded, LoopBus, openVars
    <3>3. QED
      BY <1>10, <2>2, <3>1, <3>2 DEF EndAdded
  <2>3. CASE ReceiptAdded(m)
    <3>1. exit = "running"
      BY <2>3 DEF ReceiptAdded, LoopAck, Running
    <3>2. generation # 0
      BY <2>3, <3>1, ControlHeld DEF ReceiptAdded, WorkerFree
    <3>3. opened
      BY <3>2 DEF IInv, Opening, CloseInv, Stages
    <3>4. UNCHANGED <<wGeneration, opened>>
      BY <2>3 DEF ReceiptAdded, LoopAck, openVars
    <3>5. opened = TRUE
      BY <3>3 DEF IInv, CloseInv, LinkTypeOK, WorkerTypeOK
    <3>6. QED
      BY <1>10, <2>3, <3>5, <3>4 DEF ReceiptAdded
  <2>4. CASE ClosedAdded(m)
    <3>1. loop' = "close" /\ UNCHANGED <<wGeneration, opened>>
      BY <2>4 DEF ClosedAdded, CloseNative, openVars, loopVars
    <3>2. QED
      BY <1>10, <2>4, <3>1 DEF ClosedAdded
  <2>5. QED
    BY <1>11, <2>1, <2>2, <2>3, <2>4
<1>12. ASSUME NEW m, ReadyAdded(m) PROVE AnswerFits(m)'
  <2>1. generation = 0 /\ pipeline /\ opened
    BY <1>12 DEF ReadyAdded, IInv, Opening, CloseInv, Stages
  <2>2. wGeneration = 1 /\ wRequest = 1
    BY <2>1 DEF IInv, Numbers
  <2>3. wGeneration' = wGeneration /\ readySent'
    BY <1>12 DEF ReadyAdded, LoopAck
  <2>4. m.gen <= wGeneration' /\ m.seq <= commandSequence'
    BY <1>1, <1>2, <1>9, <1>12, <2>3 DEF ReadyAdded
  <2>5. QED
    BY <1>1, <1>12, <2>1, <2>2, <2>3, <2>4 DEF ReadyAdded, AnswerFits
<1>13. ASSUME NEW i \in 1..Len(control') PROVE \A m : m = control'[i] => AnswerFits(m)'
  BY <1>7, <1>11, <1>12, WorkerFrames
<1>14. AnsweredOnce'
  <2>1. ASSUME NEW m, ReadyAdded(m) PROVE \A k \in 1..Len(control) : control[k].kind # "READY"
    BY <1>4, <2>1 DEF ReadyAdded, AnswerFits
  <2>2. ASSUME NEW m, ReceiptAdded(m) PROVE \A k \in 1..Len(control) : control[k].kind # "CONTROL"
    <3>1. exit = "running" /\ controlReady # "none"
      BY <2>2 DEF ReceiptAdded, LoopAck, Running
    <3>2. NoneAnswered
      BY <3>1, ControlHeld DEF WorkerFree, Sent, Taken, Accepted, Answered
    <3>3. QED
      BY <3>2 DEF NoneAnswered
  <2> SUFFICES ASSUME NEW i \in 1..Len(control'), NEW j \in 1..Len(control'),
                      control'[i].kind = control'[j].kind, control'[i].kind \in {"READY", "CONTROL"}
               PROVE  i = j
    BY DEF AnsweredOnce
  <2>3. \A k \in {i, j} :
          \/ k \in 1..Len(control) /\ control'[k] = control[k]
          \/ ReadyAdded(control'[k]) /\ k = Len(control) + 1 /\ control'[k].kind = "READY"
          \/ ReceiptAdded(control'[k]) /\ k = Len(control') /\ control'[k].kind = "CONTROL"
    <3>1. ASSUME NEW k \in {i, j}
          PROVE \/ k \in 1..Len(control) /\ control'[k] = control[k]
                \/ ReadyAdded(control'[k]) /\ k = Len(control) + 1 /\ control'[k].kind = "READY"
                \/ ReceiptAdded(control'[k]) /\ k = Len(control') /\ control'[k].kind = "CONTROL"
      <4>1. k \in 1..Len(control') /\ control'[k].kind \in {"READY", "CONTROL"}
        BY <3>1
      <4>2. /\ ~ErrorAdded(control'[k]) /\ ~EndAdded(control'[k]) /\ ~ClosedAdded(control'[k])
            /\ ReadyAdded(control'[k]) => control'[k].kind = "READY"
            /\ ReceiptAdded(control'[k]) => control'[k].kind = "CONTROL"
        BY <4>1 DEF ErrorAdded, EndAdded, ClosedAdded, ReadyAdded, ReceiptAdded
      <4>3. QED
        BY <4>1, <4>2, WorkerFrames
    <3>2. QED
      BY <3>1
  <2>4. QED
    BY <1>4, <2>1, <2>2, <2>3 DEF AnsweredOnce
<1>15. QED
  BY <1>13, <1>14 DEF AnswersFit, AnswerFits, AnsweredOnce

-----------------------------------------------------------------------------
\* What a step leaves of the control under way.
CommandsKept == \/ Dropped(commands, commands')
                \/ \A i \in 1..Len(commands') : commands'[i].kind \in Kinds =>
                     i \in 1..Len(commands) /\ commands'[i] = commands[i]
AnswersKept == \/ Dropped(control, control')
               \/ \A i \in 1..Len(control') : control'[i].kind = "CONTROL" =>
                    i \in 1..Len(control) /\ control'[i] = control[i]

LEMMA CommandsLeft ==
  ASSUME commands \in Seq(CommandSet), CommandsKept
  PROVE  /\ NoneSent => NoneSent'
         /\ ControlSent /\ Asked' = Asked /\ generation' = generation => ControlSent'
<1>1. CASE Dropped(commands, commands')
  <2>1. \A i \in 1..Len(commands') : i + 1 \in 1..Len(commands) /\ commands'[i] = commands[i + 1]
    BY <1>1, DroppedElements
  <2>2. NoneSent => NoneSent'
    BY <2>1 DEF NoneSent
  <2>3. ASSUME ControlSent, Asked' = Asked, generation' = generation PROVE ControlSent'
    <3> SUFFICES ASSUME NEW i \in 1..Len(commands'), commands'[i].kind \in Kinds
                 PROVE  /\ commands'[i].kind = Asked.kind /\ commands'[i].seq = Asked.seq
                        /\ commands'[i].gen = generation
                        /\ commands'[i].kind = "SEEK" => ~Live
                        /\ \A j \in 1..Len(commands') : commands'[j].kind \in Kinds => i = j
      BY <2>3 DEF ControlSent
    <3>1. i + 1 \in 1..Len(commands) /\ commands'[i] = commands[i + 1]
      BY <2>1
    <3>2. /\ commands[i + 1].kind = Asked.kind /\ commands[i + 1].seq = Asked.seq
          /\ commands[i + 1].gen = generation
          /\ commands[i + 1].kind = "SEEK" => ~Live
      BY <2>3, <3>1 DEF ControlSent
    <3>3. ASSUME NEW j \in 1..Len(commands'), commands'[j].kind \in Kinds PROVE i = j
      <4>1. j + 1 \in 1..Len(commands) /\ commands'[j] = commands[j + 1]
        BY <2>1
      <4>2. i + 1 = j + 1
        BY <2>3, <3>1, <3>3, <4>1 DEF ControlSent
      <4>3. QED
        BY <4>2
    <3>4. QED
      BY <3>1, <3>2, <3>3
  <2>4. QED
    BY <2>2, <2>3
<1>2. CASE \A i \in 1..Len(commands') : commands'[i].kind \in Kinds =>
             i \in 1..Len(commands) /\ commands'[i] = commands[i]
  <2>1. NoneSent => NoneSent'
    BY <1>2 DEF NoneSent
  <2>2. ControlSent /\ Asked' = Asked /\ generation' = generation => ControlSent'
    BY <1>2 DEF ControlSent
  <2>3. QED
    BY <2>1, <2>2
<1>3. QED
  BY <1>1, <1>2 DEF CommandsKept

LEMMA AnswersLeft ==
  ASSUME control \in Seq(FrameSet), AnswersKept
  PROVE  /\ NoneAnswered => NoneAnswered'
         /\ ReceiptSent /\ Asked' = Asked => ReceiptSent'
<1>1. CASE Dropped(control, control')
  <2>1. \A i \in 1..Len(control') : i + 1 \in 1..Len(control) /\ control'[i] = control[i + 1]
    BY <1>1, DroppedElements
  <2>2. QED
    BY <2>1 DEF NoneAnswered, ReceiptSent
<1>2. CASE \A i \in 1..Len(control') : control'[i].kind = "CONTROL" =>
             i \in 1..Len(control) /\ control'[i] = control[i]
  BY <1>2 DEF NoneAnswered, ReceiptSent
<1>3. QED
  BY <1>1, <1>2 DEF AnswersKept

LEMMA ControlKept ==
  ASSUME IInv, ControlAgreed, ControlSent, ReceiptSent, CommandsKept, AnswersKept,
         Asked' = Asked, generation' = generation, expectedGeneration' = expectedGeneration,
         commandSequence' \in {commandSequence, commandSequence + 1},
         Playing' => state' = state,
         UNCHANGED <<pendingControl, controlReady, thread, pendingGeneration, rtsp, wGeneration,
                     wRequest, paused, ready>>
  PROVE  ControlAgreed' /\ ControlSent' /\ ReceiptSent'
<1>1. commands \in Seq(CommandSet) /\ control \in Seq(FrameSet) /\ commandSequence \in Nat
  BY Counts
<1>2. ControlSent' /\ ReceiptSent' /\ (NoneSent => NoneSent') /\ (NoneAnswered => NoneAnswered')
  BY <1>1, CommandsLeft, AnswersLeft
<1>3. Asked.seq <= commandSequence => Asked.seq <= commandSequence'
  BY <1>1, ControlTyped
<1>4. WorkerFree' <=> WorkerFree
  BY DEF WorkerFree
<1>5. /\ Sent => Sent'
      /\ Taken => Taken'
      /\ Accepted => Accepted'
      /\ Answered => Answered'
  BY <1>2, <1>4 DEF Sent, Taken, Accepted, Answered
<1>6. Playing' => Playing
  BY DEF Playing
<1>7. ControlAgreed'
  <2>1. CASE Asked = NoControl
    BY <1>2, <1>4, <1>6, <2>1 DEF ControlAgreed, NoControl
  <2>2. CASE Asked # NoControl
    BY <1>3, <1>5, <2>2 DEF ControlAgreed, NoControl
  <2>3. QED
    BY <2>1, <2>2
<1>8. QED
  BY <1>2, <1>7

\* Once the receipt is taken, nothing of the control is left.
LEMMA ReceiptTaken ==
  ASSUME IInv, Dropped(control, control'), control[1].kind = "CONTROL"
  PROVE  NoneAnswered'
<1> SUFFICES ASSUME NEW i \in 1..Len(control'), control'[i].kind = "CONTROL" PROVE FALSE
  BY DEF NoneAnswered
<1>1. control \in Seq(FrameSet)
  BY Counts
<1>2. i + 1 \in 1..Len(control) /\ i + 1 > 1 /\ control'[i] = control[i + 1] /\ 1 \in 1..Len(control)
  BY <1>1, DroppedElements DEF Dropped
<1>3. i + 1 = 1
  BY <1>2 DEF IInv, AnswersFit
<1>4. QED
  BY <1>2, <1>3

LEMMA OverStays ==
  ASSUME Over, \/ SessionStep /\ IInv
               \/ WorkerStep /\ UNCHANGED sessionVars
  PROVE  Over'
<1>1. CASE SessionStep /\ IInv
  <2>1. exit' # "running"
    BY <1>1, SessionPipes DEF Over
  <2>2. state' = "closed"
    BY <1>1 DEF Over, SessionStep, Notes, Closes, OpenSent, HelloTaken, ReadyTaken, ControlTaken,
                EndTaken, DataTaken, Consume, CreditsSent, Issues, IssueControl, Killed, Leaves,
                sessionVars, Open
  <2>3. QED
    BY <2>1, <2>2 DEF Over
<1>2. CASE WorkerStep /\ UNCHANGED sessionVars
  <2>1. state' = state
    BY <1>2, SessionSame
  <2>2. exit' # "running"
    BY <1>2 DEF Over, WorkerStep, LoopIdle, EofRead, OpenRead, CloseRead, CreditRead, ControlRead, Reads,
         OpenNative, LoopBus, LoopAck, ControlRequested, ThreadEnds, ResumeIpc, SendCheck, Setup, PlayAccepted, PauseAccepted,
         NativeFailure, Expire, SendData, MediaIpcData, Writer, EndOfStream, CloseNative, Crash,
         pipes, Running
  <2>3. QED
    BY <2>1, <2>2 DEF Over
<1>3. QED
  BY <1>1, <1>2

-----------------------------------------------------------------------------
LEMMA SessionControls ==
  ASSUME IInv, SessionStep, UNCHANGED workerVars
  PROVE  Controls'
<1>1. UNCHANGED <<pendingControl, controlReady, thread, pendingGeneration, rtsp, wGeneration,
                  wRequest, paused, ready>>
  BY WorkerSame
<1>2. CASE Over
  BY <1>2, OverStays DEF Controls
<1>3. SUFFICES ASSUME ~Over PROVE Controls'
  BY <1>2
<1>4. ControlAgreed /\ ControlSent /\ ReceiptSent
  BY <1>3 DEF IInv, Controls
<1>5. /\ commands \in Seq(CommandSet) /\ control \in Seq(FrameSet) /\ commandSequence \in Nat
      /\ generation \in Nat /\ expectedGeneration \in Nat
  BY Counts
<1>6. AnswersKept
  BY SessionPipes DEF AnswersKept
<1>7. commandSequence' \in {commandSequence, commandSequence + 1}
  BY SessionCounts
<1>8. Kinds \subseteq {"PAUSE", "PLAY", "SEEK"}
  BY LinkAssumption DEF LinkAssumption
<1>9. Open => abandoned = NoControl /\ Asked = pending
  BY DEF IInv, CloseInv, Settled, Asked, Idle
<1>10. ~Open => Idle /\ Asked = abandoned /\ ~Playing
  BY DEF IInv, CloseInv, Settled, Asked, Open, Playing
<1>11. CASE Notes \/ OpenSent \/ HelloTaken \/ EndTaken \/ CreditsSent \/ Killed \/
            (\E u : DataTaken(u)) \/ (\E u \in held : Consume(u))
  <2>1. UNCHANGED <<state, pending, generation, expectedGeneration>>
    BY <1>11 DEF Notes, OpenSent, HelloTaken, EndTaken, CreditsSent, Killed, DataTaken, Consume,
                 sessionVars
  <2>2. CommandsKept
    <3>1. CASE commands' = commands
      BY <3>1 DEF CommandsKept
    <3>2. ASSUME NEW m, Added(commands, commands', m), m.kind \notin Kinds PROVE CommandsKept
      BY <1>5, <3>2, AddedElements DEF CommandsKept
    <3>3. /\ Command("OPEN", 0, commandSequence + 1, 0).kind \notin Kinds
          /\ Command("CREDIT", generation, 0, creditUnits).kind \notin Kinds
          /\ Command("EOF", 0, 0, 0).kind \notin Kinds
      BY <1>8 DEF Command
    <3>4. QED
      BY <1>11, <3>1, <3>2, <3>3
         DEF Notes, OpenSent, HelloTaken, EndTaken, CreditsSent, Killed, DataTaken, Consume, pipes
  <2>3. CASE abandoned' = abandoned
    <3>1. Asked' = Asked /\ (Playing' => state' = state)
      BY <2>1, <2>3 DEF Asked, Idle, Playing
    <3>2. QED
      BY <1>1, <1>4, <1>6, <1>7, <2>1, <2>2, <3>1, ControlKept DEF Controls
  <2>4. CASE abandoned' # abandoned
    <3>1. /\ abandoned' = NoControl /\ state = "closing" /\ Dropped(control, control')
          /\ control[1].kind = "CONTROL"
      BY <1>11, <2>4 DEF Notes, OpenSent, HelloTaken, EndTaken, CreditsSent, Killed, DataTaken, Consume,
                         sessionVars
    <3>2. ~NoneAnswered
      BY <1>5, <3>1 DEF NoneAnswered, Dropped
    <3>3. Answered
      BY <1>4, <3>2 DEF ControlAgreed, Sent, Taken, Accepted
    <3>4. NoneSent /\ WorkerFree
      BY <3>3 DEF Answered
    <3>5. NoneSent' /\ WorkerFree'
      BY <1>1, <1>5, <2>2, <3>4, CommandsLeft DEF WorkerFree
    <3>6. NoneAnswered'
      BY <3>1, ReceiptTaken
    <3>7. Asked' = NoControl /\ ~Playing'
      BY <1>10, <2>1, <3>1 DEF Asked, Idle, Playing, Open, NoControl
    <3>8. ControlAgreed' /\ ControlSent' /\ ReceiptSent'
      BY <3>5, <3>6, <3>7 DEF ControlAgreed, ControlSent, ReceiptSent, NoneSent, NoneAnswered, NoControl
    <3>9. QED
      BY <3>8 DEF Controls
  <2>5. QED
    BY <2>3, <2>4
<1>12. ASSUME NEW m, Added(commands, commands', m), m.kind \notin Kinds PROVE CommandsKept
  BY <1>5, <1>12, AddedElements DEF CommandsKept
<1>13. CASE Closes
  <2>1. /\ Open /\ abandoned' = pending /\ pending' = NoControl /\ state' = "closing"
        /\ UNCHANGED <<generation, expectedGeneration>>
    BY <1>13 DEF Closes
  <2>2. Asked' = Asked /\ ~Playing'
    BY <1>9, <2>1 DEF Asked, Idle, Playing, NoControl
  <2>3. CommandsKept
    <3>1. /\ Command("CLOSE", generation, commandSequence + 1, 0).kind \notin Kinds
          /\ Command("EOF", 0, 0, 0).kind \notin Kinds
      BY <1>8 DEF Command
    <3>2. QED
      BY <1>12, <1>13, <3>1 DEF Closes
  <2>4. QED
    BY <1>1, <1>4, <1>6, <1>7, <2>1, <2>2, <2>3, ControlKept DEF Controls
<1>14. CASE Leaves
  <2>1. /\ exit = "running" => ~Open
        /\ state' = "closed" /\ exit' = exit /\ pending' = NoControl
        /\ UNCHANGED <<abandoned, generation, expectedGeneration>>
    BY <1>14 DEF Leaves
  <2>2. CASE Open
    BY <2>1, <2>2 DEF Controls, Over
  <2>3. CASE ~Open
    <3>1. Asked' = Asked /\ ~Playing'
      BY <1>10, <2>1, <2>3 DEF Asked, Idle, Playing, NoControl
    <3>2. CommandsKept
      <4>1. Command("EOF", 0, 0, 0).kind \notin Kinds
        BY <1>8 DEF Command
      <4>2. QED
        BY <1>12, <1>14, <4>1 DEF Leaves
    <3>3. QED
      BY <1>1, <1>4, <1>6, <1>7, <2>1, <3>1, <3>2, ControlKept DEF Controls
  <2>4. QED
    BY <2>2, <2>3
<1>15. CASE ReadyTaken
  <2>1. /\ generation = 0 /\ state = "opening" /\ state' = "playing" /\ generation' = 1
        /\ wGeneration = 1 /\ UNCHANGED <<commands, expectedGeneration, pending, abandoned>>
    BY <1>15 DEF ReadyTaken
  <2>2. Asked = NoControl /\ NoneSent /\ NoneAnswered /\ WorkerFree
    BY <1>4, <2>1 DEF ControlAgreed
  <2>3. Asked' = Asked /\ NoneSent' /\ NoneAnswered' /\ WorkerFree'
    BY <1>1, <1>5, <1>6, <2>1, <2>2, AnswersLeft DEF Asked, Idle, NoneSent, WorkerFree
  <2>4. expectedGeneration = 1 /\ ~paused
    BY <2>1 DEF IInv, Numbers, Opening
  <2>5. paused' = (state' = "paused")
    BY <1>1, <2>1, <2>4 DEF IInv, CloseInv, LinkTypeOK, WorkerTypeOK
  <2>6. ControlAgreed' /\ ControlSent' /\ ReceiptSent'
    BY <1>1, <2>1, <2>2, <2>3, <2>4, <2>5
       DEF ControlAgreed, ControlSent, ReceiptSent, NoneSent, NoneAnswered
  <2>7. QED
    BY <2>6 DEF Controls
<1>16. CASE ControlTaken
  <2>1. /\ Open /\ ~Idle /\ Answered
        /\ Dropped(control, control') /\ control[1].kind = "CONTROL"
        /\ generation' = pending.gen /\ state' = StateAfter(pending.kind) /\ pending' = NoControl
        /\ UNCHANGED <<commands, expectedGeneration, abandoned>>
    BY <1>16 DEF ControlTaken
  <2>2. Asked = pending /\ Asked # NoControl /\ abandoned = NoControl
    BY <1>9, <2>1 DEF Idle
  <2>3. /\ pending.gen = expectedGeneration /\ NoneSent /\ WorkerFree
        /\ wGeneration = pending.gen /\ paused = (pending.kind = "PAUSE")
    BY <1>4, <2>1, <2>2 DEF ControlAgreed, Answered
  <2>4. Asked' = NoControl /\ NoneSent' /\ NoneAnswered' /\ WorkerFree'
    BY <1>1, <2>1, <2>2, <2>3, ReceiptTaken DEF Asked, Idle, NoneSent, WorkerFree, NoControl
  <2>5. paused' = (state' = "paused")
    BY <1>1, <2>1, <2>3 DEF StateAfter
  <2>6. ControlAgreed' /\ ControlSent' /\ ReceiptSent'
    BY <1>1, <2>1, <2>3, <2>4, <2>5
       DEF ControlAgreed, ControlSent, ReceiptSent, NoneSent, NoneAnswered, NoControl
  <2>7. QED
    BY <2>6 DEF Controls
<1>17. ASSUME NEW kind \in Kinds, Issues(kind) PROVE Controls'
  <2>1. PICK m : m = Command(kind, generation, commandSequence + 1, 0)
    OBVIOUS
  <2>2. m.kind = kind /\ m.gen = generation /\ m.seq = commandSequence + 1
    BY <2>1 DEF Command
  <2>3. /\ Added(commands, commands', m) /\ Playing /\ Idle
        /\ ~(kind = "PAUSE" /\ state = "paused") /\ (kind = "SEEK" => ~Live)
        /\ commandSequence' = commandSequence + 1
        /\ expectedGeneration' = IF kind = "PAUSE" THEN generation ELSE generation + 1
        /\ pending' = [kind |-> kind, seq |-> commandSequence + 1,
                       gen |-> IF kind = "PAUSE" THEN generation ELSE generation + 1]
        /\ UNCHANGED <<control, state, generation, abandoned>>
    BY <1>17, <2>1 DEF Issues, IssueControl, Playing
  <2>4. Open /\ Asked = NoControl
    BY <1>9, <2>3 DEF Playing, Open, Idle
  <2>5. /\ NoneSent /\ NoneAnswered /\ WorkerFree /\ wGeneration = generation
        /\ paused = (state = "paused") /\ generation # 0
    BY <1>4, <2>3, <2>4 DEF ControlAgreed, IInv, Opening
  <2>6. Asked' = pending' /\ Asked' # NoControl
    <3>1. pending'.kind # "none" /\ NoControl.kind = "none"
      BY <1>8, <2>3 DEF NoControl
    <3>2. pending' # NoControl /\ NoControl' = NoControl
      BY <3>1 DEF NoControl
    <3>3. QED
      BY <3>2 DEF Asked, Idle
  <2>7. Asked'.kind = kind /\ Asked'.seq = commandSequence + 1 /\ Asked'.gen = expectedGeneration'
    BY <2>3, <2>6
  <2>8. NoneAnswered' /\ WorkerFree'
    BY <1>1, <2>3, <2>5 DEF NoneAnswered, WorkerFree
  <2>9. Sent'
    BY <1>1, <2>3, <2>5, <2>7, <2>8 DEF Sent
  <2>10. \A i \in 1..Len(commands') : commands'[i].kind \in Kinds => i = Len(commands) + 1 /\ commands'[i] = m
    BY <1>5, <2>3, <2>5, AddedElements DEF NoneSent
  <2>11. ControlSent'
    BY <2>2, <2>3, <2>7, <2>10 DEF ControlSent
  <2>12. ReceiptSent'
    BY <2>8 DEF ReceiptSent, NoneAnswered
  <2>13. ControlAgreed'
    <3>1. commandSequence + 1 <= commandSequence'
      BY <1>5, <2>3
    <3>2. NoControl' = NoControl
      BY DEF NoControl
    <3>3. QED
      BY <2>3, <2>5, <2>6, <2>7, <2>9, <3>1, <3>2 DEF ControlAgreed
  <2>14. QED
    BY <2>11, <2>12, <2>13 DEF Controls
<1>18. QED
  BY <1>11, <1>13, <1>14, <1>15, <1>16, <1>17 DEF SessionStep

-----------------------------------------------------------------------------
LEMMA WorkerControls ==
  ASSUME IInv, WorkerStep, UNCHANGED sessionVars
  PROVE  Controls'
<1>1. UNCHANGED <<state, generation, expectedGeneration, commandSequence, pending, abandoned>>
  BY SessionSame
<1>2. CASE Over
  BY <1>2, OverStays DEF Controls
<1>3. SUFFICES ASSUME ~Over PROVE Controls'
  BY <1>2
<1>4. ControlAgreed /\ ControlSent /\ ReceiptSent
  BY <1>3 DEF IInv, Controls
<1>5. /\ commands \in Seq(CommandSet) /\ control \in Seq(FrameSet) /\ commandSequence \in Nat
      /\ generation \in Nat /\ expectedGeneration \in Nat
  BY Counts
<1>6. Asked' = Asked /\ (Playing' <=> Playing) /\ NoControl' = NoControl
  BY <1>1 DEF Asked, Idle, Playing, NoControl
<1>7. Kinds \subseteq {"PAUSE", "PLAY", "SEEK"}
  BY LinkAssumption DEF LinkAssumption
<1>8. Asked # NoControl =>
        /\ Asked.kind \in Kinds /\ generation # 0 /\ Asked.gen = expectedGeneration
        /\ Asked.seq <= commandSequence
        /\ expectedGeneration = IF Asked.kind = "PAUSE" THEN generation ELSE generation + 1
        /\ Sent \/ Taken \/ Accepted \/ Answered
  BY <1>4 DEF ControlAgreed
<1>9. Asked = NoControl => NoneSent /\ NoneAnswered /\ WorkerFree
  BY <1>4 DEF ControlAgreed
<1>10. generation # 0 => ready /\ setupSent /\ opened
  BY DEF IInv, Opening, CloseInv, Stages
\* Of the frames that are added, only a receipt is one of a control.
<1>11. (\A m : ~ReceiptAdded(m)) => AnswersKept
  <2> SUFFICES ASSUME \A m : ~ReceiptAdded(m), NEW i \in 1..Len(control'), control'[i].kind = "CONTROL"
               PROVE  i \in 1..Len(control) /\ control'[i] = control[i]
    BY DEF AnswersKept
  <2>1. ~ErrorAdded(control'[i]) /\ ~EndAdded(control'[i]) /\ ~ReadyAdded(control'[i])
        /\ ~ClosedAdded(control'[i])
    BY DEF ErrorAdded, EndAdded, ReadyAdded, ClosedAdded
  <2>2. QED
    BY <2>1, WorkerFrames
<1>12. (\A m : ~ReceiptAdded(m)) => (NoneAnswered => NoneAnswered') /\ ReceiptSent'
  BY <1>4, <1>5, <1>6, <1>11, AnswersLeft
<1>13. commands' = commands => NoneSent' = NoneSent /\ ControlSent'
  BY <1>1, <1>4, <1>6 DEF NoneSent, ControlSent
<1>14. ~LoopAck => \A m : ~ReceiptAdded(m)
  BY DEF ReceiptAdded
\* A control in some stage, the other stages excluded.
<1>15. ASSUME Asked # NoControl, Sent' \/ Taken' \/ Accepted' \/ Answered', ControlSent', ReceiptSent'
       PROVE  Controls'
  <2>1. ControlAgreed'
    BY <1>1, <1>6, <1>8, <1>15 DEF ControlAgreed
  <2>2. QED
    BY <1>15, <2>1 DEF Controls
<1>16. ASSUME Asked = NoControl, NoneSent', NoneAnswered', WorkerFree',
              Playing => UNCHANGED <<wGeneration, paused>>
       PROVE  Controls'
  <2>1. ControlAgreed'
    BY <1>1, <1>4, <1>6, <1>16 DEF ControlAgreed
  <2>2. ControlSent' /\ ReceiptSent'
    BY <1>16 DEF ControlSent, ReceiptSent, NoneSent, NoneAnswered
  <2>3. QED
    BY <2>1, <2>2 DEF Controls
<1>17. CASE EofRead \/ OpenRead \/ CloseRead \/ CreditRead
  <2>1. /\ Dropped(commands, commands')
        /\ UNCHANGED <<control, pendingControl, controlReady, thread, pendingGeneration, rtsp,
                       wGeneration, paused, ready>>
    BY <1>17 DEF EofRead, OpenRead, CloseRead, CreditRead, Reads, controlVars, rtspVars
  <2>2. CommandsKept /\ AnswersKept
    BY <2>1 DEF CommandsKept, AnswersKept
  <2>3. CASE wRequest' = wRequest
    BY <1>1, <1>4, <1>5, <1>6, <2>1, <2>2, <2>3, ControlKept DEF Controls
  <2>4. CASE wRequest' # wRequest
    <3>1. ~opened
      BY <1>17, <2>4 DEF EofRead, OpenRead, CloseRead, CreditRead
    <3>2. Asked = NoControl
      BY <1>8, <1>10, <3>1
    <3>3. NoneSent' /\ NoneAnswered' /\ WorkerFree'
      BY <1>5, <1>9, <2>1, <2>2, <3>2, CommandsLeft, AnswersLeft DEF WorkerFree
    <3>4. QED
      BY <1>16, <2>1, <3>2, <3>3
  <2>5. QED
    BY <2>3, <2>4
<1>18. CASE ControlRead
  <2> DEFINE kind == commands[1].kind
  <2>1. /\ Dropped(commands, commands') /\ 1 \in 1..Len(commands)
        /\ kind \in Kinds
        /\ pendingControl' = kind /\ wRequest' = commands[1].seq
        /\ pendingGeneration' = IF kind = "PAUSE" THEN pendingGeneration ELSE wGeneration + 1
        /\ thread' = "starting"
        /\ UNCHANGED <<control, controlReady, rtsp, wGeneration, paused, ready>> /\ ready
    BY <1>5, <1>18 DEF ControlRead, Reads, rtspVars, Dropped
  <2>2. Asked # NoControl /\ Sent
    <3>1. ~NoneSent
      BY <2>1 DEF NoneSent
    <3>2. QED
      BY <1>8, <1>9, <3>1 DEF Taken, Accepted, Answered
  <2>3. kind = Asked.kind /\ commands[1].seq = Asked.seq
    BY <1>4, <2>1 DEF ControlSent
  <2>4. NoneSent'
    <3> SUFFICES ASSUME NEW i \in 1..Len(commands'), commands'[i].kind \in Kinds PROVE FALSE
      BY DEF NoneSent
    <3>1. i + 1 \in 1..Len(commands) /\ i + 1 > 1 /\ commands'[i] = commands[i + 1]
      BY <1>5, <2>1, DroppedElements
    <3>2. 1 = i + 1
      BY <1>4, <2>1, <3>1 DEF ControlSent
    <3>3. QED
      BY <3>1, <3>2
  <2>5. NoneAnswered'
    BY <2>1, <2>2 DEF Sent, NoneAnswered
  <2>6. /\ controlReady = "none" /\ pendingGeneration = 0 /\ rtsp = "none"
        /\ wGeneration = generation /\ (Asked.kind = "PAUSE" => ~paused)
    BY <2>1, <2>2 DEF Sent, WorkerFree
  <2>7. pendingGeneration' = IF Asked.kind = "PAUSE" THEN 0 ELSE Asked.gen
    BY <1>8, <2>1, <2>2, <2>3, <2>6
  <2> HIDE DEF kind
  <2>8. Taken'
    BY <1>1, <1>6, <2>1, <2>3, <2>4, <2>5, <2>6, <2>7 DEF Taken
  <2>9. ControlSent' /\ ReceiptSent'
    BY <2>4, <2>5 DEF ControlSent, ReceiptSent, NoneSent, NoneAnswered
  <2>10. QED
    BY <1>15, <2>2, <2>8, <2>9
<1>19. CASE LoopAck
  <2>1. /\ UNCHANGED <<commands, pendingControl, thread, pendingGeneration, rtsp,
                       wGeneration, wRequest, paused, ready>>
        /\ controlReady' = IF controlReady # "none" /\ thread = "none" THEN "none" ELSE controlReady
    BY <1>19 DEF LoopAck, rtspVars
  <2>2. CASE controlReady # "none" /\ thread = "none"
    <3>1. Asked # NoControl /\ Accepted
      BY <1>8, <1>9, <2>2 DEF WorkerFree, Sent, Taken, Answered
    <3>2. /\ NoneSent /\ NoneAnswered /\ pendingControl = "none" /\ controlReady = Asked.kind
          /\ wRequest = Asked.seq /\ pendingGeneration = 0 /\ rtsp = "none"
          /\ wGeneration = Asked.gen /\ paused = (Asked.kind = "PAUSE")
      BY <3>1 DEF Accepted
    <3>3. NoneSent' /\ WorkerFree'
      BY <2>1, <2>2, <3>2 DEF NoneSent, WorkerFree
    <3>4. Answered'
      BY <1>6, <2>1, <3>2, <3>3 DEF Answered
    <3>5. ReceiptSent'
      <4> SUFFICES ASSUME NEW i \in 1..Len(control'), NEW m, m = control'[i], m.kind = "CONTROL"
                   PROVE  /\ m.command = Asked.kind /\ m.seq = Asked.seq
                          /\ m.gen = Asked.gen /\ m.state = StateAfter(Asked.kind)
        BY <1>6 DEF ReceiptSent
      <4>1. ~ErrorAdded(m) /\ ~EndAdded(m) /\ ~ReadyAdded(m) /\ ~ClosedAdded(m)
        BY DEF ErrorAdded, EndAdded, ReadyAdded, ClosedAdded
      <4>2. i \notin 1..Len(control)
        BY <3>2, WorkerFrames DEF NoneAnswered
      <4>3. ReceiptAdded(m)
        BY <4>1, <4>2, WorkerFrames
      <4>4. QED
        BY <3>2, <4>3 DEF ReceiptAdded, StateAfter
    <3>6. ControlSent'
      BY <3>3 DEF ControlSent, NoneSent
    <3>7. QED
      BY <1>15, <3>1, <3>4, <3>5, <3>6
  <2>3. CASE ~(controlReady # "none" /\ thread = "none")
    <3>1. \A m : ~ReceiptAdded(m)
      BY <2>3 DEF ReceiptAdded
    <3>2. AnswersKept /\ CommandsKept /\ controlReady' = controlReady
      BY <1>11, <2>1, <2>3, <3>1 DEF CommandsKept
    <3>3. QED
      BY <1>1, <1>4, <1>5, <1>6, <2>1, <3>2, ControlKept DEF Controls
  <2>4. QED
    BY <2>2, <2>3
<1>20. CASE ControlRequested
  <2>1. /\ UNCHANGED <<commands, control, pendingControl, controlReady, pendingGeneration,
                       wGeneration, wRequest, paused, ready>>
        /\ Taken /\ Asked # NoControl
        /\ rtsp' = IF pendingControl = "PAUSE" THEN "PAUSE" ELSE "PLAY"
        /\ thread' = "running"
    BY <1>20 DEF ControlRequested, pipes
  <2>2. NoneSent' /\ NoneAnswered' /\ ControlSent' /\ ReceiptSent'
    BY <1>12, <1>13, <1>14, <2>1 DEF Taken, NoneSent, NoneAnswered, ReceiptSent
  <2>3. Taken'
    BY <1>1, <1>6, <2>1, <2>2 DEF Taken
  <2>4. QED
    BY <1>15, <2>1, <2>2, <2>3
<1>21. CASE ThreadEnds
  <2>1. /\ UNCHANGED <<commands, control, pendingControl, controlReady, pendingGeneration, rtsp,
                       wGeneration, wRequest, paused, ready>>
        /\ thread = "running" /\ thread' = "none"
    BY <1>21 DEF ThreadEnds, pipes, rtspVars
  <2>2. NoneSent' = NoneSent /\ NoneAnswered' = NoneAnswered /\ ControlSent' /\ ReceiptSent'
    BY <1>1, <1>4, <1>6, <1>13, <2>1 DEF NoneAnswered, ReceiptSent
  <2>3. Asked # NoControl /\ (Taken \/ Accepted)
    BY <1>8, <1>9, <2>1 DEF WorkerFree, Sent, Answered
  <2>4. Taken => Taken'
    BY <1>1, <1>6, <2>1, <2>2 DEF Taken
  <2>5. Accepted => Accepted'
    BY <1>1, <1>6, <2>1, <2>2 DEF Accepted
  <2>6. QED
    BY <1>15, <2>2, <2>3, <2>4, <2>5
<1>22. CASE Setup
  <2>1. /\ UNCHANGED <<commands, control, pendingControl, controlReady, thread, pendingGeneration,
                       wGeneration, wRequest, paused, ready>>
        /\ ~setupSent /\ rtsp' \in {"PLAY", rtsp}
    BY <1>22 DEF Setup, pipes, controlVars
  <2>2. Asked = NoControl /\ ~ready
    BY <1>8, <1>10, <2>1 DEF IInv, CloseInv, Stages
  <2>3. NoneSent' /\ NoneAnswered'
    BY <1>9, <2>1, <2>2 DEF NoneSent, NoneAnswered
  <2>4. WorkerFree'
    BY <1>9, <2>1, <2>2 DEF WorkerFree
  <2>5. QED
    BY <1>16, <2>1, <2>2, <2>3, <2>4
<1>23. CASE PlayAccepted
  <2>1. /\ UNCHANGED <<commands, control, thread, wRequest>>
        /\ rtsp = "PLAY" /\ rtsp' = "none"
        /\ wGeneration' = IF pendingGeneration # 0 THEN pendingGeneration ELSE wGeneration
        /\ pendingGeneration' = 0 /\ paused' = FALSE
        /\ controlReady' = pendingControl /\ pendingControl' = "none" /\ ready' = TRUE
    BY <1>23 DEF PlayAccepted, pipes
  <2>2. NoneSent' = NoneSent /\ NoneAnswered' = NoneAnswered /\ ControlSent' /\ ReceiptSent'
    BY <1>1, <1>4, <1>6, <1>13, <2>1 DEF NoneAnswered, ReceiptSent
  <2>3. CASE Asked = NoControl
    <3>1. WorkerFree /\ ~ready
      BY <1>9, <2>1, <2>3 DEF WorkerFree
    <3>2. ~Playing
      BY <1>10, <3>1 DEF IInv, Opening
    <3>3. WorkerFree'
      BY <2>1, <3>1 DEF WorkerFree
    <3>4. QED
      BY <1>9, <1>16, <2>2, <2>3, <3>2, <3>3
  <2>4. CASE Asked # NoControl
    <3>1. Taken
      BY <1>8, <1>10, <2>1, <2>4 DEF Sent, Answered, Accepted, WorkerFree
    <3>2. /\ NoneSent /\ NoneAnswered /\ pendingControl = Asked.kind /\ wRequest = Asked.seq
          /\ Asked.kind # "PAUSE" /\ thread # "starting" /\ pendingGeneration = Asked.gen
      BY <2>1, <3>1 DEF Taken
    <3>3. Asked.gen # 0
      BY <1>5, <1>8, <2>4, <3>2
    <3>4. wGeneration' = Asked.gen /\ paused' = (Asked.kind = "PAUSE")
      BY <2>1, <3>2, <3>3
    <3>5. Accepted'
      BY <1>6, <2>1, <2>2, <3>2, <3>4 DEF Accepted
    <3>6. QED
      BY <1>15, <2>2, <2>4, <3>5
  <2>5. QED
    BY <2>3, <2>4
<1>24. CASE PauseAccepted
  <2>1. /\ UNCHANGED <<commands, control, thread, wRequest, wGeneration, pendingGeneration, ready>>
        /\ rtsp = "PAUSE" /\ rtsp' = "none" /\ paused' = TRUE
        /\ controlReady' = pendingControl /\ pendingControl' = "none"
    BY <1>24 DEF PauseAccepted, pipes
  <2>2. NoneSent' = NoneSent /\ NoneAnswered' = NoneAnswered /\ ControlSent' /\ ReceiptSent'
    BY <1>1, <1>4, <1>6, <1>13, <2>1 DEF NoneAnswered, ReceiptSent
  <2>3. Asked # NoControl /\ Taken
    BY <1>8, <1>9, <2>1 DEF Sent, Answered, Accepted, WorkerFree
  <2>4. /\ NoneSent /\ NoneAnswered /\ pendingControl = Asked.kind /\ wRequest = Asked.seq
        /\ Asked.kind = "PAUSE" /\ thread # "starting" /\ pendingGeneration = 0
        /\ wGeneration = generation
    BY <2>1, <2>3 DEF Taken
  <2>5. Asked.gen = wGeneration
    BY <1>8, <2>3, <2>4
  <2>6. Accepted'
    BY <1>6, <2>1, <2>2, <2>4, <2>5 DEF Accepted
  <2>7. QED
    BY <1>15, <2>2, <2>3, <2>6
<1>25. CASE NativeFailure
  <2>1. /\ UNCHANGED <<commands, control, pendingControl, controlReady, thread, pendingGeneration,
                       wGeneration, wRequest, paused, ready>>
        /\ rtsp' = "none"
    BY <1>25 DEF NativeFailure, pipes, controlVars
  <2>2. NoneSent' = NoneSent /\ NoneAnswered' = NoneAnswered /\ ControlSent' /\ ReceiptSent'
    BY <1>1, <1>4, <1>6, <1>13, <2>1 DEF NoneAnswered, ReceiptSent
  <2>3. WorkerFree => WorkerFree'
    BY <2>1 DEF WorkerFree
  <2>4. /\ Sent => Sent'
        /\ Taken => Taken'
        /\ Accepted => Accepted'
        /\ Answered => Answered'
    BY <1>1, <1>6, <2>1, <2>2, <2>3 DEF Sent, Taken, Accepted, Answered
  <2>5. CASE Asked = NoControl
    BY <1>9, <1>16, <2>1, <2>2, <2>3, <2>5
  <2>6. CASE Asked # NoControl
    BY <1>8, <1>15, <2>2, <2>4, <2>6
  <2>7. QED
    BY <2>5, <2>6
<1>26. ASSUME commands' = commands, ~LoopAck,
              UNCHANGED <<pendingControl, controlReady, thread, pendingGeneration, rtsp, wGeneration,
                          wRequest, paused, ready>>
       PROVE  Controls'
  <2>1. CommandsKept /\ AnswersKept
    BY <1>11, <1>14, <1>26 DEF CommandsKept
  <2>2. QED
    BY <1>1, <1>4, <1>5, <1>6, <1>26, <2>1, ControlKept DEF Controls
<1>27. CASE OpenNative
  <2>1. /\ UNCHANGED <<commands, control, pendingControl, controlReady, thread, pendingGeneration, rtsp,
                       wRequest, paused, ready>>
        /\ ~pipeline
    BY <1>27 DEF OpenNative, pipes, controlVars, rtspVars
  <2>2. Asked = NoControl /\ ~Playing
    BY <1>8, <1>10, <2>1 DEF IInv, CloseInv, Stages, Opening
  <2>3. NoneSent' /\ NoneAnswered' /\ WorkerFree'
    BY <1>9, <2>1, <2>2 DEF NoneSent, NoneAnswered, WorkerFree
  <2>4. QED
    BY <1>16, <2>2, <2>3
<1>28. CASE \/ LoopIdle \/ LoopBus \/ Expire \/ ResumeIpc \/ SendCheck \/ SendData \/ MediaIpcData
            \/ Writer \/ EndOfStream \/ Crash
            \/ (\E teardown \in {"ok", "gone", "none"}, local \in BOOLEAN : CloseNative(teardown, local))
  <2>1. commands' = commands
    BY <1>28 DEF LoopIdle, LoopBus, Expire, ResumeIpc, SendCheck, SendData, MediaIpcData, Writer,
                 EndOfStream, Crash, CloseNative, pipes
  <2>2. UNCHANGED <<pendingControl, controlReady, thread, pendingGeneration, rtsp, wGeneration,
                    wRequest, paused, ready>>
    BY <1>28 DEF LoopIdle, LoopBus, Expire, ResumeIpc, SendCheck, SendData, MediaIpcData, Writer,
                 EndOfStream, Crash, CloseNative, workerVars, controlVars, rtspVars
  <2>3. CASE LoopAck
    BY <1>19, <2>3
  <2>4. CASE ~LoopAck
    BY <1>26, <2>1, <2>2, <2>4
  <2>5. QED
    BY <2>3, <2>4
<1>29. QED
  BY <1>17, <1>18, <1>19, <1>20, <1>21, <1>22, <1>23, <1>24, <1>25, <1>27, <1>28 DEF WorkerStep

-----------------------------------------------------------------------------
\* The units of a queue after its first one was taken, or one was added.
LEMMA UnitsOf ==
  ASSUME NEW s \in Seq(UnitSet)
  PROVE  /\ \A u : u \in Units(s) <=> \E i \in 1..Len(s) : u = s[i]
         /\ \A i \in 1..Len(s) : s[i] \in UnitSet /\ s[i].gen \in Nat /\ s[i].seq \in Nat
         /\ Len(s) \in Nat
<1>1. DOMAIN s = 1..Len(s)
  OBVIOUS
<1>2. QED
  BY SMTT(30), <1>1, UnitTypes DEF Units

LEMMA DroppedUnits ==
  ASSUME NEW s \in Seq(UnitSet), Increasing(s), NEW t \in Seq(UnitSet), Dropped(s, t)
  PROVE  /\ Increasing(t) /\ s[1] \in Units(s) /\ 1 \in 1..Len(s)
         /\ Units(s) = {s[1]} \cup Units(t)
         /\ \A u \in Units(t) : s[1].seq < u.seq
         /\ \A i \in 1..Len(t) : i + 1 \in 1..Len(s) /\ t[i] = s[i + 1]
<1>1. \A i \in 1..Len(t) : i + 1 \in 1..Len(s) /\ i + 1 > 1 /\ t[i] = s[i + 1]
  BY DroppedElements
<1>2. 1 \in 1..Len(s) /\ s[1] \in Units(s)
  BY UnitsOf DEF Dropped
<1>3. \A i \in 2..Len(s) : i - 1 \in 1..Len(t) /\ t[i - 1] = s[i]
  BY DEF Dropped
<1>4. Increasing(t)
  BY <1>1 DEF Increasing
<1>5. \A u \in Units(t) : u \in Units(s) /\ s[1].seq < u.seq
  <2> TAKE u \in Units(t)
  <2>1. PICK i \in 1..Len(t) : u = t[i]
    BY UnitsOf
  <2>2. i + 1 \in 1..Len(s) /\ 1 < i + 1 /\ u = s[i + 1]
    BY <1>1, <2>1
  <2>3. s[1].seq < s[i + 1].seq
    BY <1>2, <2>2 DEF Increasing
  <2>4. QED
    BY <2>2, <2>3, UnitsOf
<1>6. \A u \in Units(s) : u = s[1] \/ u \in Units(t)
  <2> TAKE u \in Units(s)
  <2>1. PICK i \in 1..Len(s) : u = s[i]
    BY UnitsOf
  <2>2. i = 1 \/ i \in 2..Len(s)
    BY <2>1
  <2>3. i \in 2..Len(s) => u \in Units(t)
    <3> SUFFICES ASSUME i \in 2..Len(s) PROVE u \in Units(t)
      OBVIOUS
    <3>1. i - 1 \in 1..Len(t) /\ t[i - 1] = u
      BY <1>3, <2>1
    <3>2. QED
      BY <3>1, UnitsOf
  <2>4. QED
    BY <2>1, <2>2, <2>3
<1>7. QED
  BY <1>1, <1>2, <1>4, <1>5, <1>6

LEMMA AddedUnits ==
  ASSUME NEW s \in Seq(UnitSet), Increasing(s), NEW t \in Seq(UnitSet), NEW u \in UnitSet,
         Added(s, t, u), \A v \in Units(s) : v.seq < u.seq
  PROVE  /\ Increasing(t) /\ Units(t) = Units(s) \cup {u} /\ Len(t) = Len(s) + 1
         /\ \A i \in 1..Len(t) : (i \in 1..Len(s) /\ t[i] = s[i]) \/ (i = Len(s) + 1 /\ t[i] = u)
<1>1. \A i \in 1..Len(t) : (i \in 1..Len(s) /\ t[i] = s[i]) \/ (i = Len(s) + 1 /\ t[i] = u)
  BY AddedElements
<1>2. /\ Len(s) \in Nat /\ Len(t) = Len(s) + 1 /\ t[Len(s) + 1] = u
      /\ \A i \in 1..Len(s) : i \in 1..Len(t) /\ t[i] = s[i]
  BY DEF Added
<1>3. Increasing(t)
  <2> SUFFICES ASSUME NEW i \in 1..Len(t), NEW j \in 1..Len(t), i < j PROVE t[i].seq < t[j].seq
    BY DEF Increasing
  <2>1. i \in 1..Len(s) /\ t[i] = s[i]
    BY <1>1, <1>2
  <2>2. CASE j \in 1..Len(s) /\ t[j] = s[j]
    BY <2>1, <2>2 DEF Increasing
  <2>3. CASE t[j] = u
    BY <2>1, <2>3, UnitsOf
  <2>4. QED
    BY <1>1, <2>2, <2>3
<1>4. Units(t) \subseteq Units(s) \cup {u}
  <2> SUFFICES ASSUME NEW v \in Units(t) PROVE v \in Units(s) \/ v = u
    OBVIOUS
  <2>1. PICK i \in 1..Len(t) : v = t[i]
    BY UnitsOf
  <2>2. QED
    BY <1>1, <2>1, UnitsOf
<1>5. Units(s) \cup {u} \subseteq Units(t)
  <2> SUFFICES ASSUME NEW v, v \in Units(s) \/ v = u PROVE v \in Units(t)
    OBVIOUS
  <2>1. CASE v \in Units(s)
    <3>1. PICK i \in 1..Len(s) : v = s[i]
      BY <2>1, UnitsOf
    <3>2. QED
      BY <1>2, <3>1, UnitsOf
  <2>2. CASE v = u
    <3>1. Len(s) + 1 \in 1..Len(t)
      BY <1>2
    <3>2. QED
      BY <1>2, <2>2, <3>1, UnitsOf
  <2>3. QED
    BY <2>1, <2>2
<1>6. QED
  BY <1>1, <1>2, <1>3, <1>4, <1>5

LEMMA NoUnits ==
  /\ << >> \in Seq(UnitSet) /\ Increasing(<< >>) /\ Units(<< >>) = {} /\ Len(<< >>) = 0
<1>1. << >> \in Seq(UnitSet) /\ Len(<< >>) = 0
  OBVIOUS
<1>2. PICK s \in Seq(UnitSet) : s = << >> /\ Len(s) = 0
  BY <1>1
<1>3. \A u : u \notin Units(s)
  <2> SUFFICES ASSUME NEW u \in Units(s) PROVE FALSE
    OBVIOUS
  <2>1. PICK i \in 1..Len(s) : u = s[i]
    BY UnitsOf
  <2>2. QED
    BY <1>2, <2>1
<1>4. Increasing(s)
  BY <1>2 DEF Increasing
<1>5. QED
  BY <1>1, <1>2, <1>3, <1>4

-----------------------------------------------------------------------------
\* The types after a step.
LEMMA NextTypes ==
  ASSUME CloseInv'
  PROVE  /\ data' \in Seq(UnitSet) /\ frames' \in Seq(UnitSet) /\ staged' \in Seq(UnitSet)
         /\ held' \in SUBSET UnitSet /\ IsFiniteSet(held')
         /\ commands' \in Seq(CommandSet) /\ control' \in Seq(FrameSet)
         /\ wGeneration' \in Nat /\ wSequence' \in Nat /\ generation' \in Nat /\ dataSequence' \in Nat
         /\ expectedGeneration' \in Nat /\ sending' \in Nat
         /\ creditUnits' \in Nat /\ outstandingUnits' \in Nat /\ credits' \in Nat
         /\ ending' \in [gen : Nat, watermark : Nat, complete : BOOLEAN]
<1>1. /\ data' \in Seq(UnitSet) /\ staged' \in Seq(UnitSet) /\ held' \in SUBSET UnitSet
      /\ IsFiniteSet(held') /\ commands' \in Seq(CommandSet) /\ control' \in Seq(FrameSet)
      /\ generation' \in Nat /\ dataSequence' \in Nat /\ expectedGeneration' \in Nat
      /\ creditUnits' \in Nat /\ outstandingUnits' \in Nat
      /\ ending' \in [gen : Nat, watermark : Nat, complete : BOOLEAN]
  BY DEF CloseInv, LinkTypeOK, ClosingTypeOK, RestTypeOK, UnitSet, CommandSet, FrameSet, Commands,
         PlainFrames, EndFrames, ControlFrames, ClosedFrames, Remotes
<1>2. frames' \in Seq(UnitSet) /\ wGeneration' \in Nat /\ wSequence' \in Nat /\ sending' \in Nat
      /\ credits' \in Nat
  BY DEF CloseInv, LinkTypeOK, WorkerTypeOK, UnitSet
<1>3. QED
  BY <1>1, <1>2

LEMMA SessionUnitsFit ==
  ASSUME IInv, SessionStep, UNCHANGED workerVars, CloseInv'
  PROVE  UnitsFit'
<1>1. UNCHANGED <<frames, wGeneration, wSequence>>
  BY WorkerSame
<1>2. /\ data \in Seq(UnitSet) /\ frames \in Seq(UnitSet) /\ data' \in Seq(UnitSet)
  BY Counts, NextTypes
<1>3. /\ Increasing(data) /\ Increasing(frames)
      /\ \A i \in 1..Len(data), j \in 1..Len(frames) : data[i].seq < frames[j].seq
      /\ \A u \in Units(data) \cup Units(frames) :
           /\ 0 < u.gen /\ u.gen <= wGeneration /\ u.seq <= wSequence
           /\ Open => dataSequence < u.seq
  BY DEF IInv, UnitsFit
<1>4. Open' => Open
  BY SessionCounts DEF Open, IInv, CloseInv, LinkTypeOK, ClosingTypeOK
<1>5. CASE data' = data
  <2>1. dataSequence' = dataSequence
    <3>1. ASSUME NEW u, DataTaken(u) PROVE FALSE
      <4>1. Len(data) \in Nat
        BY Counts
      <4>2. QED
        BY <1>5, <3>1, <4>1 DEF DataTaken, Dropped
    <3>2. QED
      BY <3>1 DEF SessionStep, Notes, Closes, OpenSent, HelloTaken, ReadyTaken, ControlTaken, EndTaken,
             Consume, CreditsSent, Issues, IssueControl, Killed, Leaves, sessionVars
  <2>2. QED
    BY <1>1, <1>3, <1>4, <1>5, <2>1 DEF UnitsFit
<1>6. CASE Dropped(data, data')
  <2>1. /\ Increasing(data') /\ data[1] \in Units(data) /\ 1 \in 1..Len(data)
        /\ Units(data) = {data[1]} \cup Units(data')
        /\ \A u \in Units(data') : data[1].seq < u.seq
        /\ \A i \in 1..Len(data') : i + 1 \in 1..Len(data) /\ data'[i] = data[i + 1]
    BY <1>2, <1>3, <1>6, DroppedUnits
  <2>2. \A u \in Units(frames) : data[1].seq < u.seq
    BY <1>2, <1>3, <2>1, UnitsOf
  <2>3. \A i \in 1..Len(data'), j \in 1..Len(frames) : data'[i].seq < frames[j].seq
    BY <1>3, <2>1
  <2>4. Open' => dataSequence' = data[1].seq
    <3> SUFFICES ASSUME Open' PROVE dataSequence' = data[1].seq
      OBVIOUS
    <3>1. Len(data') # Len(data)
      BY <1>2, <1>6 DEF Dropped
    <3>2. ~Closes
      BY DEF Closes, Open
    <3>3. QED
      BY <1>4, <3>1, <3>2 DEF SessionStep, Notes, Takes, OpenSent, HelloTaken, ReadyTaken, ControlTaken,
             EndTaken, DataTaken,
             Consume, CreditsSent, Issues, IssueControl, Killed, Leaves, sessionVars, pipes
  <2>5. QED
    BY <1>1, <1>3, <2>1, <2>2, <2>3, <2>4 DEF UnitsFit
<1>7. QED
  BY <1>5, <1>6, SessionPipes

LEMMA WorkerUnitsFit ==
  ASSUME IInv, WorkerStep, UNCHANGED sessionVars, CloseInv'
  PROVE  UnitsFit'
<1>1. dataSequence' = dataSequence /\ Open' = Open
  BY SessionSame DEF Open
<1>2. /\ data \in Seq(UnitSet) /\ frames \in Seq(UnitSet) /\ data' \in Seq(UnitSet)
      /\ frames' \in Seq(UnitSet) /\ wGeneration \in Nat /\ wSequence \in Nat /\ sending \in Nat
      /\ dataSequence \in Nat
  BY Counts, NextTypes
<1>3. /\ Increasing(data) /\ Increasing(frames)
      /\ \A i \in 1..Len(data), j \in 1..Len(frames) : data[i].seq < frames[j].seq
      /\ \A u \in Units(data) \cup Units(frames) :
           /\ 0 < u.gen /\ u.gen <= wGeneration /\ u.seq <= wSequence
           /\ Open => dataSequence < u.seq
  BY DEF IInv, UnitsFit
<1>4. wGeneration <= wGeneration' /\ wGeneration' \in Nat
  BY GenerationGrows
<1>5. \A u \in Units(data) \cup Units(frames) : u.gen <= wGeneration' /\ u.gen \in Nat /\ u.seq \in Nat
  <2>1. \A u \in Units(data) \cup Units(frames) : u.gen \in Nat /\ u.seq \in Nat
    BY <1>2, UnitTypes
  <2>2. QED
    BY <1>2, <1>3, <1>4, <2>1
<1>6. CASE UNCHANGED <<data, frames, wSequence>>
  BY <1>1, <1>3, <1>5, <1>6 DEF UnitsFit
<1>7. CASE frames' = << >> /\ UNCHANGED <<data, wSequence>>
  BY <1>1, <1>3, <1>5, <1>7, NoUnits DEF UnitsFit
<1>8. CASE MediaIpcData
  <2>1. CASE UNCHANGED <<frames, wSequence>>
    <3>1. data' = data
      BY <1>8 DEF MediaIpcData, pipes
    <3>2. QED
      BY <1>6, <2>1, <3>1
  <2>2. CASE ~UNCHANGED <<frames, wSequence>>
    <3> DEFINE u == [gen |-> sending, seq |-> wSequence + 1]
    <3>1. /\ frames' = Append(frames, u) /\ wSequence' = wSequence + 1 /\ data' = data
          /\ wGeneration' = wGeneration /\ sending # 0
      BY <1>8, <2>2 DEF MediaIpcData, pipes
    <3>2. u \in UnitSet /\ u.gen = sending /\ u.seq = wSequence + 1
      BY <1>2 DEF UnitSet
    <3> HIDE DEF u
    <3>3. \A v \in Units(data) \cup Units(frames) : v.seq < u.seq
      BY <1>2, <1>3, <1>5, <3>2
    <3>4. Added(frames, frames', u)
      BY <1>2, <3>1, <3>2, AddedAppend
    <3>5. /\ Increasing(frames') /\ Units(frames') = Units(frames) \cup {u}
          /\ \A i \in 1..Len(frames') :
               (i \in 1..Len(frames) /\ frames'[i] = frames[i]) \/ frames'[i] = u
      BY <1>2, <1>3, <3>2, <3>3, <3>4, AddedUnits
    <3>6. \A i \in 1..Len(data), j \in 1..Len(frames') : data[i].seq < frames'[j].seq
      <4> SUFFICES ASSUME NEW i \in 1..Len(data), NEW j \in 1..Len(frames')
                   PROVE  data[i].seq < frames'[j].seq
        OBVIOUS
      <4>1. CASE j \in 1..Len(frames) /\ frames'[j] = frames[j]
        BY <1>3, <4>1
      <4>2. CASE frames'[j] = u
        BY <1>2, <3>3, <4>2, UnitsOf
      <4>3. QED
        BY <3>5, <4>1, <4>2
    <3>7. sending <= wGeneration /\ dataSequence <= wSequence
      BY DEF IInv, Numbers
    <3>8. 0 < u.gen /\ u.gen <= wGeneration' /\ u.seq <= wSequence' /\ dataSequence < u.seq
      BY <1>2, <3>1, <3>2, <3>7
    <3>9. \A v \in Units(data) \cup Units(frames) : v.seq <= wSequence'
      BY <1>2, <1>3, <1>5, <3>1
    <3>10. QED
      BY <1>1, <1>3, <1>5, <3>1, <3>5, <3>6, <3>8, <3>9 DEF UnitsFit
  <2>3. QED
    BY <2>1, <2>2
<1>9. CASE Writer
  <2>1. /\ frames # << >> /\ data' = Append(data, Head(frames)) /\ frames' = Tail(frames)
        /\ UNCHANGED <<wSequence, wGeneration>>
    BY <1>9 DEF Writer
  <2>2. /\ Dropped(frames, frames') /\ Head(frames) = frames[1] /\ frames[1] \in UnitSet
    BY <1>2, <2>1, DroppedTail
  <2>3. Added(data, data', frames[1])
    BY <1>2, <2>1, <2>2, AddedAppend
  <2>4. /\ Increasing(frames') /\ frames[1] \in Units(frames) /\ 1 \in 1..Len(frames)
        /\ Units(frames) = {frames[1]} \cup Units(frames')
        /\ \A u \in Units(frames') : frames[1].seq < u.seq
        /\ \A i \in 1..Len(frames') : i + 1 \in 1..Len(frames) /\ frames'[i] = frames[i + 1]
    BY <1>2, <1>3, <2>2, DroppedUnits
  <2>5. \A v \in Units(data) : v.seq < frames[1].seq
    <3> TAKE v \in Units(data)
    <3>1. PICK i \in 1..Len(data) : v = data[i]
      BY <1>2, UnitsOf
    <3>2. QED
      BY <1>3, <2>4, <3>1
  <2>6. /\ Increasing(data') /\ Units(data') = Units(data) \cup {frames[1]}
        /\ \A i \in 1..Len(data') :
             (i \in 1..Len(data) /\ data'[i] = data[i]) \/ data'[i] = frames[1]
    BY <1>2, <1>3, <2>2, <2>3, <2>5, AddedUnits
  <2>7. \A i \in 1..Len(data'), j \in 1..Len(frames') : data'[i].seq < frames'[j].seq
    <3> SUFFICES ASSUME NEW i \in 1..Len(data'), NEW j \in 1..Len(frames')
                 PROVE  data'[i].seq < frames'[j].seq
      OBVIOUS
    <3>1. CASE i \in 1..Len(data) /\ data'[i] = data[i]
      BY <1>3, <2>4, <3>1
    <3>2. CASE data'[i] = frames[1]
      BY <1>2, <2>4, <3>2, UnitsOf
    <3>3. QED
      BY <2>6, <3>1, <3>2
  <2>8. QED
    BY <1>1, <1>3, <2>1, <2>4, <2>6, <2>7 DEF UnitsFit
<1>10. CASE ControlRead \/ (\E teardown \in {"ok", "gone", "none"}, local \in BOOLEAN :
                              CloseNative(teardown, local))
  BY <1>7, <1>10 DEF ControlRead, Reads, CloseNative
<1>11. QED
  BY <1>6, <1>8, <1>9, <1>10
     DEF WorkerStep, LoopIdle, EofRead, OpenRead, CloseRead, CreditRead, Reads, OpenNative,
         LoopBus, LoopAck, ControlRequested, ThreadEnds, ResumeIpc, SendCheck, Setup, PlayAccepted, PauseAccepted,
         NativeFailure, Expire, SendData, EndOfStream, Crash, workerVars, pipes, ipcVars

-----------------------------------------------------------------------------
LEMMA SessionUnitsKept ==
  ASSUME IInv, SessionStep, UNCHANGED workerVars, CloseInv'
  PROVE  UnitsKept'
<1>1. /\ staged \in Seq(UnitSet) /\ held \in SUBSET UnitSet /\ staged' \in Seq(UnitSet)
      /\ generation \in Nat /\ expectedGeneration \in Nat /\ dataSequence \in Nat
  BY Counts, NextTypes
<1>2. /\ Increasing(staged)
      /\ \A u \in Units(staged) : /\ u.seq <= dataSequence
                                  /\ u.gen = expectedGeneration /\ u.gen > generation
      /\ \A u \in held : u.seq <= dataSequence /\ u.gen = generation /\ 0 < u.gen
      /\ staged # << >> => state = "opening" \/ ~Idle
      /\ ~Idle => held = {}
  BY DEF IInv, UnitsKept
<1>3. CASE Notes \/ OpenSent \/ HelloTaken \/ EndTaken \/ CreditsSent \/ Killed
  <2>1. UNCHANGED <<state, generation, expectedGeneration, dataSequence, staged, held, pending>>
    BY <1>3 DEF Notes, OpenSent, HelloTaken, EndTaken, CreditsSent, Killed, sessionVars
  <2>2. QED
    BY <1>2, <2>1 DEF UnitsKept, Idle
<1>4. CASE Closes \/ Leaves
  <2>1. staged' = << >> /\ held' = {} /\ pending' = NoControl
    BY <1>4 DEF Closes, Leaves
  <2>2. QED
    BY <2>1, NoUnits DEF UnitsKept
<1>5. ASSUME NEW u \in held, Consume(u) PROVE UnitsKept'
  <2>1. /\ UNCHANGED <<state, generation, expectedGeneration, dataSequence, staged, pending>>
        /\ held' \subseteq held
    BY <1>5 DEF Consume
  <2>2. QED
    BY <1>2, <2>1 DEF UnitsKept, Idle
<1>6. ASSUME NEW kind \in Kinds, Issues(kind) PROVE UnitsKept'
  <2>1. /\ state \in {"playing", "paused"} /\ Idle /\ staged' = staged /\ held' = {}
    BY <1>6 DEF Issues, IssueControl
  <2>2. staged' = << >>
    BY <1>2, <2>1
  <2>3. QED
    BY <2>1, <2>2, NoUnits DEF UnitsKept
<1>7. CASE ReadyTaken
  <2>1. /\ generation = 0 /\ generation' = 1 /\ state' = "playing" /\ held' = held \cup Units(staged)
        /\ staged' = << >> /\ UNCHANGED <<dataSequence, pending>> /\ state = "opening"
    BY <1>7 DEF ReadyTaken
  <2>2. held = {}
    BY <1>2, <2>1
  <2>3. expectedGeneration = 1
    BY <2>1 DEF IInv, Numbers
  <2>4. Idle
    BY <2>1 DEF IInv, Opening, Playing
  <2>5. \A u \in held' : u.seq <= dataSequence' /\ u.gen = generation' /\ 0 < u.gen
    BY <1>2, <2>1, <2>2, <2>3
  <2>6. QED
    BY <2>1, <2>4, <2>5, NoUnits DEF UnitsKept, Idle
<1>8. CASE ControlTaken
  <2>1. /\ ~Idle /\ Asked = pending /\ Asked # NoControl /\ ControlAgreed
        /\ generation' = pending.gen /\ held' = held \cup Units(staged) /\ staged' = << >>
        /\ pending' = NoControl /\ dataSequence' = dataSequence
    BY <1>8 DEF ControlTaken, Asked, Idle
  <2>2. held = {} /\ pending.gen = expectedGeneration
    BY <1>2, <2>1 DEF ControlAgreed
  <2>3. \A u \in Units(staged) : u.gen \in Nat
    BY <1>1, UnitTypes
  <2>4. \A u \in held' : u.seq <= dataSequence' /\ u.gen = generation' /\ 0 < u.gen
    <3> SUFFICES ASSUME NEW u \in Units(staged)
                 PROVE  u.seq <= dataSequence' /\ u.gen = generation' /\ 0 < u.gen
      BY <2>1, <2>2
    <3>1. u.seq <= dataSequence /\ u.gen = expectedGeneration /\ u.gen > generation
      BY <1>2
    <3>2. QED
      BY <1>1, <2>1, <2>2, <2>3, <3>1
  <2>5. QED
    BY <2>1, <2>4, NoUnits DEF UnitsKept, Idle
<1>9. ASSUME NEW u, DataTaken(u) PROVE UnitsKept'
  <2>1. /\ Open /\ u \in UnitSet /\ u.gen \in Nat /\ u.seq \in Nat /\ dataSequence < u.seq
        /\ u.gen <= expectedGeneration /\ 0 < u.gen /\ u.gen <= wGeneration
        /\ dataSequence' = u.seq
        /\ UNCHANGED <<state, generation, expectedGeneration, pending>>
    BY <1>9 DEF DataTaken
  <2>2. \A v \in Units(staged) \cup held : v.seq < u.seq /\ v.seq <= dataSequence' /\ v.seq \in Nat
    <3>1. \A v \in Units(staged) \cup held : v.seq \in Nat
      BY <1>1, UnitTypes
    <3>2. QED
      BY <1>1, <1>2, <2>1, <3>1
  <2>3. CASE UNCHANGED <<staged, held>>
    BY <1>2, <2>1, <2>2, <2>3 DEF UnitsKept, Idle
  <2>4. CASE ~Obsolete(u) /\ Ahead(u) /\ Added(staged, staged', u) /\ held' = held
    <3>1. Increasing(staged') /\ Units(staged') = Units(staged) \cup {u}
      BY <1>1, <1>2, <2>1, <2>2, <2>4, AddedUnits
    <3>2. u.gen >= generation /\ (~Idle => u.gen # generation)
      BY <1>1, <2>1, <2>4 DEF Obsolete
    <3>3. u.gen = expectedGeneration /\ u.gen > generation /\ (state = "opening" \/ ~Idle)
      <4>1. CASE state = "opening"
        <5>1. generation = 0 /\ expectedGeneration = 1
          BY <4>1 DEF IInv, Opening, Numbers
        <5>2. QED
          BY <2>1, <4>1, <5>1
      <4>2. CASE state # "opening"
        <5>1. Playing /\ u.gen # generation
          BY <2>1, <2>4, <4>2 DEF Ahead, Open, Playing
        <5>2. ~Idle /\ pending.kind # "PAUSE"
          <6> SUFFICES ASSUME Idle \/ pending.kind = "PAUSE" PROVE FALSE
            OBVIOUS
          <6>1. expectedGeneration = generation
            BY <5>1, NothingAhead
          <6>2. QED
            BY <1>1, <2>1, <3>2, <5>1, <6>1
        <5>3. expectedGeneration = generation + 1
          <6>1. Asked = pending /\ Asked # NoControl /\ state # "closed"
            BY <2>1, <5>2 DEF Asked, Idle, Open
          <6>3. QED
            BY <5>2, <6>1, ControlHeld
        <5>4. QED
          BY <1>1, <2>1, <3>2, <5>1, <5>2, <5>3
      <4>3. QED
        BY <4>1, <4>2
    <3>4. u.seq <= dataSequence'
      BY <2>1
    <3>5. QED
      BY <1>2, <2>1, <2>2, <2>4, <3>1, <3>3, <3>4 DEF UnitsKept, Idle
  <2>5. CASE ~Obsolete(u) /\ ~Ahead(u) /\ held' = held \cup {u} /\ staged' = staged
    <3>1. u.gen = generation /\ Idle
      BY <2>5 DEF Obsolete, Ahead
    <3>2. u.seq <= dataSequence'
      BY <2>1
    <3>3. QED
      BY <1>2, <2>1, <2>2, <2>5, <3>1, <3>2 DEF UnitsKept, Idle
  <2>6. QED
    BY <1>9, <2>3, <2>4, <2>5 DEF DataTaken
<1>10. QED
  BY <1>3, <1>4, <1>5, <1>6, <1>7, <1>8, <1>9 DEF SessionStep

LEMMA WorkerUnitsKept ==
  ASSUME IInv, UNCHANGED sessionVars
  PROVE  UnitsKept'
  BY SessionSame DEF IInv, UnitsKept, Idle

-----------------------------------------------------------------------------
\* The units that CREDIT commands carry, before and after a step.
LEMMA GrantedMore ==
  ASSUME IInv, NEW m \in CommandSet, Added(commands, commands', m), commands' \in Seq(CommandSet)
  PROVE  IsFiniteSet(Grants(commands')) /\ Granted' = Granted + m.units
<1>1. commands \in Seq(CommandSet) /\ IsFiniteSet(Grants(commands))
  BY Counts DEF IInv, Credits
<1>2. \A c \in CommandSet : c.units \in Nat
  BY CommandTypes
<1>3. QED
  BY <1>1, <1>2, GrantsAdded DEF Granted

LEMMA GrantedLess ==
  ASSUME IInv, Dropped(commands, commands'), commands' \in Seq(CommandSet)
  PROVE  /\ IsFiniteSet(Grants(commands')) /\ Granted = Granted' + commands[1].units
         /\ Granted' \in Nat /\ commands[1].units \in Nat
         /\ commands[1].kind # "CREDIT" => commands[1].units = 0
<1>1. commands \in Seq(CommandSet) /\ IsFiniteSet(Grants(commands))
  BY Counts DEF IInv, Credits
<1>2. \A c \in CommandSet : c.units \in Nat
  BY CommandTypes
<1>3. 1 \in 1..Len(commands)
  BY <1>1 DEF Dropped
<1>4. commands[1].kind # "CREDIT" => commands[1].units = 0
  BY <1>3 DEF IInv, CommandsFit
<1>5. QED
  BY <1>1, <1>2, <1>4, GrantsDropped DEF Granted

\* What a session step takes from one place of the window it adds to another.
LEMMA SessionWindow ==
  ASSUME IInv, SessionStep, CloseInv'
  PROVE  /\ IsFiniteSet(Grants(commands')) /\ Granted' \in Nat /\ Len(data') \in Nat
         /\ outstandingUnits' \in Nat
         /\ Granted' + Len(data') + outstandingUnits' <= Granted + Len(data) + outstandingUnits
         /\ Open' => Granted' + Len(data') + outstandingUnits' = Granted + Len(data) + outstandingUnits
<1>1. /\ Granted \in Nat /\ Len(data) \in Nat /\ outstandingUnits \in Nat /\ creditUnits \in Nat
      /\ Len(data') \in Nat /\ outstandingUnits' \in Nat /\ generation \in Nat /\ commandSequence \in Nat
      /\ commands \in Seq(CommandSet) /\ commands' \in Seq(CommandSet)
      /\ IsFiniteSet(Grants(commands))
  BY Counts, NextTypes DEF IInv, Credits
<1>2. /\ \A seq \in Nat : Command("CLOSE", generation, seq, 0) \in CommandSet
                          /\ Command("CLOSE", generation, seq, 0).units = 0
      /\ \A seq \in Nat : Command("OPEN", 0, seq, 0) \in CommandSet
                          /\ Command("OPEN", 0, seq, 0).units = 0
      /\ \A seq \in Nat, kind \in Kinds : Command(kind, generation, seq, 0) \in CommandSet
                                          /\ Command(kind, generation, seq, 0).units = 0
      /\ Command("EOF", 0, 0, 0) \in CommandSet /\ Command("EOF", 0, 0, 0).units = 0
  BY <1>1, CommandTypes DEF Commands, Command
<1>3. commandSequence + 1 \in Nat
  BY <1>1
<1>4. ASSUME NEW m \in CommandSet, m.units = 0, Added(commands, commands', m)
      PROVE  IsFiniteSet(Grants(commands')) /\ Granted' = Granted
  BY <1>1, <1>4, GrantedMore
<1>5. ASSUME commands' = commands PROVE IsFiniteSet(Grants(commands')) /\ Granted' = Granted
  BY <1>1, <1>5 DEF Granted
<1>6. CASE CreditsSent
  <2> DEFINE m == Command("CREDIT", generation, 0, creditUnits)
  <2>1. m \in CommandSet /\ m.units = creditUnits
    BY <1>1, CommandTypes DEF Commands, Command
  <2>2. Added(commands, commands', m) /\ data' = data
        /\ creditUnits <= outstandingUnits /\ outstandingUnits' = outstandingUnits - creditUnits
    BY <1>6 DEF CreditsSent
  <2> HIDE DEF m
  <2>3. IsFiniteSet(Grants(commands')) /\ Granted' = Granted + creditUnits
    BY <1>1, <2>1, <2>2, GrantedMore
  <2>4. QED
    BY <1>1, <2>2, <2>3
<1>7. CASE ~CreditsSent
  <2>1. IsFiniteSet(Grants(commands')) /\ Granted' = Granted
    <3>1. CASE Closes
      BY <1>2, <1>3, <1>4, <3>1 DEF Closes
    <3>2. CASE OpenSent \/ Killed \/ Leaves
      BY <1>2, <1>3, <1>4, <3>2 DEF OpenSent, Killed, Leaves
    <3>3. ASSUME NEW kind \in Kinds, Issues(kind)
          PROVE  IsFiniteSet(Grants(commands')) /\ Granted' = Granted
      BY <1>2, <1>3, <1>4, <3>3 DEF Issues
    <3>4. QED
      BY <1>5, <1>7, <3>1, <3>2, <3>3
         DEF SessionStep, Notes, HelloTaken, ReadyTaken, ControlTaken, EndTaken, DataTaken, Consume, pipes
  <2>2. /\ Len(data') + outstandingUnits' <= Len(data) + outstandingUnits
        /\ Open' => Len(data') + outstandingUnits' = Len(data) + outstandingUnits
    <3>1. CASE Notes
      <4>1. /\ outstandingUnits' = outstandingUnits /\ state' = state
            /\ data' = data \/ (Dropped(data, data') /\ ~Open)
        BY <3>1 DEF Notes, Takes
      <4>2. data' = data \/ (Len(data') = Len(data) - 1 /\ ~Open')
        BY <4>1 DEF Dropped, Open
      <4>3. QED
        BY <1>1, <4>1, <4>2
    <3>2. ASSUME NEW u, DataTaken(u)
          PROVE  Len(data') + outstandingUnits' = Len(data) + outstandingUnits
      <4>1. Len(data') = Len(data) - 1 /\ outstandingUnits' = outstandingUnits + 1
        BY <3>2 DEF DataTaken, Dropped
      <4>2. QED
        BY <1>1, <4>1
    <3>3. ASSUME UNCHANGED <<data, outstandingUnits>>
          PROVE /\ Len(data') + outstandingUnits' <= Len(data) + outstandingUnits
                /\ Len(data') + outstandingUnits' = Len(data) + outstandingUnits
      BY <1>1, <3>3
    <3>4. CASE Closes
      <4>1. /\ outstandingUnits' = outstandingUnits /\ ~Open'
            /\ data' = data \/ Dropped(data, data')
        BY <3>4 DEF Closes, Open
      <4>2. data' = data \/ Len(data') = Len(data) - 1
        BY <4>1 DEF Dropped
      <4>3. QED
        BY <1>1, <4>1, <4>2
    <3>5. CASE ~Notes /\ ~Closes /\ \A u : ~DataTaken(u)
      <4>1. UNCHANGED <<data, outstandingUnits>>
        BY <1>7, <3>5 DEF SessionStep, OpenSent, HelloTaken, ReadyTaken, ControlTaken, EndTaken,
               Consume, Issues, IssueControl, Killed, Leaves, sessionVars, pipes
      <4>2. QED
        BY <3>3, <4>1
    <3>6. QED
      BY <1>1, <3>1, <3>2, <3>4, <3>5
  <2>3. QED
    BY <1>1, <2>1, <2>2
<1>8. QED
  BY <1>6, <1>7

\* What the session owes credit for is in one place each.
LEMMA SessionOwes ==
  ASSUME IInv, SessionStep, CloseInv', Open'
  PROVE  outstandingUnits' = Cardinality(held') + Len(staged') + creditUnits'
<1>1. /\ outstandingUnits \in Nat /\ creditUnits \in Nat /\ Len(staged) \in Nat
      /\ Cardinality(held) \in Nat /\ IsFiniteSet(held) /\ staged \in Seq(UnitSet)
      /\ held \in SUBSET UnitSet /\ dataSequence \in Nat
  BY Counts
<1>2. Open
  BY SessionCounts DEF Open, IInv, CloseInv, LinkTypeOK, ClosingTypeOK
<1>3. outstandingUnits = Cardinality(held) + Len(staged) + creditUnits
  BY <1>2 DEF IInv, Credits
<1>4. Cardinality({}) = 0 /\ Len(<< >>) = 0
  BY FS_EmptySet
<1>5. CASE Notes \/ OpenSent \/ HelloTaken \/ EndTaken
  BY <1>3, <1>5 DEF Notes, OpenSent, HelloTaken, EndTaken, sessionVars
<1>6. ~Closes /\ ~Killed /\ ~Leaves
  BY <1>2 DEF Closes, Killed, Leaves, Open
<1>7. CASE ReadyTaken \/ ControlTaken
  <2>1. /\ held' = held \cup Units(staged) /\ staged' = << >>
        /\ UNCHANGED <<creditUnits, outstandingUnits>>
    BY <1>7 DEF ReadyTaken, ControlTaken
  <2>2. held = {}
    <3>1. CASE ReadyTaken
      BY <3>1 DEF ReadyTaken, IInv, UnitsKept
    <3>2. CASE ControlTaken
      BY <3>2 DEF ControlTaken, IInv, UnitsKept
    <3>3. QED
      BY <1>7, <3>1, <3>2
  <2>3. Cardinality(Units(staged)) = Len(staged)
    BY <1>1, UnitsCount DEF IInv, UnitsKept
  <2>4. held' = Units(staged)
    BY <2>1, <2>2
  <2>5. Cardinality(held') = Len(staged) /\ Len(staged') = 0 /\ Cardinality(held) = 0
    BY <1>4, <2>1, <2>2, <2>3, <2>4
  <2>6. QED
    BY <1>1, <1>3, <2>1, <2>5
<1>8. ASSUME NEW u, DataTaken(u)
      PROVE  outstandingUnits' = Cardinality(held') + Len(staged') + creditUnits'
  <2>1. outstandingUnits' = outstandingUnits + 1 /\ dataSequence < u.seq /\ u.seq \in Nat
    BY <1>8 DEF DataTaken
  <2>2. CASE creditUnits' = creditUnits + 1 /\ UNCHANGED <<staged, held>>
    BY <1>1, <1>3, <2>1, <2>2
  <2>3. CASE Added(staged, staged', u) /\ UNCHANGED <<creditUnits, held>>
    <3>1. Len(staged') = Len(staged) + 1
      BY <2>3 DEF Added
    <3>2. QED
      BY <1>1, <1>3, <2>1, <2>3, <3>1
  <2>4. CASE held' = held \cup {u} /\ UNCHANGED <<creditUnits, staged>>
    <3>1. \A v \in held : v.seq <= dataSequence /\ v.seq \in Nat
      BY <1>1, UnitTypes DEF IInv, UnitsKept
    <3>2. u \notin held
      BY <1>1, <2>1, <3>1
    <3>3. Cardinality(held') = Cardinality(held) + 1
      BY <1>1, <2>4, <3>2, FS_AddElement
    <3>4. QED
      BY <1>1, <1>3, <2>1, <2>4, <3>3
  <2>5. QED
    BY <1>8, <2>2, <2>3, <2>4 DEF DataTaken
<1>9. ASSUME NEW u \in held, Consume(u)
      PROVE  outstandingUnits' = Cardinality(held') + Len(staged') + creditUnits'
  <2>1. /\ held' = held \ {u} /\ creditUnits' = creditUnits + 1
        /\ UNCHANGED <<staged, outstandingUnits>>
    BY <1>9 DEF Consume
  <2>2. Cardinality(held') = Cardinality(held) - 1
    BY <1>1, <2>1, FS_RemoveElement
  <2>3. QED
    BY <1>1, <1>3, <2>1, <2>2
<1>10. CASE CreditsSent
  <2>1. /\ outstandingUnits' = outstandingUnits - creditUnits /\ creditUnits' = 0
        /\ UNCHANGED <<staged, held>>
    BY <1>10 DEF CreditsSent
  <2>2. QED
    BY <1>1, <1>3, <2>1
<1>11. ASSUME NEW kind \in Kinds, Issues(kind)
       PROVE  outstandingUnits' = Cardinality(held') + Len(staged') + creditUnits'
  <2>1. /\ held' = {} /\ creditUnits' = creditUnits + Cardinality(held)
        /\ UNCHANGED <<staged, outstandingUnits>>
    BY <1>11 DEF Issues, IssueControl
  <2>2. QED
    BY <1>1, <1>3, <1>4, <2>1
<1>12. QED
  BY <1>5, <1>6, <1>7, <1>8, <1>9, <1>10, <1>11 DEF SessionStep

LEMMA SessionCredits ==
  ASSUME IInv, SessionStep, UNCHANGED workerVars, CloseInv'
  PROVE  Credits'
<1>1. UNCHANGED <<credits, frames, pipeline, loop>>
  BY WorkerSame
<1>2. /\ IsFiniteSet(Grants(commands')) /\ Granted' \in Nat /\ Len(data') \in Nat
      /\ outstandingUnits' \in Nat
      /\ Granted' + Len(data') + outstandingUnits' <= Granted + Len(data) + outstandingUnits
      /\ Open' => Granted' + Len(data') + outstandingUnits' = Granted + Len(data) + outstandingUnits
  BY SessionWindow
<1>3. /\ Granted \in Nat /\ Len(data) \in Nat /\ outstandingUnits \in Nat /\ credits \in Nat
      /\ Len(frames) \in Nat /\ QueueUnits \in Nat
  BY Counts
<1>4. Window' <= Window /\ (Open' => Window' = Window) /\ Window \in Nat /\ Window' \in Nat
  BY SMTT(30), <1>1, <1>2, <1>3 DEF Window
<1>5. Open' => Open
  BY SessionCounts DEF Open, IInv, CloseInv, LinkTypeOK, ClosingTypeOK
<1>6. exit' = "running" => exit = "running"
  BY SessionPipes
<1>7. /\ pipeline => Window <= QueueUnits
      /\ Open /\ pipeline /\ loop # "close" /\ exit = "running" => Window = QueueUnits
  BY DEF IInv, Credits
<1>8. pipeline' => Window' <= QueueUnits
  BY <1>1, <1>3, <1>4, <1>7
<1>9. Open' /\ pipeline' /\ loop' # "close" /\ exit' = "running" => Window' = QueueUnits
  BY <1>1, <1>4, <1>5, <1>6, <1>7
<1>10. QED
  BY <1>2, <1>8, <1>9, SessionOwes DEF Credits

-----------------------------------------------------------------------------
\* A worker that runs on keeps its share of the window whole.
LEMMA WorkerWindow ==
  ASSUME IInv, WorkerStep, CloseInv', ~OpenNative
  PROVE  /\ IsFiniteSet(Grants(commands')) /\ Granted' \in Nat
         /\ Len(data') \in Nat /\ Len(frames') \in Nat /\ credits' \in Nat
         /\ credits' + Len(frames') + Len(data') + Granted'
              <= credits + Len(frames) + Len(data) + Granted
         /\ exit' = "running" => credits' + Len(frames') + Len(data') + Granted'
                                   = credits + Len(frames) + Len(data) + Granted
<1>1. /\ Granted \in Nat /\ Len(data) \in Nat /\ credits \in Nat /\ Len(frames) \in Nat
      /\ commands \in Seq(CommandSet)
      /\ frames \in Seq(UnitSet) /\ data \in Seq(UnitSet)
      /\ IsFiniteSet(Grants(commands))
  BY Counts DEF IInv, Credits
<1>2. /\ data' \in Seq(UnitSet) /\ frames' \in Seq(UnitSet) /\ credits' \in Nat
      /\ commands' \in Seq(CommandSet)
  BY NextTypes
<1>3. /\ Granted \in Nat /\ Len(data) \in Nat /\ credits \in Nat /\ Len(frames) \in Nat
      /\ Len(data') \in Nat /\ Len(frames') \in Nat /\ credits' \in Nat
      /\ commands \in Seq(CommandSet) /\ commands' \in Seq(CommandSet)
      /\ frames \in Seq(UnitSet) /\ data \in Seq(UnitSet)
      /\ IsFiniteSet(Grants(commands))
  BY <1>1, <1>2
<1> DEFINE Goal == /\ IsFiniteSet(Grants(commands')) /\ Granted' \in Nat
                   /\ credits' + Len(frames') + Len(data') + Granted'
                        <= credits + Len(frames) + Len(data) + Granted
                   /\ exit' = "running" => credits' + Len(frames') + Len(data') + Granted'
                                             = credits + Len(frames) + Len(data) + Granted
<1>4. commands' = commands => IsFiniteSet(Grants(commands')) /\ Granted' = Granted
  BY <1>3 DEF Granted
<1>5. Dropped(commands, commands') =>
        /\ IsFiniteSet(Grants(commands')) /\ Granted = Granted' + commands[1].units
        /\ Granted' \in Nat /\ commands[1].units \in Nat
        /\ commands[1].kind # "CREDIT" => commands[1].units = 0
  BY <1>3, GrantedLess
<1>6. CASE UNCHANGED <<commands, credits, frames, data>>
  BY <1>3, <1>4, <1>6
<1>7. CASE EofRead \/ OpenRead \/ CloseRead
  <2>1. /\ Dropped(commands, commands') /\ commands[1].kind # "CREDIT"
        /\ UNCHANGED <<credits, frames, data>>
    BY <1>7 DEF EofRead, OpenRead, CloseRead, Reads, ipcVars
  <2>2. Granted' = Granted /\ IsFiniteSet(Grants(commands'))
    BY <1>3, <1>5, <2>1
  <2>3. QED
    BY <1>3, <2>1, <2>2
<1>8. CASE CreditRead
  <2>1. /\ Dropped(commands, commands') /\ credits' = credits + commands[1].units
        /\ UNCHANGED <<frames, data>>
    BY <1>8 DEF CreditRead, Reads
  <2>2. PICK n \in Nat : n = commands[1].units
    BY <1>5, <2>1
  <2>3. credits' = credits + n /\ Granted = Granted' + n /\ Granted' \in Nat
        /\ IsFiniteSet(Grants(commands'))
    BY <1>5, <2>1, <2>2
  <2>4. Len(frames') = Len(frames) /\ Len(data') = Len(data)
    BY <2>1
  <2>5. QED
    BY <1>3, <2>3, <2>4
<1>9. CASE ControlRead
  <2>1. /\ Dropped(commands, commands') /\ commands[1].kind \in Kinds
        /\ frames' = << >> /\ credits' = credits + Len(frames) /\ data' = data
    BY <1>9 DEF ControlRead, Reads
  <2>2. commands[1].kind # "CREDIT" /\ Len(frames') = 0
    BY <2>1, LinkAssumption DEF LinkAssumption
  <2>3. Granted' = Granted /\ IsFiniteSet(Grants(commands'))
    BY <1>3, <1>5, <2>1, <2>2
  <2>4. QED
    BY <1>3, <2>1, <2>2, <2>3
<1>10. CASE MediaIpcData
  <2>1. commands' = commands /\ data' = data
    BY <1>10 DEF MediaIpcData, pipes
  <2>2. CASE UNCHANGED <<frames, credits>>
    BY <1>6, <2>1, <2>2
  <2>3. CASE ~UNCHANGED <<frames, credits>>
    <3>1. \E u : frames' = Append(frames, u)
      BY <1>10, <2>3 DEF MediaIpcData
    <3>2. credits > 0 /\ credits' = credits - 1
      BY <1>10, <2>3 DEF MediaIpcData, Room
    <3>3. Len(frames') = Len(frames) + 1
      BY <1>3, <3>1
    <3>4. QED
      BY <1>3, <1>4, <2>1, <3>2, <3>3
  <2>4. QED
    BY <2>2, <2>3
<1>11. CASE Writer
  <2>1. /\ frames # << >> /\ data' = Append(data, Head(frames)) /\ frames' = Tail(frames)
        /\ UNCHANGED <<commands, credits>>
    BY <1>11 DEF Writer
  <2>2. Len(frames') = Len(frames) - 1 /\ Len(data') = Len(data) + 1
    BY <1>3, <2>1
  <2>3. QED
    BY <1>3, <1>4, <2>1, <2>2
<1>12. ASSUME NEW teardown \in {"ok", "gone", "none"}, NEW local \in BOOLEAN,
              CloseNative(teardown, local)
       PROVE  Goal
  <2>1. frames' = << >> /\ exit' # "running" /\ UNCHANGED <<commands, credits, data>>
    BY <1>12 DEF CloseNative
  <2>2. Len(frames') = 0
    BY <2>1
  <2>3. QED
    BY <1>3, <1>4, <2>1, <2>2
<1>13. Goal
  <2>1. CASE \/ LoopIdle \/ LoopBus \/ LoopAck \/ ControlRequested \/ ThreadEnds \/ ResumeIpc \/ SendCheck \/ Setup \/ PlayAccepted
             \/ PauseAccepted \/ NativeFailure \/ Expire \/ SendData \/ EndOfStream \/ Crash
    <3>1. UNCHANGED <<commands, credits, frames, data>>
      BY <2>1 DEF LoopIdle, LoopBus, LoopAck, ControlRequested, ThreadEnds, ResumeIpc, SendCheck, Setup, PlayAccepted,
             PauseAccepted, NativeFailure, Expire, SendData, EndOfStream, Crash, workerVars, pipes, ipcVars
    <3>2. QED
      BY <1>6, <3>1
  <2>2. QED
    BY <1>7, <1>8, <1>9, <1>10, <1>11, <1>12, <2>1 DEF WorkerStep
<1>14. QED
  BY <1>3, <1>13

LEMMA WorkerCredits ==
  ASSUME IInv, WorkerStep, UNCHANGED sessionVars, CloseInv'
  PROVE  Credits'
<1>1. UNCHANGED <<outstandingUnits, held, staged, creditUnits>> /\ Open' = Open
  BY SessionSame DEF Open
<1>2. /\ Granted \in Nat /\ Len(data) \in Nat /\ outstandingUnits \in Nat /\ credits \in Nat
      /\ Len(frames) \in Nat /\ QueueUnits \in Nat /\ commands \in Seq(CommandSet)
  BY Counts
<1>3. /\ pipeline => Window <= QueueUnits
      /\ Open /\ pipeline /\ loop # "close" /\ exit = "running" => Window = QueueUnits
      /\ Open => outstandingUnits = Cardinality(held) + Len(staged) + creditUnits
  BY DEF IInv, Credits
<1>4. Open' => outstandingUnits' = Cardinality(held') + Len(staged') + creditUnits'
  BY <1>1, <1>3
<1>5. CASE OpenNative
  <2>1. /\ ~pipeline /\ credits' = QueueUnits /\ UNCHANGED <<commands, frames, data>>
    BY <1>5 DEF OpenNative, pipes
  <2>2. outstandingUnits = 0 /\ frames = << >> /\ data = << >>
    BY <2>1 DEF IInv, Opening, CloseInv, Stages
  <2>3. \A i \in 1..Len(commands) : commands[i].units = 0
    BY <2>1 DEF IInv, CommandsFit
  <2>4. IsFiniteSet(Grants(commands)) /\ Granted = 0
    BY <1>2, <2>3, GrantsNone DEF Granted
  <2>5. IsFiniteSet(Grants(commands')) /\ Granted' = 0 /\ Len(frames') = 0 /\ Len(data') = 0
    BY <2>1, <2>2, <2>4 DEF Granted
  <2>6. Window' = QueueUnits
    BY <1>1, <1>2, <2>1, <2>2, <2>5 DEF Window
  <2>7. QED
    BY <1>2, <1>4, <2>5, <2>6 DEF Credits
<1>6. CASE ~OpenNative
  <2>1. /\ IsFiniteSet(Grants(commands')) /\ Granted' \in Nat
        /\ Len(data') \in Nat /\ Len(frames') \in Nat /\ credits' \in Nat
        /\ credits' + Len(frames') + Len(data') + Granted'
             <= credits + Len(frames) + Len(data) + Granted
        /\ exit' = "running" => credits' + Len(frames') + Len(data') + Granted'
                                  = credits + Len(frames) + Len(data) + Granted
    BY <1>6, WorkerWindow
  <2> DEFINE before == credits + Len(frames) + Len(data) + Granted
             after == credits' + Len(frames') + Len(data') + Granted'
  <2>2. before \in Nat /\ after \in Nat /\ after <= before /\ (exit' = "running" => after = before)
    BY <1>2, <2>1
  <2>3. Window = before + outstandingUnits /\ Window' = after + outstandingUnits
    BY <1>1, <1>2, <2>1 DEF Window
  <2> HIDE DEF before, after
  <2>4. /\ Window' <= Window /\ (exit' = "running" => Window' = Window)
        /\ Window \in Nat /\ Window' \in Nat
    BY <1>2, <2>2, <2>3
  <2>5. pipeline' = pipeline
    BY <1>6 DEF WorkerStep, LoopIdle, EofRead, OpenRead, CloseRead, CreditRead, ControlRead, Reads,
         LoopBus, LoopAck, ControlRequested, ThreadEnds, ResumeIpc, SendCheck, Setup, PlayAccepted, PauseAccepted,
         NativeFailure, Expire, SendData, MediaIpcData, Writer, EndOfStream, CloseNative, Crash,
         workerVars, openVars
  <2>6. loop' # "close" => loop # "close"
    BY <1>6 DEF WorkerStep, LoopIdle, EofRead, OpenRead, CloseRead, CreditRead, ControlRead, Reads,
         LoopBus, LoopAck, ControlRequested, ThreadEnds, ResumeIpc, SendCheck, Setup, PlayAccepted, PauseAccepted,
         NativeFailure, Expire, SendData, MediaIpcData, Writer, EndOfStream, CloseNative, Crash,
         workerVars, loopVars
  <2>7. exit' = "running" => exit = "running"
    BY <1>6 DEF WorkerStep, LoopIdle, EofRead, OpenRead, CloseRead, CreditRead, ControlRead, Reads,
         LoopBus, LoopAck, ControlRequested, ThreadEnds, ResumeIpc, SendCheck, Setup, PlayAccepted, PauseAccepted,
         NativeFailure, Expire, SendData, MediaIpcData, Writer, EndOfStream, CloseNative, Crash, pipes,
         Running
  <2>8. pipeline' => Window' <= QueueUnits
    BY <1>2, <1>3, <2>4, <2>5
  <2>9. Open' /\ pipeline' /\ loop' # "close" /\ exit' = "running" => Window' = QueueUnits
    BY <1>1, <1>3, <2>4, <2>5, <2>6, <2>7
  <2>10. QED
    BY <1>4, <2>1, <2>8, <2>9 DEF Credits
<1>7. QED
  BY <1>5, <1>6

-----------------------------------------------------------------------------
\* What an END says stays true.
LEMMA SessionEndKept ==
  ASSUME IInv, SessionStep, UNCHANGED workerVars, CloseInv', NEW g, NEW w, EndHolds(g, w)
  PROVE  EndHolds(g, w)'
<1>1. UNCHANGED <<wGeneration, wSequence, streamEnded, eos, relabelled, sending, frames>>
  BY WorkerSame
<1>2. data \in Seq(UnitSet) /\ data' \in Seq(UnitSet)
  BY Counts, NextTypes
<1>3. Units(data') \subseteq Units(data)
  <2>1. CASE data' = data
    BY <2>1
  <2>2. CASE Dropped(data, data')
    BY <1>2, <2>2, DroppedUnits DEF IInv, UnitsFit
  <2>3. QED
    BY <2>1, <2>2, SessionPipes
<1>4. QED
  BY <1>1, <1>3 DEF EndHolds

LEMMA SessionEnding ==
  ASSUME IInv, SessionStep
  PROVE  \/ EndTaken
         \/ ending' # NoEnd => /\ ending # NoEnd /\ ending'.gen = ending.gen
                               /\ ending'.watermark = ending.watermark
<1>1. ending \in [gen : Nat, watermark : Nat, complete : BOOLEAN]
  BY DEF IInv, CloseInv, LinkTypeOK, ClosingTypeOK
<1>2. \A g, n : /\ Finished(ending, g, n).gen = ending.gen
                /\ Finished(ending, g, n).watermark = ending.watermark
                /\ ending = NoEnd => Finished(ending, g, n) = NoEnd
  BY <1>1, FinishedTypes
<1>3. \/ EndTaken \/ ending' = ending \/ ending' = NoEnd
      \/ \E g, n : ending' = Finished(ending, g, n)
  BY DEF SessionStep, Notes, Closes, OpenSent, HelloTaken, ReadyTaken, ControlTaken,
         DataTaken, Consume, CreditsSent, Issues, IssueControl, Killed, Leaves, sessionVars
<1>4. QED
  BY <1>2, <1>3

LEMMA SessionEndsFrames ==
  ASSUME IInv, SessionStep, UNCHANGED workerVars, CloseInv',
         NEW i \in 1..Len(control'), control'[i].kind = "END"
  PROVE  /\ \A g, w : g = control'[i].gen /\ w = control'[i].watermark => EndHolds(g, w)'
         /\ relabelled = {} =>
              /\ ending' # NoEnd => ending'.gen < control'[i].gen
              /\ \A j \in 1..Len(control') :
                   control'[j].kind = "END" /\ i < j => control'[i].gen < control'[j].gen
<1>1. control \in Seq(FrameSet)
  BY Counts
<1>2. \A k \in 1..Len(control) : control[k].kind = "END" =>
        /\ EndHolds(control[k].gen, control[k].watermark)
        /\ relabelled = {} =>
             /\ ending # NoEnd => ending.gen < control[k].gen
             /\ \A j \in 1..Len(control) :
                  control[j].kind = "END" /\ k < j => control[k].gen < control[j].gen
  BY DEF IInv, Ends
<1>3. PICK s \in {0, 1} : /\ s = 1 => Dropped(control, control')
                          /\ s = 0 => control' = control
                          /\ \A j \in 1..Len(control') :
                               j + s \in 1..Len(control) /\ control'[j] = control[j + s]
  <2>1. CASE control' = control
    <3>1. \A j \in 1..Len(control') : j + 0 \in 1..Len(control) /\ control'[j] = control[j + 0]
      BY <1>1, <2>1
    <3>2. QED
      BY <2>1, <3>1
  <2>2. CASE Dropped(control, control')
    <3>1. \A j \in 1..Len(control') : j + 1 \in 1..Len(control) /\ control'[j] = control[j + 1]
      BY <1>1, <2>2, DroppedElements
    <3>2. QED
      BY <2>2, <3>1
  <2>3. QED
    BY <2>1, <2>2, SessionPipes
<1>4. \A g, w : g = control'[i].gen /\ w = control'[i].watermark => EndHolds(g, w)'
  <2> SUFFICES ASSUME NEW g, NEW w, g = control'[i].gen, w = control'[i].watermark
               PROVE  EndHolds(g, w)'
    OBVIOUS
  <2>1. EndHolds(g, w)
    BY <1>2, <1>3
  <2>2. QED
    BY <2>1, SessionEndKept
<1>5. relabelled = {} => \A j \in 1..Len(control') :
        control'[j].kind = "END" /\ i < j => control'[i].gen < control'[j].gen
  <2> SUFFICES ASSUME relabelled = {}, NEW j \in 1..Len(control'), control'[j].kind = "END", i < j
               PROVE  control'[i].gen < control'[j].gen
    OBVIOUS
  <2>1. i + s < j + s
    BY <1>3
  <2>2. QED
    BY <1>2, <1>3, <2>1
<1>6. relabelled = {} /\ ending' # NoEnd => ending'.gen < control'[i].gen
  <2>1. CASE EndTaken
    <3>1. Dropped(control, control') /\ control[1].kind = "END" /\ ending'.gen = control[1].gen
      BY <2>1 DEF EndTaken
    <3>2. 1 \in 1..Len(control) /\ i + 1 \in 1..Len(control) /\ 1 < i + 1
          /\ control'[i] = control[i + 1]
      BY <1>1, <3>1, DroppedElements DEF Dropped
    <3>3. QED
      BY <1>2, <3>1, <3>2
  <2>2. CASE ending' # NoEnd => ending # NoEnd /\ ending'.gen = ending.gen
    BY <1>2, <1>3, <2>2
  <2>3. QED
    BY <2>1, <2>2, SessionEnding
<1>7. QED
  BY <1>4, <1>5, <1>6

\* The END that the session keeps.
EndKept == /\ ending # NoEnd =>
                /\ generation <= ending.gen
                /\ ~Idle /\ pending.kind # "PAUSE" => ending.gen = expectedGeneration
           /\ ending.complete => /\ ending.gen = generation
                                 /\ ending.gen \notin relabelled => dataSequence = ending.watermark

LEMMA SessionEndsKept ==
  ASSUME IInv, SessionStep, UNCHANGED workerVars, CloseInv'
  PROVE  EndKept'
<1>0. relabelled' = relabelled
  BY WorkerSame
<1>1. /\ ending \in [gen : Nat, watermark : Nat, complete : BOOLEAN]
      /\ generation \in Nat /\ expectedGeneration \in Nat /\ wGeneration \in Nat
      /\ dataSequence \in Nat
  BY Counts DEF IInv, CloseInv, LinkTypeOK, ClosingTypeOK
<1>2. EndKept /\ (ending # NoEnd => EndHolds(ending.gen, ending.watermark) /\ 0 < ending.gen)
  BY DEF IInv, Ends, EndKept, EndHolds
<1>3. ending.complete => ending # NoEnd
  BY DEF NoEnd
<1>4. \A g, n : /\ Finished(ending, g, n).gen = ending.gen
                /\ Finished(ending, g, n).watermark = ending.watermark
                /\ ending = NoEnd => Finished(ending, g, n) = NoEnd
                /\ Finished(ending, g, n).complete =>
                     ending.complete \/ (ending.gen = g /\ g # 0 /\ n = ending.watermark)
  BY <1>1, FinishedTypes
<1>5. NoEnd.complete = FALSE
  BY DEF NoEnd
<1>6. CASE Notes \/ OpenSent \/ HelloTaken \/ CreditsSent \/ Killed \/ (\E u \in held : Consume(u))
  <2>1. UNCHANGED <<ending, generation, expectedGeneration, dataSequence, pending>>
    BY <1>6 DEF Notes, OpenSent, HelloTaken, CreditsSent, Killed, Consume, sessionVars
  <2>2. QED
    BY <1>0, <1>2, <2>1 DEF EndKept, Idle
<1>7. CASE Closes \/ Leaves
  BY <1>5, <1>7 DEF Closes, Leaves, EndKept
<1>8. CASE ReadyTaken
  <2>1. /\ generation = 0 /\ generation' = 1 /\ ending' = Finished(ending, 1, dataSequence)
        /\ UNCHANGED <<pending, dataSequence>> /\ state = "opening"
    BY <1>8 DEF ReadyTaken
  <2>2. Idle' /\ ~ending.complete
    BY <1>2, <1>3, <2>1 DEF IInv, Opening, Playing, EndKept, Idle
  <2>3. ending' # NoEnd => generation' <= ending'.gen
    BY <1>1, <1>2, <1>4, <2>1
  <2>4. ending'.complete => ending'.gen = generation' /\ dataSequence' = ending'.watermark
    BY <1>4, <2>1, <2>2
  <2>5. QED
    BY <2>2, <2>3, <2>4 DEF EndKept
<1>9. CASE ControlTaken
  <2>1. /\ ~Idle /\ Asked = pending /\ Asked # NoControl /\ ControlAgreed
        /\ generation' = pending.gen /\ ending' = Finished(ending, pending.gen, dataSequence)
        /\ pending' = NoControl /\ dataSequence' = dataSequence
    BY <1>9 DEF ControlTaken, Asked, Idle
  <2>2. /\ pending.gen = expectedGeneration
        /\ expectedGeneration = IF pending.kind = "PAUSE" THEN generation ELSE generation + 1
    BY <2>1 DEF ControlAgreed
  <2>3. ending # NoEnd => generation' <= ending.gen
    BY <1>1, <1>2, <2>1, <2>2 DEF EndKept
  <2>4. ending.complete => ending.gen = generation'
    <3> SUFFICES ASSUME ending.complete PROVE ending.gen = generation'
      OBVIOUS
    <3>1. ending.gen = generation /\ (pending.kind # "PAUSE" => ending.gen = expectedGeneration)
      BY <1>2, <1>3, <2>1 DEF EndKept
    <3>2. QED
      BY <2>1, <2>2, <3>1
  <2>5. Idle'
    BY <2>1 DEF Idle, NoControl
  <2>6. QED
    BY <1>0, <1>2, <1>4, <2>1, <2>3, <2>4, <2>5 DEF EndKept
<1>10. CASE EndTaken
  <2>1. PICK g, w \in Nat :
           /\ EndHolds(g, w) /\ generation <= g
           /\ ~Idle => g # generation
           /\ ending'.gen = g /\ ending'.watermark = w
           /\ ending'.complete => g = generation /\ dataSequence = w
    BY <1>10 DEF EndTaken
  <2>2. /\ UNCHANGED <<generation, expectedGeneration, dataSequence, pending, state>> /\ Open
    BY <1>10 DEF EndTaken
  <2>3. ~Idle /\ pending.kind # "PAUSE" => g = expectedGeneration
    <3> SUFFICES ASSUME ~Idle, pending.kind # "PAUSE" PROVE g = expectedGeneration
      OBVIOUS
    <3>1. Asked = pending /\ Asked # NoControl /\ state # "closed"
      BY <2>2 DEF Asked, Idle, Open
    <3>2. expectedGeneration = generation + 1
      BY <3>1, ControlHeld
    <3>3. g <= wGeneration /\ wGeneration <= expectedGeneration
      BY <2>1 DEF EndHolds, IInv, Numbers
    <3>4. QED
      BY <1>1, <2>1, <3>2, <3>3
  <2>4. QED
    BY <2>1, <2>2, <2>3 DEF EndKept, Idle
<1>11. ASSUME NEW u, DataTaken(u) PROVE EndKept'
  <2>1. /\ Open /\ u.gen \in Nat /\ u.seq \in Nat /\ dataSequence < u.seq
        /\ u.gen <= expectedGeneration /\ u \in Units(data)
        /\ dataSequence' = u.seq
        /\ UNCHANGED <<state, generation, expectedGeneration, pending>>
        /\ ending' = ending \/ ending' = Finished(ending, generation, u.seq)
    <3>1. u \in Units(data)
      <4>1. data \in Seq(UnitSet) /\ u = data[1] /\ Len(data) > 0
        BY <1>11, Counts DEF DataTaken, Dropped
      <4>2. 1 \in 1..Len(data)
        BY <4>1
      <4>3. QED
        BY <4>1, <4>2, UnitsOf
    <3>2. QED
      BY <1>11, <3>1 DEF DataTaken
  <2>2. ~ending.complete \/ ending.gen \in relabelled
    <3> SUFFICES ASSUME ending.complete, ending.gen \notin relabelled PROVE FALSE
      OBVIOUS
    <3>1. /\ ending # NoEnd /\ ending.gen = generation /\ dataSequence = ending.watermark
          /\ EndHolds(ending.gen, ending.watermark) /\ 0 < ending.gen
          /\ ~Idle /\ pending.kind # "PAUSE" => ending.gen = expectedGeneration
      BY <1>2, <1>3 DEF EndKept
    <3>2. generation < u.gen
      BY <2>1, <3>1 DEF EndHolds
    <3>3. Playing
      BY <2>1, <3>1 DEF Open, Playing, IInv, Opening
    <3>4. generation = expectedGeneration
      BY <3>1, <3>3, NothingAhead
    <3>5. QED
      BY <1>1, <2>1, <3>2, <3>4
  <2>3. ending'.complete =>
          /\ ending'.gen = generation'
          /\ ending'.gen \notin relabelled => dataSequence' = ending'.watermark
    BY <1>2, <1>4, <2>1, <2>2 DEF EndKept
  <2>4. ending' # NoEnd => ending # NoEnd /\ ending'.gen = ending.gen
    BY <1>4, <2>1
  <2>5. QED
    BY <1>0, <1>2, <2>1, <2>3, <2>4 DEF EndKept, Idle
<1>12. ASSUME NEW kind \in Kinds, Issues(kind) PROVE EndKept'
  <2>1. /\ ending' = IF kind = "PAUSE" THEN ending ELSE NoEnd
        /\ pending'.kind = kind
        /\ UNCHANGED <<generation, dataSequence>>
    BY <1>12 DEF Issues, IssueControl
  <2>2. CASE kind = "PAUSE"
    BY <1>0, <1>2, <2>1, <2>2 DEF EndKept
  <2>3. CASE kind # "PAUSE"
    BY <1>5, <2>1, <2>3 DEF EndKept
  <2>4. QED
    BY <2>2, <2>3
<1>13. QED
  BY <1>6, <1>7, <1>8, <1>9, <1>10, <1>11, <1>12 DEF SessionStep

LEMMA SessionEnds ==
  ASSUME IInv, SessionStep, UNCHANGED workerVars, CloseInv'
  PROVE  Ends'
<1>1. UNCHANGED <<streamEnded, eos, relabelled, wGeneration, passed, sending>>
  BY WorkerSame
<1>2. EndKept'
  BY SessionEndsKept
<1>3. ending' # NoEnd => \A g, w : g = ending'.gen /\ w = ending'.watermark => EndHolds(g, w)'
  <2> SUFFICES ASSUME ending' # NoEnd, NEW g, NEW w, g = ending'.gen, w = ending'.watermark
               PROVE  EndHolds(g, w)'
    OBVIOUS
  <2>1. EndHolds(g, w)
    <3>1. CASE EndTaken
      BY <3>1 DEF EndTaken
    <3>2. CASE ending # NoEnd /\ ending'.gen = ending.gen /\ ending'.watermark = ending.watermark
      BY <3>2 DEF IInv, Ends
    <3>3. QED
      BY <3>1, <3>2, SessionEnding
  <2>2. QED
    BY <2>1, SessionEndKept
<1>4. \A i \in 1..Len(control') : control'[i].kind = "END" =>
         /\ \A g, w : g = control'[i].gen /\ w = control'[i].watermark => EndHolds(g, w)'
         /\ relabelled = {} =>
              /\ ending' # NoEnd => ending'.gen < control'[i].gen
              /\ \A j \in 1..Len(control') :
                   control'[j].kind = "END" /\ i < j => control'[i].gen < control'[j].gen
  BY SessionEndsFrames
<1>5. Streams'
  BY <1>1 DEF IInv, Ends, Streams
<1>6. NoEnd' = NoEnd
  BY DEF NoEnd
<1>7. ending' # NoEnd => EndHolds(ending.gen, ending.watermark)'
  BY <1>3 DEF EndHolds
<1>8. \A i \in 1..Len(control') : control'[i].kind = "END" =>
        EndHolds(control[i].gen, control[i].watermark)'
  BY <1>4 DEF EndHolds
<1>9. QED
  BY <1>1, <1>2, <1>4, <1>5, <1>7, <1>8 DEF Ends, EndKept, NoEnd

-----------------------------------------------------------------------------
\* A PLAY that is accepted begins a generation.
LEMMA PlayBegins ==
  ASSUME IInv, PlayAccepted
  PROVE  ~ready \/ (wGeneration' > wGeneration /\ wGeneration' \in Nat)
<1>1. /\ exit = "running" /\ rtsp = "PLAY"
      /\ wGeneration' = IF pendingGeneration # 0 THEN pendingGeneration ELSE wGeneration
  BY DEF PlayAccepted, Running
<1>2. generation \in Nat /\ wGeneration \in Nat
  BY Counts
<1>3. SUFFICES ASSUME ready PROVE wGeneration' > wGeneration /\ wGeneration' \in Nat
  OBVIOUS
<1>4. Asked # NoControl /\ Taken
  BY <1>1, <1>3, ControlHeld DEF WorkerFree, Sent, Accepted, Answered
<1>5. Asked.kind # "PAUSE" /\ pendingGeneration = Asked.gen /\ wGeneration = generation
  BY <1>1, <1>4 DEF Taken
<1>6. Asked.gen = generation + 1
  BY <1>1, <1>4, <1>5, ControlHeld
<1>7. QED
  BY <1>1, <1>2, <1>5, <1>6

\* Nothing follows an END, and no END stands for a generation that goes on.
LEMMA WorkerUnits ==
  ASSUME IInv, WorkerStep, CloseInv', NEW u \in Units(data') \cup Units(frames')
  PROVE  \/ u \in Units(data) \cup Units(frames)
         \/ MediaIpcData /\ u.gen = sending /\ sending # 0
<1>1. data \in Seq(UnitSet) /\ frames \in Seq(UnitSet) /\ data' \in Seq(UnitSet)
      /\ frames' \in Seq(UnitSet)
  BY Counts, NextTypes
<1>2. CASE UNCHANGED <<data, frames>>
  BY <1>2
<1>3. CASE data' = data /\ frames' = << >>
  BY <1>3, NoUnits
<1>4. CASE Writer
  <2>1. frames # << >> /\ data' = Append(data, Head(frames)) /\ frames' = Tail(frames)
    BY <1>4 DEF Writer
  <2>2. \A i \in 1..Len(data') : (i \in 1..Len(data) /\ data'[i] = data[i]) \/ data'[i] = frames[1]
    BY <1>1, <2>1
  <2>3. 1 \in 1..Len(frames) /\ \A i \in 1..Len(frames') : i + 1 \in 1..Len(frames)
                                                         /\ frames'[i] = frames[i + 1]
    BY <1>1, <2>1
  <2>4. CASE u \in Units(data')
    <3>1. PICK i \in 1..Len(data') : u = data'[i]
      BY <1>1, <2>4, UnitsOf
    <3>2. u \in Units(data) \/ u \in Units(frames)
      BY <1>1, <2>2, <2>3, <3>1, UnitsOf
    <3>3. QED
      BY <3>2
  <2>5. CASE u \in Units(frames')
    <3>1. PICK i \in 1..Len(frames') : u = frames'[i]
      BY <1>1, <2>5, UnitsOf
    <3>2. u \in Units(frames)
      BY <1>1, <2>3, <3>1, UnitsOf
    <3>3. QED
      BY <3>2
  <2>6. QED
    BY <2>4, <2>5
<1>5. CASE MediaIpcData
  <2>1. data' = data /\ sending # 0
    BY <1>5 DEF MediaIpcData, pipes
  <2>2. CASE frames' = frames
    BY <1>2, <2>1, <2>2
  <2>3. CASE frames' # frames
    <3>1. frames' = Append(frames, [gen |-> sending, seq |-> wSequence + 1])
      BY <1>5, <2>3 DEF MediaIpcData
    <3>2. \A i \in 1..Len(frames') :
            (i \in 1..Len(frames) /\ frames'[i] = frames[i]) \/ frames'[i].gen = sending
      BY <1>1, <3>1
    <3>3. CASE u \in Units(frames')
      <4>1. PICK i \in 1..Len(frames') : u = frames'[i]
        BY <1>1, <3>3, UnitsOf
      <4>2. QED
        BY <1>1, <1>5, <2>1, <3>2, <4>1, UnitsOf
    <3>4. QED
      BY <2>1, <3>3
  <2>4. QED
    BY <2>2, <2>3
<1>6. CASE ControlRead \/ (\E teardown \in {"ok", "gone", "none"}, local \in BOOLEAN :
                              CloseNative(teardown, local))
  BY <1>3, <1>6 DEF ControlRead, Reads, CloseNative
<1>7. QED
  BY <1>2, <1>4, <1>5, <1>6
     DEF WorkerStep, LoopIdle, EofRead, OpenRead, CloseRead, CreditRead, Reads, OpenNative,
         LoopBus, LoopAck, ControlRequested, ThreadEnds, ResumeIpc, SendCheck, Setup, PlayAccepted, PauseAccepted,
         NativeFailure, Expire, SendData, EndOfStream, Crash, workerVars, pipes, ipcVars

LEMMA RelabelledGrows ==
  ASSUME WorkerStep
  PROVE  relabelled \subseteq relabelled' /\ (~LoopBus => relabelled' = relabelled)
<1>1. CASE LoopBus
  BY <1>1 DEF LoopBus
<1>2. CASE ~LoopBus
  <2>1. relabelled' = relabelled
    BY <1>2 DEF WorkerStep, LoopIdle, EofRead, OpenRead, CloseRead, CreditRead, ControlRead, Reads,
         OpenNative, LoopAck, ControlRequested, ThreadEnds, ResumeIpc, SendCheck, Setup, PlayAccepted,
         PauseAccepted, NativeFailure, Expire, SendData, MediaIpcData, Writer, EndOfStream, CloseNative,
         Crash, workerVars, streamVars
  <2>2. QED
    BY <1>2, <2>1
<1>3. QED
  BY <1>1, <1>2

LEMMA WorkerEndKept ==
  ASSUME IInv, WorkerStep, CloseInv', NEW g \in Nat, NEW w \in Nat, EndHolds(g, w)
  PROVE  EndHolds(g, w)'
<1>1. wGeneration \in Nat /\ sending \in Nat /\ wSequence \in Nat
  BY Counts
<1>2. 0 < g /\ g <= wGeneration /\ w <= wSequence
  BY DEF EndHolds
<1>3. g <= wGeneration'
  BY <1>1, <1>2, GenerationGrows
<1>4. w <= wSequence'
  <2>1. wSequence' \in {wSequence, wSequence + 1}
    BY DEF WorkerStep, LoopIdle, EofRead, OpenRead, CloseRead, CreditRead, ControlRead, Reads,
         OpenNative, LoopBus, LoopAck, ControlRequested, ThreadEnds, ResumeIpc, SendCheck, Setup,
         PlayAccepted, PauseAccepted, NativeFailure, Expire, SendData, MediaIpcData, Writer,
         EndOfStream, CloseNative, Crash, workerVars, ipcVars
  <2>2. QED
    BY <1>1, <1>2, <2>1
<1>5. SUFFICES ASSUME g \notin relabelled'
               PROVE  /\ g = wGeneration' => streamEnded' /\ wGeneration' \notin eos' /\ w = wSequence'
                      /\ sending' = 0 \/ g < sending'
                      /\ \A u \in Units(data') \cup Units(frames') : w < u.seq => g < u.gen
  BY <1>2, <1>3, <1>4 DEF EndHolds
<1>6. /\ g = wGeneration => streamEnded /\ wGeneration \notin eos /\ w = wSequence
      /\ sending = 0 \/ g < sending
      /\ \A u \in Units(data) \cup Units(frames) : w < u.seq => g < u.gen
  BY <1>5, RelabelledGrows DEF EndHolds
<1>7. /\ sending <= wGeneration /\ (~ready => ~streamEnded)
      /\ streamEnded => ~passed
  BY DEF IInv, Numbers, Opening, Ends, Streams
<1>8. \A u \in Units(data') \cup Units(frames') : w < u.seq => g < u.gen
  BY <1>6, WorkerUnits
<1>9. CASE OpenNative
  <2>1. wGeneration = 0
    BY <1>9 DEF OpenNative, IInv, Numbers
  <2>2. QED
    BY <1>2, <2>1
<1>10. CASE PlayAccepted
  <2>1. UNCHANGED <<sending, wSequence>>
    BY <1>10 DEF PlayAccepted
  <2>2. g # wGeneration'
    <3>1. CASE ~ready
      <4>1. g # wGeneration /\ (wGeneration' = wGeneration \/ pendingGeneration # 0)
        BY <1>6, <1>7, <1>10, <3>1 DEF PlayAccepted
      <4>2. wGeneration' = wGeneration \/ wGeneration' > wGeneration
        BY <1>1, GenerationGrows
      <4>3. QED
        BY <1>1, <1>2, <4>1, <4>2
    <3>2. CASE wGeneration' > wGeneration /\ wGeneration' \in Nat
      BY <1>1, <1>2, <3>2
    <3>3. QED
      BY <1>10, <3>1, <3>2, PlayBegins
  <2>3. QED
    BY <1>6, <1>8, <2>1, <2>2
<1>11. CASE SendData
  <2>1. ~streamEnded /\ sending' = wGeneration
        /\ UNCHANGED <<wGeneration, wSequence, streamEnded, eos>>
    BY <1>7, <1>11 DEF SendData, streamVars
  <2>2. g < wGeneration
    BY <1>1, <1>2, <1>6, <2>1
  <2>3. QED
    BY <1>1, <1>8, <2>1, <2>2
<1>12. CASE MediaIpcData
  <2>1. /\ sending # 0 /\ sending' = 0
        /\ UNCHANGED <<wGeneration, streamEnded, eos>>
    BY <1>12 DEF MediaIpcData, streamVars
  <2>2. g < wGeneration
    BY <1>1, <1>6, <1>7, <2>1
  <2>3. QED
    BY <1>1, <1>8, <2>1, <2>2
<1>13. CASE EndOfStream
  <2>1. ~streamEnded /\ UNCHANGED <<wGeneration, wSequence, sending>>
    BY <1>13 DEF EndOfStream, ipcVars
  <2>2. g # wGeneration'
    BY <1>6, <2>1
  <2>3. QED
    BY <1>6, <1>8, <2>1, <2>2
<1>14. CASE ~(OpenNative \/ PlayAccepted \/ SendData \/ MediaIpcData \/ EndOfStream)
  <2>1. CASE LoopBus
    <3>1. /\ UNCHANGED <<wGeneration, wSequence, sending, streamEnded>>
          /\ eos' = {}
      BY <2>1 DEF LoopBus, ipcVars
    <3>2. QED
      BY <1>6, <1>8, <3>1
  <2>2. CASE ~LoopBus
    <3>1. UNCHANGED <<wGeneration, wSequence, sending, streamEnded, eos>>
      BY <1>14, <2>2 DEF WorkerStep, LoopIdle, EofRead, OpenRead, CloseRead, CreditRead,
         ControlRead, Reads, LoopAck, ControlRequested, ThreadEnds, ResumeIpc, SendCheck, Setup,
         PauseAccepted, NativeFailure, Expire, Writer, CloseNative, Crash, workerVars, ipcVars, streamVars
    <3>2. QED
      BY <1>6, <1>8, <3>1
  <2>3. QED
    BY <2>1, <2>2
<1>15. QED
  BY <1>9, <1>10, <1>11, <1>12, <1>13, <1>14

LEMMA WorkerStreams ==
  ASSUME IInv, WorkerStep
  PROVE  Streams'
<1>1. wGeneration \in Nat /\ wGeneration <= wGeneration' /\ wGeneration' \in Nat /\ eos \in SUBSET Nat
      /\ relabelled \in SUBSET Nat
  BY Counts, GenerationGrows DEF IInv, CloseInv, LinkTypeOK, WorkerTypeOK
<1>2. /\ \A g \in eos : 0 < g /\ g <= wGeneration
      /\ \A g \in relabelled : 1 < g /\ g <= wGeneration
      /\ wGeneration \in eos => streamEnded
      /\ streamEnded => sending = 0 /\ ~passed
      /\ ~ready => eos = {}
  BY DEF IInv, Ends, Streams, Opening
<1>3. \A g \in relabelled : g <= wGeneration'
  BY <1>1, <1>2
<1>4. \A g \in eos : 0 < g /\ g <= wGeneration'
  BY <1>1, <1>2
<1>5. CASE LoopBus
  <2>1. /\ UNCHANGED <<wGeneration, sending, passed, streamEnded>> /\ eos' = {}
        /\ relabelled' = relabelled \cup (IF eos \subseteq {wGeneration} THEN {} ELSE {wGeneration})
    BY <1>5 DEF LoopBus, ipcVars
  <2>2. ~(eos \subseteq {wGeneration}) => 1 < wGeneration
    <3> SUFFICES ASSUME NEW g \in eos, g # wGeneration PROVE 1 < wGeneration
      OBVIOUS
    <3>1. 0 < g /\ g < wGeneration /\ g \in Nat
      BY <1>1, <1>2
    <3>2. QED
      BY <1>1, <3>1
  <2>3. \A g \in relabelled' : 1 < g /\ g <= wGeneration'
    BY <1>1, <1>2, <2>1, <2>2
  <2>4. QED
    BY <1>2, <2>1, <2>3 DEF Streams
<1>6. CASE EndOfStream
  <2>1. /\ UNCHANGED <<wGeneration, sending, passed, relabelled>> /\ eos' = eos \cup {wGeneration}
        /\ streamEnded' = TRUE /\ sending = 0 /\ ~passed /\ ready
    BY <1>6 DEF EndOfStream, ipcVars
  <2>2. 0 < wGeneration
    <3>1. pipeline
      BY <2>1 DEF IInv, CloseInv, Stages
    <3>2. (generation = 0 => wGeneration = 1) /\ generation <= wGeneration /\ generation \in Nat
      BY <3>1, Counts DEF IInv, Numbers
    <3>3. QED
      BY <1>1, <3>2
  <2>3. \A g \in eos' : 0 < g /\ g <= wGeneration'
    BY <1>1, <1>2, <2>1, <2>2
  <2>4. QED
    BY <1>2, <2>1, <2>3 DEF Streams
<1>7. CASE PlayAccepted
  <2>1. /\ streamEnded' = FALSE /\ UNCHANGED <<eos, relabelled>>
    BY <1>7 DEF PlayAccepted
  <2>2. wGeneration' \notin eos
    BY <1>1, <1>2, <1>7, PlayBegins
  <2>3. QED
    BY <1>2, <1>3, <1>4, <2>1, <2>2 DEF Streams
<1>8. CASE OpenNative
  <2>1. ~ready /\ UNCHANGED <<eos, relabelled, streamEnded, sending, passed>>
    BY <1>8 DEF OpenNative, streamVars, IInv, CloseInv, Stages
  <2>2. QED
    BY <1>2, <1>3, <2>1 DEF Streams
<1>9. CASE SendCheck
  <2>1. ~streamEnded /\ UNCHANGED <<eos, relabelled, streamEnded, wGeneration>>
    BY <1>9 DEF SendCheck, streamVars
  <2>2. QED
    BY <1>2, <2>1 DEF Streams
<1>10. CASE SendData
  <2>1. ~streamEnded /\ UNCHANGED <<eos, relabelled, streamEnded, wGeneration>>
    BY <1>2, <1>10 DEF SendData, streamVars
  <2>2. QED
    BY <1>2, <2>1 DEF Streams
<1>11. CASE MediaIpcData
  <2>1. sending' = 0 /\ UNCHANGED <<eos, relabelled, streamEnded, wGeneration, passed>>
    BY <1>11 DEF MediaIpcData, streamVars
  <2>2. QED
    BY <1>2, <2>1 DEF Streams
<1>12. CASE UNCHANGED <<eos, relabelled, streamEnded, wGeneration, passed, sending>>
  BY <1>2, <1>12 DEF Streams
<1>13. QED
  BY <1>5, <1>6, <1>7, <1>8, <1>9, <1>10, <1>11, <1>12
     DEF WorkerStep, LoopIdle, EofRead, OpenRead, CloseRead, CreditRead, ControlRead, Reads,
         LoopAck, ControlRequested, ThreadEnds, ResumeIpc, Setup, PauseAccepted,
         NativeFailure, Expire, Writer, CloseNative, Crash, workerVars, ipcVars, streamVars

LEMMA WorkerEnds ==
  ASSUME IInv, WorkerStep, UNCHANGED sessionVars, CloseInv'
  PROVE  Ends'
<1>1. UNCHANGED <<generation, expectedGeneration, dataSequence, pending, ending>>
  BY SessionSame
<1>2. /\ control \in Seq(FrameSet) /\ wGeneration \in Nat /\ wSequence \in Nat /\ generation \in Nat
      /\ data \in Seq(UnitSet) /\ frames \in Seq(UnitSet)
      /\ ending \in [gen : Nat, watermark : Nat, complete : BOOLEAN]
  BY Counts DEF IInv, CloseInv, LinkTypeOK, ClosingTypeOK
<1>3. /\ ending # NoEnd =>
           /\ EndHolds(ending.gen, ending.watermark) /\ generation <= ending.gen
           /\ ~Idle /\ pending.kind # "PAUSE" => ending.gen = expectedGeneration
      /\ ending.complete => /\ ending.gen = generation
                            /\ ending.gen \notin relabelled => dataSequence = ending.watermark
      /\ \A i \in 1..Len(control) : control[i].kind = "END" =>
           /\ EndHolds(control[i].gen, control[i].watermark)
           /\ relabelled = {} =>
                /\ ending # NoEnd => ending.gen < control[i].gen
                /\ \A j \in 1..Len(control) :
                     control[j].kind = "END" /\ i < j => control[i].gen < control[j].gen
  BY DEF IInv, Ends
<1>4. Streams'
  BY WorkerStreams
<1>5. ending # NoEnd => EndHolds(ending.gen, ending.watermark)'
  <2> SUFFICES ASSUME ending # NoEnd PROVE EndHolds(ending.gen, ending.watermark)'
    OBVIOUS
  <2>1. PICK g, w \in Nat : g = ending.gen /\ w = ending.watermark
    BY <1>2
  <2>2. EndHolds(g, w)'
    BY <1>3, <2>1, WorkerEndKept
  <2>3. QED
    BY <1>1, <2>1, <2>2 DEF EndHolds
\* The END that the loop sends is of a generation that is over, or relabelled.
<1>6. ASSUME NEW m, EndAdded(m)
      PROVE  /\ \A g, w : g = m.gen /\ w = m.watermark => EndHolds(g, w)'
             /\ relabelled' = {} =>
                  /\ eos \subseteq {wGeneration}
                  /\ ending # NoEnd => ending.gen < m.gen
                  /\ \A i \in 1..Len(control) : control[i].kind = "END" => control[i].gen < m.gen
  <2>1. /\ eos # {} /\ m.gen = wGeneration /\ m.watermark = wSequence
        /\ UNCHANGED <<wGeneration, wSequence, sending, streamEnded, data, frames>> /\ eos' = {}
        /\ relabelled' = relabelled \cup (IF eos \subseteq {wGeneration} THEN {} ELSE {wGeneration})
    BY <1>6 DEF EndAdded, LoopBus, ipcVars
  <2>2. 0 < wGeneration
    <3>1. ready /\ pipeline
      BY <2>1 DEF IInv, Opening, CloseInv, Stages
    <3>2. (generation = 0 => wGeneration = 1) /\ generation <= wGeneration
      BY <3>1 DEF IInv, Numbers
    <3>3. QED
      BY <1>2, <3>2
  <2>3. \A u \in Units(data) \cup Units(frames) : ~(wSequence < u.seq)
    <3> TAKE u \in Units(data) \cup Units(frames)
    <3>1. u.seq <= wSequence /\ u.seq \in Nat
      BY <1>2, UnitTypes DEF IInv, UnitsFit
    <3>2. QED
      BY <1>2, <3>1
  <2>4. eos \subseteq {wGeneration} => wGeneration \in eos /\ streamEnded /\ sending = 0
    BY <2>1 DEF IInv, Ends, Streams
  <2>5. wGeneration \notin relabelled' => eos \subseteq {wGeneration}
    BY <2>1
  <2>6. wGeneration <= wGeneration /\ wSequence <= wSequence
    BY <1>2
  <2>7. \A g, w : g = m.gen /\ w = m.watermark => EndHolds(g, w)'
    BY <2>1, <2>2, <2>3, <2>4, <2>5, <2>6 DEF EndHolds
  <2>8. ASSUME NEW g \in Nat, NEW w, EndHolds(g, w), relabelled' = {} PROVE g < m.gen
    <3>1. g \notin relabelled /\ eos \subseteq {wGeneration}
      BY <2>1, <2>8
    <3>2. g <= wGeneration /\ g # wGeneration
      BY <2>4, <2>8, <3>1 DEF EndHolds
    <3>3. QED
      BY <1>2, <2>1, <3>2
  <2>9. relabelled' = {} /\ ending # NoEnd => ending.gen < m.gen
    BY <1>2, <1>3, <2>8
  <2>10. relabelled' = {} =>
           \A i \in 1..Len(control) : control[i].kind = "END" => control[i].gen < m.gen
    <3>1. \A i \in 1..Len(control) : control[i].gen \in Nat
      BY <1>2, FrameTypes
    <3>2. QED
      BY <1>3, <2>8, <3>1
  <2>11. relabelled' = {} => eos \subseteq {wGeneration}
    BY <2>1
  <2>12. QED
    BY <2>7, <2>9, <2>10, <2>11
<1>7. ASSUME NEW i \in 1..Len(control'), control'[i].kind = "END"
      PROVE  \/ i \in 1..Len(control) /\ control'[i] = control[i]
             \/ EndAdded(control'[i]) /\ (eos \subseteq {wGeneration} => i = Len(control'))
  <2>1. ~ErrorAdded(control'[i]) /\ ~ReadyAdded(control'[i]) /\ ~ReceiptAdded(control'[i])
        /\ ~ClosedAdded(control'[i])
    BY <1>7 DEF ErrorAdded, ReadyAdded, ReceiptAdded, ClosedAdded
  <2>2. QED
    BY <2>1, WorkerFrames
<1>8. relabelled' = {} => relabelled = {}
  BY RelabelledGrows
<1>9. ASSUME NEW i \in 1..Len(control'), control'[i].kind = "END"
      PROVE  /\ \A g, w : g = control'[i].gen /\ w = control'[i].watermark => EndHolds(g, w)'
             /\ relabelled' = {} =>
                  /\ ending # NoEnd => ending.gen < control'[i].gen
                  /\ \A j \in 1..Len(control') :
                       control'[j].kind = "END" /\ i < j => control'[i].gen < control'[j].gen
  <2>1. CASE i \in 1..Len(control) /\ control'[i] = control[i]
    <3>1. control[i].gen \in Nat /\ control[i].watermark \in Nat
      BY <1>2, <1>9, <2>1, FrameTypes
    <3>2. \A g, w : g = control'[i].gen /\ w = control'[i].watermark => EndHolds(g, w)'
      <4> SUFFICES ASSUME NEW g, NEW w, g = control'[i].gen, w = control'[i].watermark
                   PROVE  EndHolds(g, w)'
        OBVIOUS
      <4>1. g \in Nat /\ w \in Nat /\ EndHolds(g, w)
        BY <1>3, <1>9, <2>1, <3>1
      <4>2. QED
        BY <4>1, WorkerEndKept
    <3>3. ASSUME relabelled' = {}, NEW j \in 1..Len(control'), control'[j].kind = "END", i < j
          PROVE  control'[i].gen < control'[j].gen
      <4>1. CASE j \in 1..Len(control) /\ control'[j] = control[j]
        BY <1>3, <1>8, <1>9, <2>1, <3>3, <4>1
      <4>2. CASE EndAdded(control'[j])
        BY <1>6, <1>9, <2>1, <3>3, <4>2
      <4>3. QED
        BY <1>7, <3>3, <4>1, <4>2
    <3>4. QED
      BY <1>3, <1>8, <1>9, <2>1, <3>2, <3>3
  <2>2. CASE EndAdded(control'[i]) /\ (eos \subseteq {wGeneration} => i = Len(control'))
    <3>1. relabelled' = {} => \A j \in 1..Len(control') : ~(i < j)
      BY <1>6, <2>2, WorkerFrames
    <3>2. QED
      BY <1>6, <2>2, <3>1
  <2>3. QED
    BY <1>7, <1>9, <2>1, <2>2
<1>10. \A i \in 1..Len(control') : control'[i].kind = "END" =>
         EndHolds(control[i].gen, control[i].watermark)'
  BY <1>9 DEF EndHolds
<1>11. ending.gen \notin relabelled' => ending.gen \notin relabelled
  BY RelabelledGrows
<1>12. QED
  BY <1>1, <1>3, <1>4, <1>5, <1>9, <1>10, <1>11 DEF Ends, NoEnd, Idle, NoControl

-----------------------------------------------------------------------------
\* The inductive invariant holds at the start, and every step keeps it.
LEMMA InitLink ==
  ASSUME LinkAssumption, Init
  PROVE  IInv
<1> USE DEF Init, PipesInit, SessionInit, WorkerInit
<1>1. CloseInv
  BY InitClose
<1>2. << >> \in Seq(CommandSet) /\ QueueUnits \in Nat
  BY LinkAssumption
<1>3. control = << Frame("HELLO", FALSE, 0, 0) >> /\ Len(control) = 1
      /\ control[1] = Frame("HELLO", FALSE, 0, 0)
  OBVIOUS
<1>4. Len(commands) = 0 /\ Len(data) = 0 /\ Len(frames) = 0 /\ Len(staged) = 0
  OBVIOUS
<1>5. Idle /\ Open /\ ~Playing
  BY DEF Idle, Open, Playing
<1>6. Opening /\ Numbers /\ NeverOpened
  BY <1>5 DEF Opening, Numbers, NeverOpened
<1>7. CommandsFit
  BY <1>4 DEF CommandsFit
<1>8. AnswersFit
  <2>1. \A i \in 1..Len(control) : control[i].kind = "HELLO" /\ control[i].gen = 0 /\ control[i].seq = 0
    BY <1>3 DEF Frame
  <2>2. wGeneration = 0 /\ commandSequence = 0
    OBVIOUS
  <2>3. \A i \in 1..Len(control) :
          /\ control[i].gen <= wGeneration /\ control[i].seq <= commandSequence
          /\ control[i].kind \notin {"READY", "CLOSED", "CONTROL"}
    <3> HIDE DEF Init, PipesInit, SessionInit, WorkerInit
    <3>1. QED
      BY <2>1, <2>2
  <2>4. QED
    BY <2>1, <2>3 DEF AnswersFit
<1>9. Controls
  <2>1. Asked = NoControl
    BY <1>5 DEF Asked
  <2>2. NoneSent /\ ControlSent
    BY <1>4 DEF NoneSent, ControlSent
  <2>3. NoneAnswered /\ ReceiptSent
    BY <1>3 DEF NoneAnswered, ReceiptSent, Frame
  <2>4. WorkerFree
    BY DEF WorkerFree
  <2>5. QED
    BY <1>5, <2>1, <2>2, <2>3, <2>4 DEF Controls, ControlAgreed
<1>10. UnitsFit /\ UnitsKept
  BY <1>4, <1>5, NoUnits DEF UnitsFit, UnitsKept
<1>11. Credits
  <2>1. IsFiniteSet(Grants(commands)) /\ Granted = 0
    <3>1. commands \in Seq(CommandSet) /\ \A i \in 1..Len(commands) : commands[i].units = 0
      BY <1>2, <1>4
    <3> HIDE DEF Init, PipesInit, SessionInit, WorkerInit
    <3>2. QED
      BY <3>1, GrantsNone DEF Granted
  <2>2. Cardinality(held) = 0
    BY FS_EmptySet
  <2>3. QED
    BY <1>2, <1>4, <2>1, <2>2 DEF Credits, Window
<1>12. Ends
  BY <1>3 DEF Ends, Streams, NoEnd, Frame
<1>13. NoRejection
  BY DEF NoRejection
<1>14. QED
  BY <1>1, <1>6, <1>7, <1>8, <1>9, <1>10, <1>11, <1>12, <1>13 DEF IInv

LEMMA ExcuseKept ==
  ASSUME WorkerStep, Excused
  PROVE  Excused'
<1>1. CASE relabelled # {}
  BY <1>1, RelabelledGrows DEF Excused
<1>2. CASE ~opened /\ loop = "close" /\ wFailure # "none"
  <2>1. ~opened' /\ loop' = "close" /\ wFailure' # "none"
    BY <1>2 DEF WorkerStep, LoopIdle, EofRead, OpenRead, CloseRead, CreditRead, ControlRead, Reads,
         OpenNative, LoopBus, LoopAck, ControlRequested, ThreadEnds, ResumeIpc, SendCheck, Setup,
         PlayAccepted, PauseAccepted, NativeFailure, Expire, SendData, MediaIpcData, Writer,
         EndOfStream, CloseNative, Crash, workerVars, openVars, loopVars
  <2>2. QED
    BY <2>1 DEF Excused
<1>3. QED
  BY <1>1, <1>2 DEF Excused

LEMMA NextLink ==
  ASSUME LinkAssumption, IInv, [Next]_vars
  PROVE  IInv'
<1>1. CloseInv'
  BY NextClose DEF IInv
<1>2. CASE SessionNext /\ UNCHANGED workerVars
  <2>1. SessionStep /\ (failure' = "protocol" => Excused)
    BY <1>2, SessionCases
  <2>2. NoRejection'
    BY <1>2, <2>1, WorkerSame DEF IInv, NoRejection, Excused
  <2>3. Opening' /\ Numbers' /\ NeverOpened'
    BY <1>2, <2>1, SessionOpening, SessionNumbers, SessionNeverOpened
  <2>4. CommandsFit' /\ AnswersFit' /\ Controls'
    BY <1>2, <2>1, SessionCommandsFit, SessionAnswersFit, SessionControls
  <2>5. UnitsFit' /\ UnitsKept' /\ Credits' /\ Ends'
    BY <1>1, <1>2, <2>1, SessionUnitsFit, SessionUnitsKept, SessionCredits, SessionEnds
  <2>6. QED
    BY <1>1, <2>2, <2>3, <2>4, <2>5 DEF IInv
<1>3. CASE WorkerNext /\ UNCHANGED sessionVars
  <2>1. WorkerStep /\ wFailure' # "protocol"
    BY <1>3, WorkerCases
  <2>2. Excused => Excused'
    BY <2>1, ExcuseKept
  <2>3. NoRejection'
    BY <1>3, <2>1, <2>2, SessionSame DEF IInv, NoRejection
  <2>4. Opening' /\ Numbers' /\ NeverOpened'
    BY <1>3, <2>1, WorkerOpening, WorkerNumbers, WorkerNeverOpened
  <2>5. CommandsFit' /\ AnswersFit' /\ Controls'
    BY <1>3, <2>1, WorkerCommandsFit, WorkerAnswersFit, WorkerControls
  <2>6. UnitsFit' /\ UnitsKept' /\ Credits' /\ Ends'
    BY <1>1, <1>3, <2>1, WorkerUnitsFit, WorkerUnitsKept, WorkerCredits, WorkerEnds
  <2>7. QED
    BY <1>1, <2>3, <2>4, <2>5, <2>6 DEF IInv
<1>4. CASE UNCHANGED vars
  <2>1. UNCHANGED pipes /\ UNCHANGED sessionVars /\ UNCHANGED workerVars
    BY <1>4 DEF vars
  <2>2. /\ UNCHANGED <<commands, control, data, secrets, exit>>
        /\ UNCHANGED <<state, generation, expectedGeneration, openSent, commandSequence,
                       closeSequence, dataSequence, pending, abandoned, ending, staged, held>>
        /\ UNCHANGED <<creditUnits, outstandingUnits, failure, receipt, timer, result>>
    BY <2>1, SessionSame DEF pipes
  <2>3. /\ UNCHANGED <<accepting, resuming, passed, sending, frames, credits, wSequence, eos,
                       streamEnded, relabelled, opened, pipeline, pendingGeneration,
                       pendingControl, controlReady, thread>>
        /\ UNCHANGED <<paused, loop, done, closeRequest, setupSent, rtsp, server, wGeneration,
                       wRequest, ready, readySent, wFailure>>
    BY <2>1, WorkerSame
  <2>4. (Opening /\ Numbers /\ NeverOpened /\ NoRejection)'
    BY <2>2, <2>3 DEF IInv, Opening, Numbers, NeverOpened, NoRejection, Excused, Playing, Idle,
                     Open
  <2>5. (CommandsFit /\ AnswersFit)'
    BY <2>2, <2>3 DEF IInv, CommandsFit, AnswersFit, Open
  <2>6. Controls'
    BY <2>2, <2>3
       DEF IInv, Controls, Over, ControlAgreed, ControlSent, ReceiptSent, Asked, Idle, NoneSent,
           NoneAnswered, WorkerFree, Sent, Taken, Accepted, Answered, Playing
  <2>7. (UnitsFit /\ UnitsKept)'
    BY <2>2, <2>3 DEF IInv, UnitsFit, UnitsKept, Idle, Open
  <2>8. Credits'
    BY <2>2, <2>3 DEF IInv, Credits, Window, Granted, Open
  <2>9. Ends'
    BY <2>2, <2>3 DEF IInv, Ends, Streams, EndHolds, Idle
  <2>10. QED
    BY <1>1, <2>4, <2>5, <2>6, <2>7, <2>8, <2>9 DEF IInv
<1>5. QED
  BY <1>2, <1>3, <1>4 DEF Next

-----------------------------------------------------------------------------
\* The traffic of the link (session.ts, worker.c, ipc.c): in every reachable
\* state, whatever the faults, the two sides agree on the opening, the numbers,
\* the control under way, the units and the credits, and on the ends of the
\* generations but those that worker.c gave to the END of an older one.
THEOREM LinkInvariant == Spec => []IInv
<1>1. Init => IInv
  BY InitLink, LinkAssumption
<1>2. IInv /\ [Next]_vars => IInv'
  BY NextLink, LinkAssumption
<1>3. QED
  BY <1>1, <1>2, PTL DEF Spec

\* media_fail() of the command loop in worker.c is never reached, and
\* failProtocol() in session.ts only after an END was labelled with a newer
\* generation or from a worker that failed before it had read OPEN: whatever
\* the order in which the pipes are read, the correlation, generation, sequence
\* and credit tests of each side accept what the other one sends.
THEOREM NothingRejected == Spec => []NoProtocolFailure
<1>1. IInv => NoProtocolFailure
  BY DEF IInv, NoRejection, Excused, NoProtocolFailure
<1>2. QED
  BY <1>1, LinkInvariant, PTL

\* flushCredits(), data() and media_ipc_credit(): no credit is lost or made
\* between the worker's queue, the pipes, the session and its consumers.
THEOREM CreditsConserved == Spec => []CreditConserved
<1>1. IInv => CreditConserved
  BY DEF IInv, Credits, Window, CreditConserved
<1>2. QED
  BY <1>1, LinkInvariant, PTL

\* data(), control() and finishGeneration() in session.ts, after_response() and
\* send_data() in worker.c: no unit crosses a control boundary, nothing of a
\* generation follows its END unless that generation was given to the END of an
\* older one, and session and worker agree on the generation.
THEOREM GenerationsApart == Spec => []GenerationsSeparate
<1>1. ASSUME IInv PROVE NoStaleDelivery
  BY <1>1 DEF IInv, UnitsKept, NoStaleDelivery
<1>2. ASSUME IInv PROVE EndIsFinal
  <2> SUFFICES ASSUME Open, ending.complete
               PROVE  /\ ending.gen = generation
                      /\ ending.gen \notin relabelled =>
                           \A u \in Units(frames) \cup Units(data) : u.gen # ending.gen
    BY DEF EndIsFinal
  <2>1. /\ ending # NoEnd /\ ending.gen = generation /\ EndHolds(ending.gen, ending.watermark)
        /\ ending.gen \notin relabelled => dataSequence = ending.watermark
    BY <1>1, <1>2 DEF IInv, Ends, NoEnd
  <2>2. ASSUME ending.gen \notin relabelled, NEW u \in Units(frames) \cup Units(data)
        PROVE  u.gen # ending.gen
    <3>1. dataSequence < u.seq
      BY <1>2, <2>2 DEF IInv, UnitsFit
    <3>2. ending.gen < u.gen
      BY <2>1, <2>2, <3>1 DEF EndHolds
    <3>3. ending.gen \in Nat
      BY <1>2 DEF IInv, CloseInv, LinkTypeOK, ClosingTypeOK
    <3>4. QED
      BY <3>2, <3>3
  <2>3. QED
    BY <2>1, <2>2
<1>3. ASSUME IInv PROVE StateAcknowledged
  <2> SUFFICES ASSUME Playing
               PROVE  /\ generation <= wGeneration
                      /\ Idle => /\ generation = wGeneration
                                 /\ (state = "paused") = paused
                                 /\ pendingControl = "none" /\ controlReady = "none" /\ thread = "none"
    BY DEF StateAcknowledged, Playing
  <2>1. generation <= wGeneration
    BY <1>3 DEF IInv, Numbers
  <2>2. ASSUME Idle
        PROVE  /\ generation = wGeneration /\ paused = (state = "paused")
               /\ pendingControl = "none" /\ controlReady = "none" /\ thread = "none"
    <3>1. Open /\ state # "closed"
      BY DEF Playing, Open
    <3>2. Asked = NoControl
      BY <1>3, <2>2, <3>1 DEF IInv, CloseInv, Settled, Asked
    <3>3. QED
      BY <1>3, <3>1, <3>2, ControlHeld DEF WorkerFree
  <2>3. QED
    BY <2>1, <2>2
<1>4. IInv => GenerationsSeparate
  BY <1>1, <1>2, <1>3 DEF GenerationsSeparate
<1>5. QED
  BY <1>4, LinkInvariant, PTL

=============================================================================
