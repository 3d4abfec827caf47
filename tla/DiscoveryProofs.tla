--------------------------- MODULE DiscoveryProofs ---------------------------
(***************************************************************************)
(* The inventory of the discovery engine for every number of SequenceIds,  *)
(* messages, changes, crashes and inspections, and for every scenario:     *)
(* the snapshot on disk never falls behind what was counted as saved and   *)
(* never goes back, a quarantine is never lifted, and its own inspection   *)
(* never verifies a device as older than it was announced.  Then which     *)
(* datagrams are believed: reads go only where the device was told, or     *)
(* answered as a seed, and where it is allowed.                            *)
(***************************************************************************)
EXTENDS DiscoveryEngine, FiniteSetTheorems, TLAPS

-----------------------------------------------------------------------------
States == {"candidate", "verified", "suspect", "stale", "departed", "conflict"}
Mark == [number : Nat, bye : BOOLEAN]
DeviceSet ==
  [state : States, identityConflict : BOOLEAN, instance : Nat, seqs : [Sids -> Mark],
   version : Nat, info : Nat, by : {"none"} \cup Key]
Devices == DeviceSet \cup {NoDevice}
ReportSet == [kind : {"none", "full", "denied", "conflict", "timeout"}, change : Nat]
JobSet ==
  [stage : {"none", "queued", "inspecting", "reported", "persisting"},
   fenced : {"no", "news", "departure", "seed"}, requeue : BOOLEAN, report : ReportSet]
ContentSet == [dev : Devices, seed : BOOLEAN]

DiscoveryTypeOK ==
  /\ life \in {"starting", "running", "closing", "flushing", "unflushed", "closed", "failed"}
  /\ boot \in {"loading", "opening", "saving", "done", "failed", "unread"}
  /\ dev \in Devices /\ seed \in BOOLEAN
  /\ jobs \in [Key -> JobSet] /\ queue \in Seq(Key)
  /\ unsaved \in BOOLEAN /\ moved \in BOOLEAN /\ saving \in {"none", "writing", "settled"}
  /\ snap \in ContentSet /\ durable \in ContentSet
  /\ crashes \in Nat

\* How far the engine is: before its segments are open nothing is inspected, and
\* when it flushes no inspection is left.
NoWork == jobs = [k \in Key |-> NoJob] /\ queue = << >>
Phases ==
  /\ life = "starting" => boot \in {"loading", "opening"}
  /\ life = "running" => boot \in {"saving", "done"}
  /\ life \in {"flushing", "unflushed", "closed", "failed"} =>
       boot \in {"done", "failed", "unread"} /\ \A k \in Key : jobs[k].stage = "none"
  /\ boot \in {"loading", "opening", "unread"} => NoWork
  /\ boot = "loading" => dev = NoDevice /\ saving = "none" /\ unsaved

\* persist(): what is being written is the inventory unless it has moved, and
\* what counts as saved is on the disk.
Saves ==
  /\ saving = "writing" => unsaved /\ (~moved => snap = Content)
  /\ ~unsaved => durable = Content
  /\ life = "flushing" /\ saving # "writing" => ~unsaved
  /\ life = "closed" => ~unsaved

\* The record b of the device has forgotten nothing of a.
Kept(a, b) ==
  a # NoDevice =>
    /\ b # NoDevice /\ a.instance <= b.instance /\ a.version <= b.version
    /\ a.instance = b.instance => \A s \in Sids : a.seqs[s].number <= b.seqs[s].number
    /\ a.identityConflict => b.identityConflict

\* Disk, snapshot and memory, each at least what the one before is.  A file that
\* could not be read is not written.
Ascending ==
  /\ boot \notin {"loading", "unread"} => Kept(durable.dev, dev)
  /\ boot # "unread" /\ saving = "writing" => Kept(durable.dev, snap.dev) /\ Kept(snap.dev, dev)

\* The changes of the device are numbered by what it announces.
Points ==
  /\ points \in Seq([instance : Nat, version : Nat]) /\ Len(points) > 0
  /\ points[Len(points)].instance >= 1
  /\ points[Len(points)].instance + points[Len(points)].version = Len(points) + 1
  /\ \A c \in 1..Len(points) : /\ points[c].instance <= points[Len(points)].instance
                               /\ points[c].version <= points[Len(points)].version

\* A record of the device never exceeds what the device has announced, stays in
\* conflict when it is quarantined, and is verified only as of its last news.
Sound(d) ==
  d # NoDevice =>
    /\ d.identityConflict => d.state = "conflict"
    /\ d.instance <= points[Len(points)].instance /\ d.version <= points[Len(points)].version
    /\ d.state = "verified" /\ d.by = "device" => d.info >= Told(d)
Records == Sound(dev) /\ Sound(durable.dev) /\ Sound(snap.dev)

\* The jobs that wait are the ones in the queue, each once.
Waiting(w) ==
  /\ \A i \in 1..Len(w.queue) : w.jobs[w.queue[i]].stage = "queued"
  /\ \A i, j \in 1..Len(w.queue) : w.queue[i] = w.queue[j] => i = j

\* A device that is inspected is known; a report that is not fenced is as new as
\* the device's news; and news of the device puts its inspection in line again.
Inspections ==
  /\ Waiting(Work)
  /\ jobs["device"].stage # "none" => dev # NoDevice
  /\ \A k \in Key : jobs[k].report.kind # "none" => jobs[k].stage = "reported"
  /\ jobs["device"].report.kind = "full" /\ jobs["device"].fenced = "no" =>
       jobs["device"].report.change >= Told(dev)
  /\ SupersededRequeued

\* The inductive invariant.
IInv == /\ DiscoveryTypeOK /\ Phases /\ Saves /\ Ascending /\ Points /\ Records /\ Inspections

-----------------------------------------------------------------------------
LEMMA TwoMax ==
  ASSUME NEW a \in Int, NEW b \in Int
  PROVE  Max({a, b}) = IF a >= b THEN a ELSE b
<1>1. \E x \in {a, b} : \A y \in {a, b} : x >= y
  OBVIOUS
<1>2. Max({a, b}) \in {a, b} /\ \A y \in {a, b} : Max({a, b}) >= y
  BY <1>1 DEF Max
<1>3. QED
  BY <1>2

LEMMA TwoMin ==
  ASSUME NEW a \in Int, NEW b \in Int
  PROVE  Min({a, b}) = IF a <= b THEN a ELSE b
<1>1. \E x \in {a, b} : \A y \in {a, b} : x <= y
  OBVIOUS
<1>2. Min({a, b}) \in {a, b} /\ \A y \in {a, b} : Min({a, b}) <= y
  BY <1>1 DEF Min
<1>3. QED
  BY <1>2

LEMMA Element ==
  ASSUME NEW S, NEW s \in Seq(S), NEW i \in 1..Len(s)
  PROVE  s[i] \in S
  OBVIOUS

LEMMA Product ==
  ASSUME NEW a \in Nat, NEW b \in Nat
  PROVE  a * b \in Nat
  OBVIOUS

LEMMA DeviceTypes ==
  ASSUME NEW d \in Devices
  PROVE  /\ d \in DeviceSet <=> d # NoDevice
         /\ d \in DeviceSet =>
              /\ d.state \in States /\ d.identityConflict \in BOOLEAN /\ d.instance \in Nat
              /\ d.seqs \in [Sids -> Mark] /\ d.version \in Nat /\ d.info \in Nat
              /\ d.by \in {"none"} \cup Key /\ Told(d) \in Int
              /\ \A s \in Sids : d.seqs[s] \in Mark /\ d.seqs[s].number \in Nat
<1>1. d \in DeviceSet => d # NoDevice
  <2>1. NoDevice.state = "none"
    BY DEF NoDevice
  <2>2. d \in DeviceSet => d.state \in States
    BY DEF DeviceSet
  <2>3. QED
    BY <2>1, <2>2 DEF States
<1>2. d \in DeviceSet =>
        /\ d.state \in States /\ d.identityConflict \in BOOLEAN /\ d.instance \in Nat
        /\ d.seqs \in [Sids -> Mark] /\ d.version \in Nat /\ d.info \in Nat
        /\ d.by \in {"none"} \cup Key
  BY DEF DeviceSet
<1>3. d \in DeviceSet => \A s \in Sids : d.seqs[s] \in Mark /\ d.seqs[s].number \in Nat
  BY <1>2 DEF Mark
<1>4. QED
  BY <1>1, <1>2, <1>3 DEF Devices, Told

LEMMA NewDeviceType == NewDevice \in DeviceSet /\ NewDevice \in Devices
<1>1. [s \in Sids |-> NoMark] \in [Sids -> Mark]
  BY DEF NoMark, Mark
<1>2. QED
  BY <1>1 DEF NewDevice, DeviceSet, Devices, States

LEMMA KeptItself ==
  ASSUME NEW d \in Devices
  PROVE  Kept(d, d)
  BY DeviceTypes DEF Kept

LEMMA KeptAgain ==
  ASSUME NEW a \in Devices, NEW b \in Devices, NEW c \in Devices, Kept(a, b), Kept(b, c)
  PROVE  Kept(a, c)
<1> SUFFICES ASSUME a # NoDevice PROVE Kept(a, c)
  BY DEF Kept
<1>1. b # NoDevice /\ c # NoDevice /\ a \in DeviceSet /\ b \in DeviceSet /\ c \in DeviceSet
  BY DeviceTypes DEF Kept
<1>2. /\ a.instance \in Nat /\ b.instance \in Nat /\ c.instance \in Nat
      /\ a.version \in Nat /\ b.version \in Nat /\ c.version \in Nat
      /\ a.instance <= b.instance /\ b.instance <= c.instance
      /\ a.version <= b.version /\ b.version <= c.version
      /\ a.identityConflict => b.identityConflict
      /\ b.identityConflict => c.identityConflict
  BY <1>1, DeviceTypes DEF Kept
<1>3. ASSUME a.instance = c.instance, NEW s \in Sids
      PROVE  a.seqs[s].number <= c.seqs[s].number
  <2>1. a.instance = b.instance /\ b.instance = c.instance
    BY <1>2, <1>3
  <2>2. a.seqs[s].number <= b.seqs[s].number /\ b.seqs[s].number <= c.seqs[s].number
    BY <1>1, <2>1 DEF Kept
  <2>3. a.seqs[s].number \in Nat /\ b.seqs[s].number \in Nat /\ c.seqs[s].number \in Nat
    BY <1>1, DeviceTypes
  <2>4. QED
    BY <2>2, <2>3
<1>4. QED
  BY <1>1, <1>2, <1>3 DEF Kept

\* What the device multicasts: numbers, and what it was at one of its changes.
LEMMA MessageTypes ==
  ASSUME Points, NEW m \in Message
  PROVE  /\ m.kind \in {"Hello", "Bye"} /\ m.number \in Nat /\ m.instance \in Nat /\ m.version \in Nat
         /\ m.instance <= points[Len(points)].instance /\ m.version <= points[Len(points)].version
<1>1. ASSUME NEW c \in DOMAIN points
      PROVE  /\ c \in Nat \ {0} /\ points[c].instance \in Nat /\ points[c].version \in Nat
             /\ points[c].instance <= points[Len(points)].instance
             /\ points[c].version <= points[Len(points)].version
             /\ points[Len(points)].instance \in Nat
  <2>1. points \in Seq([instance : Nat, version : Nat]) /\ Len(points) \in 1..Len(points)
    BY DEF Points
  <2>2. c \in 1..Len(points)
    BY <1>1, <2>1
  <2>3. points[c] \in [instance : Nat, version : Nat] /\ points[Len(points)] \in [instance : Nat, version : Nat]
    BY <2>1, <2>2, Element
  <2>4. QED
    BY <2>1, <2>2, <2>3 DEF Points
<1>2. ASSUME NEW kind \in {"Hello", "Bye"}, NEW sid \in UsedSids, NEW n \in 1..PerPoint, NEW c \in DOMAIN points,
             m = [kind |-> kind, sid |-> sid, number |-> PerPoint * (c - 1) + n,
                  instance |-> points[c].instance, version |-> points[c].version]
      PROVE  /\ m.kind \in {"Hello", "Bye"} /\ m.number \in Nat /\ m.instance \in Nat /\ m.version \in Nat
             /\ m.instance <= points[Len(points)].instance /\ m.version <= points[Len(points)].version
  <2>1. PerPoint \in Nat /\ c - 1 \in Nat
    BY <1>1, DiscoveryAssumption DEF DiscoveryAssumption
  <2>2. PerPoint * (c - 1) \in Nat
    BY <2>1, Product
  <2>3. PerPoint * (c - 1) + n \in Nat
    BY <2>1, <2>2
  <2>4. QED
    BY <1>1, <1>2, <2>3
<1>3. ASSUME NEW kind \in {"Hello", "Bye"}, NEW sid, NEW c \in DOMAIN points,
             m = [kind |-> kind, sid |-> sid, number |-> 0, instance |-> 0, version |-> points[c].version]
      PROVE  /\ m.kind \in {"Hello", "Bye"} /\ m.number \in Nat /\ m.instance \in Nat /\ m.version \in Nat
             /\ m.instance <= points[Len(points)].instance /\ m.version <= points[Len(points)].version
  BY <1>1, <1>3
<1>4. QED
  BY <1>2, <1>3 DEF Message

\* order(): the epoch, the watermark of the sequence, and the presence.
LEMMA EpochKeeps ==
  ASSUME NEW d \in DeviceSet, NEW m, m.instance \in Nat, m.instance >= d.instance
  PROVE  /\ Epoch(d, m) \in DeviceSet /\ Epoch(d, m).instance = m.instance
         /\ Epoch(d, m).version = d.version /\ Epoch(d, m).identityConflict = d.identityConflict
         /\ Epoch(d, m).info = d.info /\ Epoch(d, m).by = d.by
         /\ d.state = "conflict" => Epoch(d, m).state = "conflict"
         /\ Newer(d, m) => Epoch(d, m).state \in {"conflict", "candidate"}
         /\ ~Newer(d, m) => Epoch(d, m) = d
<1>1. d \in Devices
  BY DEF Devices
<1>2. /\ d.state \in States /\ d.identityConflict \in BOOLEAN /\ d.instance \in Nat
      /\ d.seqs \in [Sids -> Mark] /\ d.version \in Nat /\ d.info \in Nat
      /\ d.by \in {"none"} \cup Key
  BY <1>1, DeviceTypes
<1>3. CASE ~Newer(d, m)
  BY <1>2, <1>3 DEF Epoch, Newer
<1>4. CASE Newer(d, m)
  <2> DEFINE fresh == [s \in Sids |-> NoMark]
  <2>1. fresh \in [Sids -> Mark]
    BY DEF NoMark, Mark
  <2>2. Epoch(d, m) = [d EXCEPT !.instance = m.instance, !.seqs = fresh,
                          !.state = IF @ = "conflict" THEN @ ELSE "candidate"]
    BY <1>4 DEF Epoch
  <2> HIDE DEF fresh
  <2>3. QED
    BY <1>2, <1>4, <2>1, <2>2 DEF DeviceSet, States
<1>5. QED
  BY <1>3, <1>4

Ordered(d, o, m) ==
  /\ o \in DeviceSet /\ Kept(d, o)
  /\ o.instance = m.instance /\ o.version = d.version /\ o.identityConflict = d.identityConflict
  /\ o.info = d.info /\ o.by = d.by
  /\ d.state = "conflict" => o.state = "conflict"
  /\ Newer(d, m) => o.state \in {"conflict", "candidate"}
  /\ ~Newer(d, m) => d.instance = m.instance /\ o.state \in {d.state, "conflict"}

LEMMA SequencedOrderKeeps ==
  ASSUME NEW d \in DeviceSet, NEW m, m.instance \in Nat, m.number \in Nat, m.kind \in {"Hello", "Bye"},
         Accepts(d, m), ~Unsequenced(m)
  PROVE  Ordered(d, Order(d, m), m)
<1> DEFINE e == Epoch(d, m)
           o == Order(d, m)
<1>1. m.instance >= d.instance /\ m.number > e.seqs[m.sid].number
  BY DEF Accepts
<1>2. /\ e \in DeviceSet /\ e.instance = m.instance
      /\ e.version = d.version /\ e.identityConflict = d.identityConflict
      /\ e.info = d.info /\ e.by = d.by
      /\ d.state = "conflict" => e.state = "conflict"
      /\ Newer(d, m) => e.state \in {"conflict", "candidate"}
      /\ ~Newer(d, m) => e = d
  BY <1>1, EpochKeeps
<1>3. d \in Devices /\ e \in Devices
  BY <1>2 DEF Devices
<1>4. PICK c \in BOOLEAN : o = [e EXCEPT !.state = IF c THEN "conflict" ELSE @,
                           !.seqs[m.sid] = [number |-> m.number, bye |-> m.kind = "Bye"]]
  BY DEF Order
<1> HIDE DEF e, o
<1>5. /\ e.state \in States /\ e.identityConflict \in BOOLEAN /\ e.instance \in Nat
      /\ e.seqs \in [Sids -> Mark] /\ e.version \in Nat /\ e.info \in Nat
      /\ e.by \in {"none"} \cup Key /\ d.instance \in Nat /\ d.version \in Nat
  BY <1>2, <1>3, DeviceTypes
<1>6. [number |-> m.number, bye |-> m.kind = "Bye"] \in Mark
  BY DEF Mark
<1>7. /\ o.state = IF c THEN "conflict" ELSE e.state
      /\ o.identityConflict = e.identityConflict /\ o.instance = e.instance
      /\ o.version = e.version /\ o.info = e.info /\ o.by = e.by
      /\ o.seqs = [e.seqs EXCEPT ![m.sid] = [number |-> m.number, bye |-> m.kind = "Bye"]]
  BY <1>2, <1>4 DEF DeviceSet
<1>8. o.seqs \in [Sids -> Mark]
  BY <1>5, <1>6, <1>7
<1>9. o \in DeviceSet
  BY <1>2, <1>4, <1>5, <1>6 DEF DeviceSet, States
<1>10. ASSUME d.instance = o.instance, NEW s \in Sids
       PROVE  d.seqs[s].number <= o.seqs[s].number
  <2>1. e = d
    BY <1>2, <1>5, <1>7, <1>10 DEF Newer
  <2>2. CASE s = m.sid
    <3>1. o.seqs[s].number = m.number
      BY <1>5, <1>7, <2>2
    <3>2. d.seqs[s].number \in Nat /\ m.number > d.seqs[s].number
      BY <1>1, <1>3, <2>1, <2>2, DeviceTypes
    <3>3. QED
      BY <3>1, <3>2
  <2>3. CASE s # m.sid
    <3>1. o.seqs[s] = d.seqs[s]
      BY <1>5, <1>7, <2>1, <2>3
    <3>2. d.seqs[s].number \in Nat
      BY <1>3, DeviceTypes
    <3>3. QED
      BY <3>1, <3>2
  <2>4. QED
    BY <2>2, <2>3
<1>11. Kept(d, o)
  <2>1. o # NoDevice
    BY <1>9, DeviceTypes DEF Devices
  <2>2. QED
    BY <1>1, <1>2, <1>5, <1>7, <1>10, <2>1 DEF Kept
<1>12. ~Newer(d, m) => d.instance = m.instance
  BY <1>1, <1>5 DEF Newer
<1>13. QED
  BY <1>2, <1>7, <1>9, <1>11, <1>12 DEF o, Ordered

\* A message without an AppSequence orders nothing.
LEMMA OrderKeeps ==
  ASSUME NEW d \in DeviceSet, NEW m, m.instance \in Nat, m.number \in Nat, m.kind \in {"Hello", "Bye"},
         Accepts(d, m)
  PROVE  Ordered(d, Order(d, m), m)
<1>1. CASE Unsequenced(m)
  <2>1. d \in Devices
    BY DEF Devices
  <2>2. Order(d, m) = d /\ d.instance = m.instance
    BY <1>1 DEF Order, Accepts, Unsequenced
  <2>3. ~Newer(d, m)
    BY <2>1, <2>2, DeviceTypes DEF Newer
  <2>4. QED
    BY <2>1, <2>2, <2>3, KeptItself DEF Ordered
<1>2. CASE ~Unsequenced(m)
  BY <1>2, SequencedOrderKeeps
<1>3. QED
  BY <1>1, <1>2

\* observe(): a message that brings news leaves no device verified, and one that
\* brings none leaves instance and version as they are.
LEMMA MergeKeeps ==
  ASSUME NEW d \in DeviceSet, NEW m, m.version \in Nat, m.kind \in {"Hello", "Bye"}
  PROVE  /\ Merge(d, m) \in DeviceSet /\ Kept(d, Merge(d, m))
         /\ Merge(d, m).instance = d.instance /\ Merge(d, m).version \in {d.version, m.version}
         /\ Merge(d, m).identityConflict = d.identityConflict
         /\ Merge(d, m).info = d.info /\ Merge(d, m).by = d.by
         /\ d.state = "conflict" => Merge(d, m).state = "conflict"
         /\ Merge(d, m).state = "verified" => d.state = "verified" /\ ~Changes(d, m)
         /\ ~Changes(d, m) => Merge(d, m).version = d.version
<1> DEFINE v == Max({d.version, m.version})
           x == Merge(d, m)
<1>1. d \in Devices
  BY DEF Devices
<1>2. /\ d.state \in States /\ d.identityConflict \in BOOLEAN /\ d.instance \in Nat
      /\ d.seqs \in [Sids -> Mark] /\ d.version \in Nat /\ d.info \in Nat
      /\ d.by \in {"none"} \cup Key
  BY <1>1, DeviceTypes
<1>3. v \in {d.version, m.version} /\ v \in Nat /\ d.version <= v
      /\ (~Changes(d, m) => v = d.version)
  BY <1>2, TwoMax DEF Changes
<1>4. \E s \in States :
        /\ x = [d EXCEPT !.version = v, !.state = s]
        /\ d.state = "conflict" => s = "conflict"
        /\ s = "verified" => d.state = "verified" /\ ~Changes(d, m)
  <2> DEFINE kept == [d EXCEPT !.version = v]
             s == IF m.kind = "Bye" THEN (IF d.state = "conflict" THEN d.state ELSE "suspect")
                  ELSE IF d.state = "departed" THEN "candidate" ELSE d.state
             merged == [kept EXCEPT !.state = s]
  <2>1. s \in States /\ kept.state = d.state /\ merged.state = s
    BY <1>2 DEF States, DeviceSet
  <2>2. x = IF Changes(d, m) /\ merged.state = "verified" THEN [merged EXCEPT !.state = "candidate"] ELSE merged
    BY <1>2, <2>1 DEF Merge, MergeWith
  <2>3. CASE Changes(d, m) /\ s = "verified"
    <3>1. x = [d EXCEPT !.version = v, !.state = "candidate"]
      BY <2>1, <2>2, <2>3
    <3>2. d.state # "conflict" /\ "candidate" \in States
      BY <2>3 DEF States
    <3>3. QED
      BY <3>1, <3>2
  <2>4. CASE ~(Changes(d, m) /\ s = "verified")
    <3>1. x = [d EXCEPT !.version = v, !.state = s]
      BY <2>1, <2>2, <2>4
    <3>2. QED
      BY <2>1, <2>4, <3>1
  <2>5. QED
    BY <2>3, <2>4
<1> HIDE DEF v, x
<1>5. PICK s \in States : /\ x = [d EXCEPT !.version = v, !.state = s]
                          /\ d.state = "conflict" => s = "conflict"
                          /\ s = "verified" => d.state = "verified" /\ ~Changes(d, m)
  BY <1>4
<1>6. /\ x \in DeviceSet /\ x.state = s /\ x.version = v /\ x.instance = d.instance
      /\ x.identityConflict = d.identityConflict /\ x.info = d.info /\ x.by = d.by /\ x.seqs = d.seqs
  BY <1>2, <1>3, <1>5 DEF DeviceSet
<1>7. Kept(d, x)
  <2>1. x # NoDevice /\ \A t \in Sids : d.seqs[t].number \in Nat
    BY <1>1, <1>6, DeviceTypes DEF Devices
  <2>2. QED
    BY <1>2, <1>3, <1>6, <2>1 DEF Kept
<1>8. QED
  BY <1>3, <1>5, <1>6, <1>7 DEF x

\* commitInspection() and reconcile(): neither changes what the device announced,
\* nor lifts a quarantine; a verdict is no older than its report.
LEMMA CommitKeeps ==
  ASSUME NEW d \in DeviceSet, NEW r \in ReportSet, NEW k \in Key, ~d.identityConflict
  PROVE  /\ CommitInspection(d, r, k) \in DeviceSet /\ Kept(d, CommitInspection(d, r, k))
         /\ CommitInspection(d, r, k).instance = d.instance
         /\ CommitInspection(d, r, k).version = d.version
         /\ CommitInspection(d, r, k).identityConflict => CommitInspection(d, r, k).state = "conflict"
         /\ \/ CommitInspection(d, r, k) = d
            \/ CommitInspection(d, r, k).state = "conflict"
            \/ /\ r.kind = "full" /\ CommitInspection(d, r, k).info = r.change
               /\ CommitInspection(d, r, k).by = k
<1> DEFINE x == CommitInspection(d, r, k)
<1>1. d \in Devices /\ r.change \in Nat /\ k \in {"none"} \cup Key
  BY DEF Devices, ReportSet
<1>2. /\ d.state \in States /\ d.identityConflict \in BOOLEAN /\ d.instance \in Nat
      /\ d.seqs \in [Sids -> Mark] /\ d.version \in Nat /\ d.info \in Nat
      /\ d.by \in {"none"} \cup Key
  BY <1>1, DeviceTypes
<1>3. ASSUME NEW y \in DeviceSet, y.instance = d.instance, y.version = d.version, y.seqs = d.seqs
      PROVE  Kept(d, y)
  <2>1. y # NoDevice /\ \A t \in Sids : d.seqs[t].number \in Nat
    BY <1>1, DeviceTypes DEF Devices
  <2>2. QED
    BY <1>2, <1>3, <2>1 DEF Kept
<1>4. CASE r.kind = "conflict"
  <2>1. x = [d EXCEPT !.state = "conflict", !.identityConflict = TRUE]
    BY <1>4 DEF CommitInspection
  <2> HIDE DEF x
  <2>2. /\ x \in DeviceSet /\ x.state = "conflict" /\ x.instance = d.instance
        /\ x.version = d.version /\ x.seqs = d.seqs
    BY <1>2, <2>1 DEF DeviceSet, States
  <2>3. QED
    BY <1>3, <2>2 DEF x
<1>5. CASE r.kind = "full"
  <2>1. x = [d EXCEPT !.info = r.change, !.by = k, !.state = "verified"]
    BY <1>5 DEF CommitInspection
  <2> HIDE DEF x
  <2>2. /\ x \in DeviceSet /\ x.info = r.change /\ x.by = k /\ x.instance = d.instance
        /\ x.version = d.version /\ x.seqs = d.seqs /\ x.identityConflict = d.identityConflict
    BY <1>1, <1>2, <2>1 DEF DeviceSet, States
  <2>3. QED
    BY <1>3, <1>5, <2>2 DEF x
<1>6. CASE r.kind \notin {"conflict", "full"}
  <2>1. x = d
    BY <1>6 DEF CommitInspection
  <2> HIDE DEF x
  <2>2. QED
    BY <1>3, <2>1 DEF x
<1>7. QED
  BY <1>4, <1>5, <1>6

LEMMA ReconciledKeeps ==
  ASSUME NEW d \in Devices, NEW x \in Reconciled(d)
  PROVE  /\ x \in Devices /\ Kept(d, x) /\ (x = NoDevice <=> d = NoDevice)
         /\ d # NoDevice =>
              /\ x.instance = d.instance /\ x.version = d.version
              /\ x.identityConflict = d.identityConflict /\ x.info = d.info /\ x.by = d.by
              /\ x.state \in {d.state, "stale", "departed"}
              /\ d.state = "conflict" => x.state = "conflict"
<1>1. CASE x = d
  BY <1>1, KeptItself
<1>2. CASE x # d
  <2>1. /\ d # NoDevice /\ d.state \notin {"conflict", "departed"}
        /\ \E s \in {"stale", "departed"} : x = [d EXCEPT !.state = s]
    <3>1. d # NoDevice /\ d.state \notin {"conflict", "departed"}
      BY <1>2 DEF Reconciled
    <3>2. d \in DeviceSet
      BY <3>1 DEF Devices
    <3>3. d = [d EXCEPT !.state = d.state]
      BY <3>2 DEF DeviceSet
    <3>4. PICK s \in {d.state, "stale", "departed"} : x = [d EXCEPT !.state = s]
      BY <3>1 DEF Reconciled
    <3>5. QED
      BY <1>2, <3>1, <3>3, <3>4
  <2>2. PICK s \in {"stale", "departed"} : x = [d EXCEPT !.state = s]
    BY <2>1
  <2>3. d \in DeviceSet
    BY <2>1 DEF Devices
  <2>4. /\ d.state \in States /\ d.identityConflict \in BOOLEAN /\ d.instance \in Nat
        /\ d.seqs \in [Sids -> Mark] /\ d.version \in Nat /\ d.info \in Nat
        /\ d.by \in {"none"} \cup Key
    BY <2>3, DeviceTypes
  <2>5. /\ x \in DeviceSet /\ x.state = s /\ x.version = d.version /\ x.instance = d.instance
        /\ x.identityConflict = d.identityConflict /\ x.info = d.info /\ x.by = d.by /\ x.seqs = d.seqs
    BY <2>2, <2>3, <2>4 DEF DeviceSet, States
  <2>6. x \in Devices /\ x # NoDevice
    BY <2>5, DeviceTypes DEF Devices
  <2>7. Kept(d, x)
    <3>1. \A t \in Sids : d.seqs[t].number \in Nat
      BY <2>3, DeviceTypes
    <3>2. QED
      BY <2>4, <2>5, <2>6, <3>1 DEF Kept
  <2>8. QED
    BY <2>1, <2>5, <2>6, <2>7
<1>3. QED
  BY <1>1, <1>2

-----------------------------------------------------------------------------
\* The jobs and the queue, as fence, enqueue and pump pass them on: they stay
\* well formed; what they hold fits the device d; and a superseded inspection of
\* it is marked to be run again.
WorkSet == [jobs : [Key -> JobSet], queue : Seq(Key)]
WorkOK(w) ==
  /\ w \in WorkSet /\ Waiting(w)
  /\ \A k \in Key : w.jobs[k].report.kind # "none" => w.jobs[k].stage = "reported"
Fits(w, d) ==
  /\ w.jobs["device"].stage # "none" => d # NoDevice
  /\ w.jobs["device"].report.kind = "full" /\ w.jobs["device"].fenced = "no" =>
       w.jobs["device"].report.change >= Told(d)
Again(w) == InFlight(w, "device") /\ w.jobs["device"].fenced = "news" => w.jobs["device"].requeue

LEMMA NoJobType ==
  /\ NoJob \in JobSet /\ NoJob.stage = "none" /\ NoJob.report.kind = "none" /\ NoJob.fenced = "no"
  /\ [NoJob EXCEPT !.stage = "inspecting"] \in JobSet
  /\ [NoJob EXCEPT !.stage = "inspecting"].stage = "inspecting"
  /\ [NoJob EXCEPT !.stage = "inspecting"].report.kind = "none"
  /\ [NoJob EXCEPT !.stage = "inspecting"].fenced = "no"
<1>1. NoReport \in ReportSet /\ NoReport.kind = "none"
  BY DEF NoReport, ReportSet
<1>2. QED
  BY <1>1 DEF NoJob, JobSet

LEMMA WorkTypes ==
  ASSUME NEW w, WorkOK(w)
  PROVE  /\ w.jobs \in [Key -> JobSet] /\ w.queue \in Seq(Key) /\ Len(w.queue) \in Nat
         /\ \A k \in Key : /\ w.jobs[k] \in JobSet /\ w.jobs[k].report \in ReportSet
                           /\ w.jobs[k].stage \in {"none", "queued", "inspecting", "reported", "persisting"}
                           /\ w.jobs[k].requeue \in BOOLEAN
         /\ \A i \in 1..Len(w.queue) : w.queue[i] \in Key /\ w.jobs[w.queue[i]].stage = "queued"
         /\ "device" \in Key /\ "seed" \in Key
<1>1. w.jobs \in [Key -> JobSet] /\ w.queue \in Seq(Key)
  BY DEF WorkOK, WorkSet
<1>2. \A k \in Key : w.jobs[k] \in JobSet
  BY <1>1
<1>3. \A i \in 1..Len(w.queue) : w.queue[i] \in Key
  BY <1>1, Element
<1>4. QED
  BY <1>1, <1>2, <1>3 DEF WorkOK, Waiting, JobSet, Key

LEMMA WorkExcept ==
  ASSUME NEW w \in WorkSet, NEW j \in [Key -> JobSet]
  PROVE  /\ [w EXCEPT !.jobs = j] \in WorkSet
         /\ [w EXCEPT !.jobs = j].jobs = j /\ [w EXCEPT !.jobs = j].queue = w.queue
  BY DEF WorkSet

\* The jobs whose inspections pump() starts, and what is left in the queue.
LEMMA PumpStarts ==
  ASSUME NEW w, WorkOK(w)
  PROVE  \E n \in 0..Len(w.queue) :
           /\ Pump(w).jobs = [k \in Key |-> IF k \in {w.queue[i] : i \in 1..n}
                                THEN [NoJob EXCEPT !.stage = "inspecting"] ELSE w.jobs[k]]
           /\ Pump(w).queue = SubSeq(w.queue, n + 1, Len(w.queue))
<1> DEFINE free == Max({Concurrent - Workers(w), 0})
           n == Min({free, Len(w.queue)})
<1>1. Len(w.queue) \in Nat
  BY WorkTypes
<1>2. Workers(w) \in Nat
  <2>1. IsFiniteSet(Key)
    <3>1. IsFiniteSet({"device"})
      BY FS_Singleton
    <3>2. IsFiniteSet({"device"} \cup {"seed"})
      BY <3>1, FS_AddElement
    <3>3. Key = {"device"} \cup {"seed"}
      BY DEF Key
    <3>4. QED
      BY <3>2, <3>3
  <2>2. IsFiniteSet({k \in Key : InFlight(w, k)})
    BY <2>1, FS_Subset
  <2>3. QED
    BY <2>2, FS_CardinalityType DEF Workers
<1>3. Concurrent \in Nat
  BY DiscoveryAssumption DEF DiscoveryAssumption, Concurrent
<1>4. free \in Nat
  BY <1>2, <1>3, TwoMax
<1>5. n \in 0..Len(w.queue)
  <2> HIDE DEF free
  <2>1. QED
    BY <1>1, <1>4, TwoMin
<1> DEFINE started == [k \in Key |-> IF k \in {w.queue[i] : i \in 1..n}
                        THEN [NoJob EXCEPT !.stage = "inspecting"] ELSE w.jobs[k]]
           rest == SubSeq(w.queue, n + 1, Len(w.queue))
<1>6. Pump(w) = [jobs |-> started, queue |-> rest]
  BY DEF Pump
<1> HIDE DEF started, rest
<1>7. Pump(w).jobs = started /\ Pump(w).queue = rest
  BY <1>6
<1> HIDE DEF n
<1>8. QED
  BY <1>5, <1>7 DEF started, rest

LEMMA PumpKeeps ==
  ASSUME NEW w, WorkOK(w), NEW d
  PROVE  /\ WorkOK(Pump(w))
         /\ Fits(w, d) => Fits(Pump(w), d)
         /\ Again(w) => Again(Pump(w))
<1> DEFINE p == Pump(w)
<1>1. PICK n \in 0..Len(w.queue) :
        /\ p.jobs = [k \in Key |-> IF k \in {w.queue[i] : i \in 1..n}
                       THEN [NoJob EXCEPT !.stage = "inspecting"] ELSE w.jobs[k]]
        /\ p.queue = SubSeq(w.queue, n + 1, Len(w.queue))
  BY PumpStarts
<1>2. p = [jobs |-> p.jobs, queue |-> p.queue]
  BY DEF Pump
<1> HIDE DEF p
<1>3. /\ w.jobs \in [Key -> JobSet] /\ w.queue \in Seq(Key) /\ Len(w.queue) \in Nat
      /\ \A i \in 1..Len(w.queue) : w.queue[i] \in Key /\ w.jobs[w.queue[i]].stage = "queued"
      /\ \A i, j \in 1..Len(w.queue) : w.queue[i] = w.queue[j] => i = j
      /\ "device" \in Key
      /\ \A k \in Key : w.jobs[k].report.kind # "none" => w.jobs[k].stage = "reported"
  BY WorkTypes DEF WorkOK, Waiting
<1>4. p.jobs \in [Key -> JobSet]
  BY <1>1, <1>3, NoJobType
<1>5. /\ p.queue \in Seq(Key) /\ Len(p.queue) = Len(w.queue) - n
      /\ \A i \in 1..Len(p.queue) : i + n \in 1..Len(w.queue) /\ p.queue[i] = w.queue[i + n]
  BY SMTT(30), <1>1, <1>3
<1>6. p \in WorkSet
  BY <1>2, <1>4, <1>5 DEF WorkSet
<1>7. ASSUME NEW i \in 1..Len(p.queue)
      PROVE  p.jobs[p.queue[i]].stage = "queued"
  <2>1. i + n \in 1..Len(w.queue) /\ p.queue[i] = w.queue[i + n]
    BY <1>5
  <2>2. \A j \in 1..n : w.queue[j] # w.queue[i + n]
    BY <1>3, <2>1
  <2>3. QED
    BY SMTT(30), <1>1, <1>3, <2>1, <2>2
<1>8. \A i, j \in 1..Len(p.queue) : p.queue[i] = p.queue[j] => i = j
  BY <1>3, <1>5
<1>9. ASSUME NEW k \in Key
      PROVE  \/ p.jobs[k] = w.jobs[k]
             \/ w.jobs[k].stage = "queued" /\ p.jobs[k] = [NoJob EXCEPT !.stage = "inspecting"]
  BY <1>1, <1>3
<1>10. ASSUME NEW k \in Key, p.jobs[k].report.kind # "none"
       PROVE  p.jobs[k].stage = "reported"
  <2>1. p.jobs[k] # [NoJob EXCEPT !.stage = "inspecting"]
    BY <1>10, NoJobType
  <2>2. p.jobs[k] = w.jobs[k]
    BY <1>9, <2>1
  <2>3. QED
    BY <1>3, <1>10, <2>2
<1>11. WorkOK(p)
  BY <1>6, <1>7, <1>8, <1>10 DEF WorkOK, Waiting
<1>12. Fits(w, d) => Fits(p, d)
  BY <1>3, <1>9, NoJobType DEF Fits
<1>13. Again(w) => Again(p)
  BY <1>3, <1>9, NoJobType DEF Again, InFlight
<1>14. QED
  BY <1>11, <1>12, <1>13 DEF p

\* enqueue(): the device must be known when its inspection is asked for.
LEMMA EnqueueKeeps ==
  ASSUME NEW w, WorkOK(w), NEW d, Fits(w, d), NEW k \in Key, NEW c \in BOOLEAN,
         k = "device" /\ c => d # NoDevice, Again(w) \/ (k = "device" /\ c)
  PROVE  /\ WorkOK(EnqueueIf(w, k, c)) /\ Fits(EnqueueIf(w, k, c), d) /\ Again(EnqueueIf(w, k, c))
<1>1. CASE ~c
  BY <1>1 DEF EnqueueIf
<1>2. CASE c
  <2>0. EnqueueIf(w, k, c) = Enqueue(w, k)
    BY <1>2 DEF EnqueueIf
  <2>1. CASE w.jobs[k].stage # "none"
    <3>1. CASE InFlight(w, k) /\ w.jobs[k].fenced # "no"
      <4> DEFINE v == [w EXCEPT !.jobs[k].requeue = TRUE]
      <4>1. Enqueue(w, k) = v
        BY <2>1, <3>1 DEF Enqueue
      <4>2. w \in [jobs : [Key -> JobSet], queue : Seq(Key)] /\ w.jobs[k] \in JobSet
        BY WorkTypes DEF WorkOK, WorkSet
      <4>3. v = [w EXCEPT !.jobs = [w.jobs EXCEPT ![k] = [w.jobs[k] EXCEPT !.requeue = TRUE]]]
        BY <4>2
      <4> HIDE DEF v
      <4>4. [w.jobs[k] EXCEPT !.requeue = TRUE] \in JobSet
        BY <4>2 DEF JobSet
      <4>5. /\ v \in WorkSet /\ v.queue = w.queue
            /\ v.jobs = [w.jobs EXCEPT ![k] = [w.jobs[k] EXCEPT !.requeue = TRUE]]
        <5> DEFINE j == [w.jobs EXCEPT ![k] = [w.jobs[k] EXCEPT !.requeue = TRUE]]
        <5>1. j \in [Key -> JobSet] /\ w \in WorkSet
          BY <4>2, <4>4 DEF WorkSet
        <5>2. v = [w EXCEPT !.jobs = j]
          BY <4>3
        <5> HIDE DEF j
        <5>3. v \in WorkSet /\ v.queue = w.queue /\ v.jobs = j
          BY <5>1, <5>2, WorkExcept
        <5>4. QED
          BY <5>3 DEF j
      <4>6. ASSUME NEW j \in Key
            PROVE  /\ v.jobs[j].stage = w.jobs[j].stage /\ v.jobs[j].report = w.jobs[j].report
                   /\ v.jobs[j].fenced = w.jobs[j].fenced
                   /\ v.jobs[j].requeue = w.jobs[j].requeue \/ v.jobs[j].requeue = TRUE
                   /\ j = k => v.jobs[j].requeue = TRUE
        <5>1. CASE j = k
          <6>1. v.jobs[j] = [w.jobs[j] EXCEPT !.requeue = TRUE] /\ w.jobs[j] \in JobSet
            BY <4>2, <4>5, <5>1
          <6>2. QED
            BY <6>1 DEF JobSet
        <5>2. CASE j # k
          <6>1. v.jobs[j] = w.jobs[j]
            BY <4>2, <4>5, <5>2
          <6>2. QED
            BY <5>2, <6>1
        <5>3. QED
          BY <5>1, <5>2
      <4>7. WorkOK(v)
        BY <4>5, <4>6, WorkTypes DEF WorkOK, Waiting
      <4>8. Fits(v, d)
        BY <4>6, WorkTypes DEF Fits
      <4>9. Again(v)
        BY <4>6, WorkTypes DEF Again, InFlight
      <4>10. QED
        BY <2>0, <4>1, <4>7, <4>8, <4>9
    <3>2. CASE ~(InFlight(w, k) /\ w.jobs[k].fenced # "no")
      <4>1. Enqueue(w, k) = w
        BY <2>1, <3>2 DEF Enqueue
      <4>2. Again(w)
        BY <3>2 DEF Again
      <4>3. QED
        BY <2>0, <4>1, <4>2
    <3>3. QED
      BY <3>1, <3>2
  <2>2. CASE w.jobs[k].stage = "none" /\ Len(w.queue) >= MaxQueued
    <3>1. Enqueue(w, k) = w
      BY <2>2 DEF Enqueue
    <3>2. Again(w)
      BY <2>2 DEF Again, InFlight
    <3>3. QED
      BY <2>0, <3>1, <3>2
  <2>3. CASE w.jobs[k].stage = "none" /\ ~(Len(w.queue) >= MaxQueued)
    <3> DEFINE v == [jobs |-> [w.jobs EXCEPT ![k].stage = "queued"], queue |-> Append(w.queue, k)]
    <3>1. Enqueue(w, k) = Pump(v)
      BY <2>3 DEF Enqueue
    <3>2. /\ w.jobs \in [Key -> JobSet] /\ w.queue \in Seq(Key) /\ Len(w.queue) \in Nat
          /\ \A i \in 1..Len(w.queue) : w.queue[i] \in Key /\ w.jobs[w.queue[i]].stage = "queued"
          /\ \A i, j \in 1..Len(w.queue) : w.queue[i] = w.queue[j] => i = j
          /\ \A j \in Key : w.jobs[j].report.kind # "none" => w.jobs[j].stage = "reported"
          /\ w.jobs[k] \in JobSet
      BY WorkTypes DEF WorkOK, Waiting
    <3>3. v.jobs = [w.jobs EXCEPT ![k] = [w.jobs[k] EXCEPT !.stage = "queued"]]
          /\ v.queue = Append(w.queue, k)
      OBVIOUS
    <3>4. [w.jobs[k] EXCEPT !.stage = "queued"] \in JobSet
      BY <3>2 DEF JobSet
    <3>5. v \in WorkSet
      <4>1. [w.jobs EXCEPT ![k] = [w.jobs[k] EXCEPT !.stage = "queued"]] \in [Key -> JobSet]
        BY <3>2, <3>4
      <4>2. Append(w.queue, k) \in Seq(Key)
        BY <3>2
      <4>3. QED
        BY <4>1, <4>2 DEF WorkSet
    <3> HIDE DEF v
    <3>6. /\ \A j \in Key \ {k} : v.jobs[j] = w.jobs[j]
          /\ v.jobs[k].stage = "queued" /\ v.jobs[k].report = w.jobs[k].report
          /\ v.jobs[k].report.kind = "none"
      <4>1. v.jobs[k] = [w.jobs[k] EXCEPT !.stage = "queued"]
        BY <3>2, <3>3
      <4>2. v.jobs[k].stage = "queued" /\ v.jobs[k].report = w.jobs[k].report
        BY <3>2, <4>1 DEF JobSet
      <4>3. QED
        BY <2>3, <3>2, <3>3, <4>2
    <3> DEFINE n == Len(w.queue)
    <3>7. /\ Len(v.queue) = n + 1 /\ v.queue[n + 1] = k
          /\ \A i \in 1..n : v.queue[i] = w.queue[i]
      BY <3>2, <3>3
    <3>8. \A i \in 1..n : v.queue[i] \in Key \ {k} /\ w.jobs[v.queue[i]].stage = "queued"
      BY <2>3, <3>2, <3>7
    <3>9. /\ n \in Nat /\ \A i \in 1..(n + 1) : i \in 1..n \/ i = n + 1
          /\ \A i, j \in 1..n : v.queue[i] = v.queue[j] => i = j
      BY <3>2, <3>7
    <3> HIDE DEF n
    <3>10. \A i \in 1..Len(v.queue) : v.jobs[v.queue[i]].stage = "queued"
      <4> SUFFICES ASSUME NEW i \in 1..(n + 1) PROVE v.jobs[v.queue[i]].stage = "queued"
        BY <3>7
      <4>1. CASE i = n + 1
        BY <3>6, <3>7, <4>1
      <4>2. CASE i \in 1..n
        BY <3>6, <3>8, <4>2
      <4>3. QED
        BY <3>9, <4>1, <4>2
    <3>11. \A i, j \in 1..Len(v.queue) : v.queue[i] = v.queue[j] => i = j
      <4> SUFFICES ASSUME NEW i \in 1..(n + 1), NEW j \in 1..(n + 1), v.queue[i] = v.queue[j] PROVE i = j
        BY <3>7
      <4>1. CASE i \in 1..n /\ j \in 1..n
        BY <3>9, <4>1
      <4>2. CASE i = n + 1 \/ j = n + 1
        BY <3>7, <3>8, <3>9, <4>2
      <4>3. QED
        BY <3>9, <4>1, <4>2
    <3>12. WorkOK(v)
      BY <3>2, <3>5, <3>6, <3>10, <3>11 DEF WorkOK, Waiting
    <3>13. Fits(v, d)
      BY <1>2, <3>6, WorkTypes DEF Fits
    <3>14. Again(v)
      BY <3>6, WorkTypes DEF Again, InFlight
    <3>15. QED
      BY <2>0, <3>1, <3>12, <3>13, <3>14, PumpKeeps
  <2>4. QED
    BY <2>1, <2>2, <2>3
<1>3. QED
  BY <1>1, <1>2

\* The token of a running inspection is made void when the device has news.
LEMMA FenceKeeps ==
  ASSUME NEW w, WorkOK(w), NEW d, NEW why \in {"news", "departure", "seed"}, NEW c \in BOOLEAN,
         w.jobs["device"].stage # "none" => d # NoDevice,
         Fits(w, d) \/ c
  PROVE  /\ WorkOK(Fence(w, why, c)) /\ Fits(Fence(w, why, c), d)
         /\ Again(w) /\ (why = "news" => ~c) => Again(Fence(w, why, c))
<1> DEFINE k == "device"
           v == [w EXCEPT !.jobs[k].fenced = why]
<1>1. CASE ~(c /\ InFlight(w, k))
  <2>1. Fence(w, why, c) = w
    BY <1>1 DEF Fence
  <2>2. Fits(w, d)
    <3>1. ~InFlight(w, k) => w.jobs[k].report.kind = "none"
      BY WorkTypes DEF WorkOK, InFlight
    <3>2. QED
      BY <1>1, <3>1 DEF Fits
  <2>3. QED
    BY <2>1, <2>2
<1>2. CASE c /\ InFlight(w, k)
  <2>1. Fence(w, why, c) = v
    BY <1>2 DEF Fence
  <2>2. w \in [jobs : [Key -> JobSet], queue : Seq(Key)] /\ w.jobs[k] \in JobSet /\ k \in Key
    BY WorkTypes DEF WorkOK, WorkSet
  <2>3. v = [w EXCEPT !.jobs = [w.jobs EXCEPT ![k] = [w.jobs[k] EXCEPT !.fenced = why]]]
    BY <2>2
  <2> HIDE DEF v
  <2>4. [w.jobs[k] EXCEPT !.fenced = why] \in JobSet
    BY <2>2 DEF JobSet
  <2>5. /\ v \in WorkSet /\ v.queue = w.queue
        /\ v.jobs = [w.jobs EXCEPT ![k] = [w.jobs[k] EXCEPT !.fenced = why]]
    <3> DEFINE j == [w.jobs EXCEPT ![k] = [w.jobs[k] EXCEPT !.fenced = why]]
    <3>1. j \in [Key -> JobSet] /\ w \in WorkSet
      BY <2>2, <2>4 DEF WorkSet
    <3>2. v = [w EXCEPT !.jobs = j]
      BY <2>3
    <3> HIDE DEF j
    <3>3. v \in WorkSet /\ v.queue = w.queue /\ v.jobs = j
      BY <3>1, <3>2, WorkExcept
    <3>4. QED
      BY <3>3 DEF j
  <2>6. /\ \A j \in Key : /\ v.jobs[j].stage = w.jobs[j].stage /\ v.jobs[j].report = w.jobs[j].report
                          /\ v.jobs[j].requeue = w.jobs[j].requeue
        /\ v.jobs[k].fenced = why
    <3>1. v.jobs[k] = [w.jobs[k] EXCEPT !.fenced = why] /\ \A j \in Key \ {k} : v.jobs[j] = w.jobs[j]
      BY <2>2, <2>5
    <3>2. /\ v.jobs[k].fenced = why /\ v.jobs[k].stage = w.jobs[k].stage
          /\ v.jobs[k].report = w.jobs[k].report /\ v.jobs[k].requeue = w.jobs[k].requeue
      BY <2>2, <3>1 DEF JobSet
    <3>3. QED
      BY <3>1, <3>2
  <2>7. WorkOK(v)
    BY <2>5, <2>6, WorkTypes DEF WorkOK, Waiting
  <2>8. Fits(v, d)
    BY <2>2, <2>6 DEF Fits
  <2>9. Again(w) /\ (why = "news" => ~c) => Again(v)
    BY <1>2, <2>2, <2>6 DEF Again, InFlight
  <2>10. QED
    BY <2>1, <2>7, <2>8, <2>9
<1>3. QED
  BY <1>1, <1>2

-----------------------------------------------------------------------------
\* What is remembered and what is on the disk.
StoreOK ==
  /\ dev \in Devices /\ seed \in BOOLEAN
  /\ unsaved \in BOOLEAN /\ moved \in BOOLEAN /\ saving \in {"none", "writing", "settled"}
  /\ snap \in ContentSet /\ durable \in ContentSet
  /\ saving = "writing" => unsaved /\ (~moved => snap = Content)
  /\ ~unsaved => durable = Content
  /\ Ascending /\ Records

\* Where the engine is, and what it has to do.
EngineOK ==
  /\ life \in {"starting", "running", "closing", "flushing", "unflushed", "closed", "failed"}
  /\ boot \in {"loading", "opening", "saving", "done", "failed", "unread"}
  /\ crashes \in Nat
  /\ Phases
  /\ life = "flushing" /\ saving # "writing" => ~unsaved
  /\ life = "closed" => ~unsaved
WorkFits == WorkOK(Work) /\ Fits(Work, dev) /\ (life = "running" => Again(Work))

LEMMA Parts == IInv <=> StoreOK /\ EngineOK /\ WorkFits /\ Points
<1>1. Work \in WorkSet <=> jobs \in [Key -> JobSet] /\ queue \in Seq(Key)
  BY DEF Work, WorkSet
<1>2. Work.jobs = jobs /\ Work.queue = queue
  BY DEF Work
<1>3. Again(Work) <=> (InFlight(Work, "device") /\ jobs["device"].fenced = "news" => jobs["device"].requeue)
  BY <1>2 DEF Again
<1>4. WorkFits <=> /\ jobs \in [Key -> JobSet] /\ queue \in Seq(Key) /\ Inspections
  <2>1. SupersededRequeued <=> (life = "running" => Again(Work))
    BY <1>3 DEF SupersededRequeued
  <2>2. WorkOK(Work) <=> /\ jobs \in [Key -> JobSet] /\ queue \in Seq(Key) /\ Waiting(Work)
                         /\ \A k \in Key : jobs[k].report.kind # "none" => jobs[k].stage = "reported"
    BY <1>1, <1>2 DEF WorkOK
  <2>3. Fits(Work, dev) <=>
          /\ jobs["device"].stage # "none" => dev # NoDevice
          /\ jobs["device"].report.kind = "full" /\ jobs["device"].fenced = "no" =>
               jobs["device"].report.change >= Told(dev)
    BY <1>2 DEF Fits
  <2>4. QED
    BY <2>1, <2>2, <2>3 DEF WorkFits, Inspections
<1>5. QED
  BY <1>4 DEF IInv, DiscoveryTypeOK, StoreOK, EngineOK, Saves

LEMMA ContentTypes ==
  ASSUME StoreOK
  PROVE  /\ Content \in ContentSet /\ Content.dev = dev /\ Content.seed = seed
         /\ durable.dev \in Devices /\ snap.dev \in Devices /\ durable.seed \in BOOLEAN
         /\ Kept(dev, dev) /\ Kept(durable.dev, durable.dev)
<1>1. durable.dev \in Devices /\ snap.dev \in Devices /\ durable.seed \in BOOLEAN
  BY DEF StoreOK, ContentSet
<1>2. dev \in Devices /\ seed \in BOOLEAN
  BY DEF StoreOK
<1>3. Kept(dev, dev) /\ Kept(durable.dev, durable.dev)
  BY <1>1, <1>2, KeptItself
<1>4. QED
  BY <1>1, <1>2, <1>3 DEF Content, ContentSet

LEMMA NoContentType == NoContent \in ContentSet /\ NoContent.dev = NoDevice
  BY DEF NoContent, ContentSet, Devices

\* A change of the inventory that advances the revision, and is saved or will be.
LEMMA StoreKeeps ==
  ASSUME StoreOK, NEW b \in BOOLEAN, Bump(b) \/ Persist(b), dev' \in Devices, seed' \in BOOLEAN,
         b \/ UNCHANGED <<dev, seed>>, Kept(dev, dev'), Sound(dev)', UNCHANGED points,
         boot # "loading", boot' # "loading", boot' = "unread" <=> boot = "unread"
  PROVE  /\ StoreOK' /\ durable' = durable
         /\ Persist(b) /\ ~b /\ saving # "settled" /\ saving' # "writing" => ~unsaved'
         /\ ~unsaved /\ ~b => ~unsaved'
<1>1. /\ dev \in Devices /\ durable.dev \in Devices /\ snap.dev \in Devices /\ Content \in ContentSet
      /\ Content.dev = dev
  BY ContentTypes DEF StoreOK
<1>2. /\ unsaved \in BOOLEAN /\ moved \in BOOLEAN /\ saving \in {"none", "writing", "settled"}
      /\ snap \in ContentSet /\ durable \in ContentSet
      /\ saving = "writing" => unsaved /\ (~moved => snap = Content)
      /\ ~unsaved => durable = Content
  BY DEF StoreOK
<1>3. Content' \in ContentSet /\ Content'.dev = dev' /\ (~b => Content' = Content)
  BY DEF Content, ContentSet
<1>4. durable' = durable
  BY DEF Bump, Persist
<1>5. CASE Persist(b) /\ saving = "none" /\ (unsaved \/ b)
  <2>1. saving' = "writing" /\ snap' = Content' /\ moved' = FALSE /\ unsaved' = TRUE
    BY <1>5 DEF Persist
  <2>2. Ascending'
    <3>1. boot' \notin {"loading", "unread"} => Kept(durable.dev, dev')
      BY <1>1, KeptAgain DEF StoreOK, Ascending
    <3>2. Kept(dev', dev')
      BY KeptItself
    <3>3. QED
      BY <1>3, <1>4, <2>1, <3>1, <3>2 DEF Ascending
  <2>3. Records'
    BY <1>3, <1>4, <2>1 DEF StoreOK, Records, Sound
  <2>4. saving' = "writing" => unsaved' /\ (~moved' => snap' = Content')
    BY <2>1
  <2>5. ~unsaved' => durable' = Content'
    BY <2>1
  <2>6. /\ unsaved' \in BOOLEAN /\ moved' \in BOOLEAN /\ saving' \in {"none", "writing", "settled"}
        /\ snap' \in ContentSet /\ durable' \in ContentSet
    BY <1>2, <1>3, <1>4, <2>1
  <2>7. StoreOK'
    BY <2>2, <2>3, <2>4, <2>5, <2>6 DEF StoreOK
  <2>8. QED
    BY <1>4, <1>5, <2>1, <2>7
<1>6. CASE ~(Persist(b) /\ saving = "none" /\ (unsaved \/ b))
  <2>1. /\ unsaved' = (unsaved \/ b) /\ moved' = (moved \/ (b /\ saving = "writing")) /\ snap' = snap
        /\ saving' \in {saving, "settled"} /\ (saving' = "writing" <=> saving = "writing")
    BY <1>2, <1>6 DEF Persist, Bump, Moved
  <2>2. Ascending'
    <3>1. boot' \notin {"loading", "unread"} => Kept(durable.dev, dev')
      BY <1>1, KeptAgain DEF StoreOK, Ascending
    <3>2. boot' # "unread" /\ saving' = "writing" => Kept(durable.dev, snap.dev) /\ Kept(snap.dev, dev')
      BY <1>1, <2>1, KeptAgain DEF StoreOK, Ascending
    <3>3. QED
      BY <1>4, <2>1, <3>1, <3>2 DEF Ascending
  <2>3. Records'
    BY <1>4, <2>1 DEF StoreOK, Records, Sound
  <2>4. saving' = "writing" => unsaved' /\ (~moved' => snap' = Content')
    BY <1>2, <1>3, <2>1
  <2>5. ~unsaved' => durable' = Content'
    BY <1>2, <1>3, <1>4, <2>1
  <2>6. /\ unsaved' \in BOOLEAN /\ moved' \in BOOLEAN /\ saving' \in {"none", "writing", "settled"}
        /\ snap' \in ContentSet /\ durable' \in ContentSet
    BY <1>2, <1>4, <2>1
  <2>7. Persist(b) /\ ~b /\ saving # "settled" /\ saving' # "writing" => ~unsaved'
    <3>1. Persist(b) /\ ~b /\ saving = "none" => ~unsaved
      BY <1>6
    <3>2. QED
      BY <1>2, <2>1, <3>1
  <2>8. QED
    BY <1>4, <2>1, <2>2, <2>3, <2>4, <2>5, <2>6, <2>7 DEF StoreOK
<1>7. QED
  BY <1>5, <1>6

\* Nothing of the inventory changes, and it is not read or opened anew.
LEMMA StoreSame ==
  ASSUME StoreOK, UNCHANGED <<dev, seed, store, points>>,
         boot' \notin {"loading", "unread"} => boot \notin {"loading", "unread"} \/ boot' = boot,
         boot' # "unread" => boot # "unread"
  PROVE  StoreOK'
<1>1. UNCHANGED <<unsaved, saving, snap, moved, durable>>
  BY DEF store
<1>2. Records'
  BY <1>1 DEF StoreOK, Records, Sound
<1>3. Ascending'
  BY <1>1 DEF StoreOK, Ascending
<1>4. Content' = Content
  BY DEF Content
<1>5. QED
  BY <1>1, <1>2, <1>3, <1>4 DEF StoreOK

-----------------------------------------------------------------------------
\* What SetWork() leaves is the work it is given.
LEMMA WorkGiven ==
  ASSUME NEW w, SetWork(w), WorkOK(w), Fits(w, dev'), life' = "running" => Again(w)
  PROVE  WorkFits'
<1>1. jobs' = w.jobs /\ queue' = w.queue
  BY DEF SetWork
<1>2. Work'.jobs = w.jobs /\ Work'.queue = w.queue
  BY <1>1 DEF Work
<1>3. Work' \in WorkSet
  BY <1>1 DEF Work, WorkOK, WorkSet
<1>4. WorkOK(Work')
  BY <1>2, <1>3 DEF WorkOK, Waiting
<1>5. Fits(Work', dev')
  BY <1>2 DEF Fits
<1>6. Again(w) => Again(Work')
  BY <1>2 DEF Again, InFlight
<1>7. QED
  BY <1>4, <1>5, <1>6 DEF WorkFits

\* Where no inspection runs none is superseded, and none is fenced.
LEMMA NoneRuns ==
  ASSUME NoWork
  PROVE  /\ ~InFlight(Work, "device") /\ Again(Work)
         /\ \A why, c : Fence(Work, why, c) = Work
<1>1. Work.jobs["device"].stage = "none"
  BY NoJobType DEF NoWork, Work, Key
<1>2. QED
  BY <1>1 DEF InFlight, Again, Fence

LEMMA ReceiveKeeps ==
  ASSUME IInv, NEW m \in Message, Receive(m)
  PROVE  IInv' /\ durable' = durable /\ Kept(dev, dev')
<1> DEFINE d == IF dev # NoDevice THEN dev ELSE NewDevice
           e == Order(d, m)
           fences == Newer(d, m) \/ Changes(e, m)
           next == Merge(e, m)
           w == Fence(Work, "news", fences)
           inspects(due) == due /\ life = "running"
<1>1. StoreOK /\ EngineOK /\ WorkFits /\ Points
  BY Parts
<1>2. /\ life \in {"starting", "running"} /\ boot # "loading" /\ Accepts(d, m) /\ dev' = next
      /\ Bump(TRUE) /\ UNCHANGED <<life, boot, seed, world, crashes>>
      /\ \E due \in Due(next) : SetWork(EnqueueIf(w, "device", inspects(due)))
  BY DEF Receive
<1>3. UNCHANGED <<life, boot, seed, points, crashes>>
  BY <1>2 DEF world
<1>4. PICK due \in Due(next) : SetWork(EnqueueIf(w, "device", inspects(due)))
  BY <1>2
<1>5. dev \in Devices /\ seed \in BOOLEAN /\ Sound(dev)
  BY <1>1 DEF StoreOK, Records
<1>6. d \in DeviceSet /\ d \in Devices /\ (dev # NoDevice => d = dev)
  BY <1>5, DeviceTypes, NewDeviceType
<1>7. /\ m.kind \in {"Hello", "Bye"} /\ m.number \in Nat /\ m.instance \in Nat /\ m.version \in Nat
      /\ m.instance <= points[Len(points)].instance /\ m.version <= points[Len(points)].version
  BY <1>1, MessageTypes
<1>8. /\ e \in DeviceSet /\ Kept(d, e) /\ e.instance = m.instance /\ e.version = d.version
      /\ e.identityConflict = d.identityConflict /\ e.info = d.info /\ e.by = d.by
      /\ d.state = "conflict" => e.state = "conflict"
      /\ Newer(d, m) => e.state \in {"conflict", "candidate"}
      /\ ~Newer(d, m) => d.instance = m.instance /\ e.state \in {d.state, "conflict"}
  BY <1>2, <1>6, <1>7, OrderKeeps DEF Ordered
<1>9. /\ next \in DeviceSet /\ Kept(e, next) /\ next.instance = e.instance
      /\ next.version \in {e.version, m.version} /\ next.identityConflict = e.identityConflict
      /\ next.info = e.info /\ next.by = e.by
      /\ e.state = "conflict" => next.state = "conflict"
      /\ next.state = "verified" => e.state = "verified" /\ ~Changes(e, m)
      /\ ~Changes(e, m) => next.version = e.version
  BY <1>7, <1>8, MergeKeeps
<1>10. e \in Devices /\ next \in Devices /\ next # NoDevice
  BY <1>8, <1>9, DeviceTypes DEF Devices
<1> HIDE DEF d, e, next, fences
<1>11. next.state = "verified" => ~fences /\ d.state = "verified"
  BY <1>8, <1>9 DEF fences
<1>12. ~fences => next.instance = d.instance /\ next.version = d.version
  BY <1>8, <1>9 DEF fences
<1>13. ~fences => Told(next) = Told(d)
  BY <1>12 DEF Told
<1>14. Kept(dev, next)
  <2>1. Kept(d, next)
    BY <1>6, <1>8, <1>9, <1>10, KeptAgain
  <2>2. QED
    BY <2>1, <1>6 DEF Kept
<1>15. Sound(next)
  <2>1. d.identityConflict => d.state = "conflict"
    BY <1>5 DEF d, Sound, NewDevice
  <2>2. d.version <= points[Len(points)].version
    <3>1. CASE dev # NoDevice
      BY <1>5, <1>6, <3>1 DEF Sound
    <3>2. CASE dev = NoDevice
      <4>1. d.version = 0
        BY <3>2 DEF d, NewDevice
      <4>2. points[Len(points)] \in [instance : Nat, version : Nat]
        <5>1. points \in Seq([instance : Nat, version : Nat]) /\ Len(points) \in 1..Len(points)
          BY <1>1 DEF Points
        <5>2. QED
          BY <5>1, Element
      <4>3. QED
        BY <4>1, <4>2
    <3>3. QED
      BY <3>1, <3>2
  <2>3. d.state = "verified" /\ d.by = "device" => d.info >= Told(d)
    BY <1>5 DEF d, Sound, NewDevice
  <2>4. next.instance <= points[Len(points)].instance /\ next.version <= points[Len(points)].version
    BY <1>7, <1>8, <1>9, <2>2
  <2>5. next.state = "verified" /\ next.by = "device" => next.info >= Told(next)
    BY <1>8, <1>9, <1>11, <1>13, <2>3
  <2>6. next.identityConflict => next.state = "conflict"
    BY <1>8, <1>9, <2>1
  <2>7. QED
    BY <2>4, <2>5, <2>6 DEF Sound
<1>16. Sound(dev)'
  BY <1>2, <1>3, <1>15 DEF Sound
<1>17. boot # "unread" /\ (boot = "opening" => NoWork) /\ (life = "starting" => NoWork)
  BY <1>1, <1>2 DEF EngineOK, Phases
<1>18. StoreOK' /\ durable' = durable
  BY <1>1, <1>2, <1>3, <1>5, <1>10, <1>14, <1>16, StoreKeeps
<1>19. WorkOK(Work) /\ Fits(Work, dev) /\ Again(Work)
  BY <1>1, <1>2, <1>17, NoneRuns DEF WorkFits
<1>20. fences \in BOOLEAN
  BY DEF fences, Newer, Changes
<1>21. Fits(Work, next) \/ fences
  <2>1. Work.jobs["device"].stage # "none" => dev # NoDevice
    BY <1>19 DEF Fits
  <2>2. Work.jobs["device"].report.kind # "none" => Work.jobs["device"].stage # "none"
    BY <1>19, WorkTypes DEF WorkOK
  <2>3. QED
    BY <1>6, <1>10, <1>13, <1>19, <2>1, <2>2 DEF Fits
<1>22. WorkOK(w) /\ Fits(w, next) /\ (~fences => Again(w))
  <2>1. Work.jobs["device"].stage # "none" => next # NoDevice
    BY <1>10
  <2>2. "news" \in {"news", "departure", "seed"}
    OBVIOUS
  <2>3. /\ WorkOK(Fence(Work, "news", fences)) /\ Fits(Fence(Work, "news", fences), next)
        /\ Again(Work) /\ ("news" = "news" => ~fences) => Again(Fence(Work, "news", fences))
    BY <1>19, <1>20, <1>21, <2>1, <2>2, FenceKeeps
  <2>4. QED
    BY <1>19, <2>3
<1>23. life = "starting" => w = Work
  BY <1>17, NoneRuns
<1>24. due = TRUE \/ ~fences
  BY <1>4, <1>11 DEF Due
<1>25. due \in BOOLEAN
  BY <1>4 DEF Due
<1> HIDE DEF w
<1>26. WorkFits'
  <2>1. CASE life = "running"
    <3>1. inspects(due) \in BOOLEAN /\ (Again(w) \/ inspects(due))
      BY <1>22, <1>24, <1>25, <2>1
    <3> HIDE DEF inspects
    <3>2. /\ WorkOK(EnqueueIf(w, "device", inspects(due)))
          /\ Fits(EnqueueIf(w, "device", inspects(due)), next)
          /\ Again(EnqueueIf(w, "device", inspects(due)))
      BY <1>10, <1>22, <3>1, EnqueueKeeps DEF Key
    <3>3. QED
      BY <1>2, <1>4, <3>2, WorkGiven
  <2>2. CASE life = "starting"
    <3>1. EnqueueIf(w, "device", inspects(due)) = Work
      BY <1>23, <2>2 DEF EnqueueIf
    <3>2. SetWork(Work) /\ WorkOK(Work) /\ Fits(Work, dev')
      BY <1>2, <1>4, <1>19, <1>22, <1>23, <2>2, <3>1
    <3>3. QED
      BY <1>19, <3>2, WorkGiven
  <2>3. QED
    BY <1>2, <2>1, <2>2
<1>27. EngineOK'
  <2>1. life = "starting" => UNCHANGED <<jobs, queue>>
    BY <1>4, <1>23 DEF EnqueueIf, SetWork, Work
  <2>2. life = "running" => boot \in {"saving", "done"}
    BY <1>1 DEF EngineOK, Phases
  <2>3. Phases'
    BY <1>1, <1>2, <1>3, <1>17, <2>1, <2>2 DEF EngineOK, Phases, NoWork
  <2>4. QED
    BY <1>1, <1>2, <1>3, <2>3 DEF EngineOK
<1>28. Points'
  BY <1>1, <1>3 DEF Points
<1>29. QED
  <2>1. IInv'
    BY <1>18, <1>26, <1>27, <1>28, Parts, PTL
  <2>2. QED
    BY <1>2, <1>14, <1>18, <2>1

-----------------------------------------------------------------------------
\* The job of k, which does not wait, becomes j.
Given(w, k, j) == [w EXCEPT !.jobs = [w.jobs EXCEPT ![k] = j]]

LEMMA JobKeeps ==
  ASSUME NEW w, WorkOK(w), NEW k \in Key, NEW j \in JobSet, w.jobs[k].stage # "queued",
         j.report.kind # "none" => j.stage = "reported"
  PROVE  /\ WorkOK(Given(w, k, j)) /\ Given(w, k, j).jobs[k] = j /\ Given(w, k, j).queue = w.queue
         /\ Given(w, k, j).jobs = [w.jobs EXCEPT ![k] = j]
         /\ \A i \in Key \ {k} : Given(w, k, j).jobs[i] = w.jobs[i]
<1> DEFINE v == Given(w, k, j)
           f == [w.jobs EXCEPT ![k] = j]
<1>1. w \in WorkSet /\ w.jobs \in [Key -> JobSet] /\ w.queue \in Seq(Key)
  BY WorkTypes DEF WorkOK
<1>2. f \in [Key -> JobSet] /\ f[k] = j /\ \A i \in Key \ {k} : f[i] = w.jobs[i]
  BY <1>1
<1>3. v = [w EXCEPT !.jobs = f]
  BY DEF Given
<1> HIDE DEF f, v
<1>4. v \in WorkSet /\ v.jobs = f /\ v.queue = w.queue
  BY <1>1, <1>2, <1>3, WorkExcept
<1>5. Waiting(v)
  <2>1. \A i \in 1..Len(w.queue) : w.queue[i] \in Key \ {k} /\ w.jobs[w.queue[i]].stage = "queued"
    BY WorkTypes
  <2>2. QED
    BY <1>2, <1>4, <2>1 DEF WorkOK, Waiting
<1>6. \A i \in Key : v.jobs[i].report.kind # "none" => v.jobs[i].stage = "reported"
  BY <1>2, <1>4 DEF WorkOK
<1>7. QED
  BY <1>2, <1>4, <1>5, <1>6 DEF WorkOK, f, v

\* While there is a job the engine is not past its inspections.
LEMMA Busy ==
  ASSUME EngineOK, NEW k \in Key, jobs[k].stage # "none"
  PROVE  life \in {"running", "closing"} /\ boot \in {"saving", "done", "failed"}
<1>1. NoWork => jobs[k].stage = "none"
  BY NoJobType DEF NoWork
<1>2. QED
  BY <1>1 DEF EngineOK, Phases

\* A step that leaves the engine where it is, while there is a job.
LEMMA EngineSame ==
  ASSUME EngineOK, UNCHANGED <<life, boot, crashes>>, life \in {"running", "closing"},
         boot \in {"saving", "done", "failed"}
  PROVE  EngineOK'
  BY DEF EngineOK, Phases

\* What has been told of the device is at most its last change.
LEMMA ToldBounded ==
  ASSUME Points, NEW d \in Devices, d # NoDevice, Sound(d)
  PROVE  Told(d) <= Len(points) /\ Told(d) \in Int /\ Len(points) \in Nat
<1>1. d.instance \in Nat /\ d.version \in Nat
  BY DeviceTypes
<1>2. points \in Seq([instance : Nat, version : Nat]) /\ Len(points) \in 1..Len(points)
  BY DEF Points
<1>3. points[Len(points)] \in [instance : Nat, version : Nat]
  BY <1>2, Element
<1>4. points[Len(points)].instance \in Nat /\ points[Len(points)].version \in Nat
  BY <1>3
<1>5. points[Len(points)].instance >= 1
      /\ points[Len(points)].instance + points[Len(points)].version = Len(points) + 1
  BY DEF Points
<1>6. d.instance <= points[Len(points)].instance /\ d.version <= points[Len(points)].version
  BY DEF Sound
<1> DEFINE pi == points[Len(points)].instance
           pv == points[Len(points)].version
           n == Len(points)
<1>7. pi \in Nat /\ pv \in Nat /\ n \in Nat /\ pi >= 1 /\ pi + pv = n + 1 /\ d.instance <= pi /\ d.version <= pv
  BY <1>2, <1>4, <1>5, <1>6
<1> HIDE DEF pi, pv, n
<1>8. Told(d) <= n /\ Told(d) \in Int
  BY <1>1, <1>7 DEF Told
<1>9. QED
  BY <1>7, <1>8 DEF n

LEMMA ReportTypes ==
  ASSUME Points, NEW r \in Reports
  PROVE  r \in ReportSet /\ (r.kind = "full" => r.change = Len(points))
<1>1. Len(points) \in Nat
  BY DEF Points
<1>2. QED
  BY <1>1 DEF Reports, ReportSet

LEMMA InspectKeeps ==
  ASSUME IInv, NEW k \in Key, Inspect(k)
  PROVE  IInv' /\ durable' = durable /\ dev' = dev
<1>1. StoreOK /\ EngineOK /\ WorkFits /\ Points
  BY Parts
<1>2. /\ jobs[k].stage = "inspecting" /\ queue' = queue
      /\ UNCHANGED <<life, boot, dev, seed, store, points, crashes, durable>>
  BY DEF Inspect, inventory, store, world
<1>3. PICK r \in IF life = "running" THEN Reports ELSE {NoReport} :
        jobs' = [jobs EXCEPT ![k].stage = "reported", ![k].report = r]
  BY DEF Inspect
<1>4. r \in ReportSet /\ (r.kind = "full" => r.change = Len(points))
  <2>1. NoReport \in ReportSet /\ NoReport.kind = "none"
    BY DEF NoReport, ReportSet
  <2>2. QED
    BY <1>1, <1>3, <2>1, ReportTypes
<1>5. WorkOK(Work) /\ Fits(Work, dev) /\ (life = "running" => Again(Work)) /\ Work.jobs = jobs /\ Work.queue = queue
  BY <1>1 DEF WorkFits, Work
<1>6. jobs \in [Key -> JobSet] /\ jobs[k] \in JobSet
  BY <1>5, WorkTypes
<1> DEFINE j == [jobs[k] EXCEPT !.stage = "reported", !.report = r]
           v == Given(Work, k, j)
<1>7. /\ j \in JobSet /\ j.stage = "reported" /\ j.report = r
      /\ j.fenced = jobs[k].fenced /\ j.requeue = jobs[k].requeue
  BY <1>4, <1>6 DEF JobSet
<1>8. jobs' = [jobs EXCEPT ![k] = j]
  BY <1>3, <1>6
<1> HIDE DEF j
<1>9. /\ WorkOK(v) /\ v.jobs[k] = j /\ v.queue = queue /\ v.jobs = [jobs EXCEPT ![k] = j]
      /\ \A i \in Key \ {k} : v.jobs[i] = jobs[i]
  <2>1. Work.jobs[k].stage # "queued" /\ (j.report.kind # "none" => j.stage = "reported")
    BY <1>2, <1>5, <1>7
  <2>2. /\ WorkOK(v) /\ v.jobs[k] = j /\ v.queue = Work.queue /\ v.jobs = [Work.jobs EXCEPT ![k] = j]
        /\ \A i \in Key \ {k} : v.jobs[i] = Work.jobs[i]
    BY <1>5, <1>7, <2>1, JobKeeps
  <2>3. QED
    BY <1>5, <2>2
<1> HIDE DEF v
<1>10. Fits(v, dev)
  <2>1. CASE k = "device"
    <3>1. dev # NoDevice
      BY <1>2, <1>5, <2>1 DEF Fits
    <3>2. dev \in Devices /\ Sound(dev)
      BY <1>1 DEF StoreOK, Records
    <3>3. r.kind = "full" => r.change >= Told(dev)
      BY <1>1, <1>4, <3>1, <3>2, ToldBounded
    <3>4. QED
      BY <1>7, <1>9, <2>1, <3>1, <3>3 DEF Fits
  <2>2. CASE k # "device"
    BY <1>5, <1>9, <2>2 DEF Fits, Key
  <2>3. QED
    BY <2>1, <2>2
<1>11. Again(Work) => Again(v)
  BY <1>2, <1>5, <1>7, <1>9 DEF Again, InFlight, Key
<1>12. SetWork(v)
  BY <1>2, <1>8, <1>9 DEF SetWork
<1>13. WorkFits'
  BY <1>2, <1>5, <1>9, <1>10, <1>11, <1>12, WorkGiven
<1>14. EngineOK'
  BY <1>1, <1>2, Busy, EngineSame
<1>15. StoreOK'
  BY <1>1, <1>2, StoreSame
<1>16. Points'
  BY <1>1, <1>2 DEF Points
<1>17. IInv'
  BY <1>13, <1>14, <1>15, <1>16, Parts, PTL
<1>18. QED
  BY <1>2, <1>17

-----------------------------------------------------------------------------
\* A job whose report is taken.
Taken(k) == [Work EXCEPT !.jobs[k].stage = "persisting", !.jobs[k].report = NoReport]

LEMMA TakenKeeps ==
  ASSUME WorkOK(Work), NEW k \in Key, jobs[k].stage = "reported", NEW d, Fits(Work, d)
  PROVE  /\ WorkOK(Taken(k)) /\ Fits(Taken(k), d)
         /\ Again(Work) => Again(Taken(k))
         /\ Taken(k).jobs["device"].stage # "none" => jobs["device"].stage # "none"
<1>1. Work.jobs = jobs /\ Work.queue = queue /\ Work \in WorkSet
  BY DEF Work, WorkOK
<1>2. jobs \in [Key -> JobSet] /\ jobs[k] \in JobSet
  BY <1>1, WorkTypes
<1>3. NoReport \in ReportSet /\ NoReport.kind = "none"
  BY DEF NoReport, ReportSet
<1> DEFINE j == [jobs[k] EXCEPT !.stage = "persisting", !.report = NoReport]
<1>4. /\ j \in JobSet /\ j.stage = "persisting" /\ j.report = NoReport
      /\ j.fenced = jobs[k].fenced /\ j.requeue = jobs[k].requeue
  BY <1>2, <1>3 DEF JobSet
<1>5. Taken(k) = Given(Work, k, j)
  BY <1>1, <1>2 DEF Taken, Given, Work
<1> HIDE DEF j
<1>6. Work.jobs[k].stage # "queued" /\ (j.report.kind # "none" => j.stage = "reported")
  BY <1>1, <1>3, <1>4
<1>7. /\ WorkOK(Taken(k)) /\ Taken(k).jobs[k] = j /\ Taken(k).queue = queue
      /\ \A i \in Key \ {k} : Taken(k).jobs[i] = jobs[i]
  <2>1. /\ WorkOK(Given(Work, k, j)) /\ Given(Work, k, j).jobs[k] = j
        /\ Given(Work, k, j).queue = Work.queue
        /\ Given(Work, k, j).jobs = [Work.jobs EXCEPT ![k] = j]
        /\ \A i \in Key \ {k} : Given(Work, k, j).jobs[i] = Work.jobs[i]
    BY <1>4, <1>6, JobKeeps
  <2>2. QED
    BY <1>1, <1>5, <2>1
<1>8. Fits(Taken(k), d)
  <2>1. CASE k = "device"
    BY <1>1, <1>3, <1>4, <1>7, <2>1 DEF Fits
  <2>2. CASE k # "device"
    BY <1>1, <1>7, <2>2 DEF Fits, Key
  <2>3. QED
    BY <2>1, <2>2
<1>9. Again(Work) => Again(Taken(k))
  BY <1>1, <1>4, <1>7 DEF Again, InFlight, Key
<1>10. Taken(k).jobs["device"].stage # "none" => jobs["device"].stage # "none"
  BY <1>7 DEF Key
<1>11. QED
  BY <1>7, <1>8, <1>9, <1>10

\* What is overdue or has departed is as sound as it was.
LEMMA ReconciledSound ==
  ASSUME NEW d \in Devices, Sound(d), NEW x \in Reconciled(d)
  PROVE  Sound(x)
<1>1. /\ x \in Devices /\ (x = NoDevice <=> d = NoDevice)
      /\ d # NoDevice =>
           /\ x.instance = d.instance /\ x.version = d.version
           /\ x.identityConflict = d.identityConflict /\ x.info = d.info /\ x.by = d.by
           /\ x.state \in {d.state, "stale", "departed"}
           /\ d.state = "conflict" => x.state = "conflict"
  BY ReconciledKeeps
<1>2. d # NoDevice => Told(x) = Told(d)
  BY <1>1 DEF Told
<1>3. QED
  BY <1>1, <1>2 DEF Sound

LEMMA CompleteDeviceKeeps ==
  ASSUME IInv, CompleteDevice
  PROVE  IInv' /\ durable' = durable /\ Kept(dev, dev')
<1>1. StoreOK /\ EngineOK /\ WorkFits /\ Points
  BY Parts
<1> DEFINE c == CommitInspection(dev, jobs["device"].report, "device")
           b == dev' # dev
<1>2. /\ jobs["device"].stage = "reported" /\ life = "running"
      /\ \/ Commits(dev, jobs["device"].fenced) /\ dev' \in Reconciled(c)
         \/ dev' \in Reconciled(dev)
      /\ SetWork(Fence(Taken("device"), "departure", Departs))
      /\ UNCHANGED seed /\ Persist(b)
      /\ UNCHANGED <<life, boot, points, crashes>>
  BY DEF CompleteDevice, Taken, world
<1>3. dev \in Devices /\ Sound(dev) /\ seed \in BOOLEAN
  BY <1>1 DEF StoreOK, Records
<1>4. /\ WorkOK(Work) /\ Fits(Work, dev) /\ (life = "running" => Again(Work)) /\ Work.jobs = jobs
      /\ "device" \in Key
  BY <1>1 DEF WorkFits, Work, Key
<1>5. dev # NoDevice /\ dev \in DeviceSet
  BY <1>2, <1>3, <1>4, DeviceTypes DEF Fits
<1>6. dev' \in Devices /\ dev' # NoDevice /\ Kept(dev, dev') /\ Sound(dev') /\ Told(dev') = Told(dev)
  <2>1. CASE dev' \in Reconciled(dev)
    <3>1. dev' \in Devices /\ dev' # NoDevice /\ Kept(dev, dev') /\ Sound(dev')
      BY <1>3, <1>5, <2>1, ReconciledKeeps, ReconciledSound
    <3>2. dev'.instance = dev.instance /\ dev'.version = dev.version
      BY <1>3, <1>5, <2>1, ReconciledKeeps
    <3>3. QED
      BY <3>1, <3>2 DEF Told
  <2>2. CASE Commits(dev, jobs["device"].fenced) /\ dev' \in Reconciled(c)
    <3>1. jobs["device"].fenced = "no" /\ ~dev.identityConflict
      BY <2>2 DEF Commits
    <3>2. jobs["device"].report \in ReportSet
      BY <1>4, WorkTypes
    <3>3. /\ c \in DeviceSet /\ Kept(dev, c) /\ c.instance = dev.instance /\ c.version = dev.version
          /\ c.identityConflict => c.state = "conflict"
          /\ \/ c = dev
             \/ c.state = "conflict"
             \/ jobs["device"].report.kind = "full" /\ c.info = jobs["device"].report.change
      BY <1>4, <1>5, <3>1, <3>2, CommitKeeps
    <3> HIDE DEF c
    <3>4. Told(c) = Told(dev)
      BY <3>3 DEF Told
    <3>5. c \in Devices /\ c # NoDevice
      BY <3>3, DeviceTypes DEF Devices
    <3>6. Sound(c)
      <4>1. c.instance <= points[Len(points)].instance /\ c.version <= points[Len(points)].version
        BY <1>3, <1>5, <3>3 DEF Sound
      <4>2. jobs["device"].report.kind = "full" => jobs["device"].report.change >= Told(dev)
        BY <1>4, <3>1 DEF Fits
      <4>3. c.state = "verified" /\ c.by = "device" => c.info >= Told(c)
        BY <1>3, <1>5, <3>3, <3>4, <4>2 DEF Sound
      <4>4. QED
        BY <3>3, <4>1, <4>3 DEF Sound
    <3>7. dev' \in Devices /\ dev' # NoDevice /\ Kept(c, dev') /\ Sound(dev')
      BY <2>2, <3>5, <3>6, ReconciledKeeps, ReconciledSound
    <3>8. Kept(dev, dev')
      BY <1>3, <3>3, <3>5, <3>7, KeptAgain
    <3>9. dev'.instance = c.instance /\ dev'.version = c.version
      BY <2>2, <3>5, ReconciledKeeps
    <3>10. QED
      BY <3>4, <3>7, <3>8, <3>9 DEF Told
  <2>3. QED
    BY <1>2, <2>1, <2>2
<1>7. Sound(dev)'
  BY <1>2, <1>6 DEF Sound
<1>8. boot \in {"saving", "done"}
  BY <1>1, <1>2 DEF EngineOK, Phases
<1>9. b \in BOOLEAN /\ (b \/ UNCHANGED <<dev, seed>>)
  BY <1>2
<1> HIDE DEF b, c
<1>10. StoreOK' /\ durable' = durable
  BY <1>1, <1>2, <1>3, <1>6, <1>7, <1>8, <1>9, StoreKeeps
<1>11. Fits(Work, dev')
  BY <1>4, <1>6 DEF Fits
<1>12. WorkOK(Taken("device")) /\ Fits(Taken("device"), dev') /\ Again(Taken("device"))
  BY <1>2, <1>4, <1>11, TakenKeeps
<1> DEFINE a == Departs
<1>13. a \in BOOLEAN /\ "departure" \in {"news", "departure", "seed"} /\ "departure" # "news"
  BY DEF Departs
<1>14. SetWork(Fence(Taken("device"), "departure", a))
  BY <1>2
<1> HIDE DEF a
<1>15. /\ WorkOK(Fence(Taken("device"), "departure", a)) /\ Fits(Fence(Taken("device"), "departure", a), dev')
       /\ Again(Fence(Taken("device"), "departure", a))
  BY <1>6, <1>12, <1>13, FenceKeeps
<1>16. WorkFits'
  BY <1>14, <1>15, WorkGiven
<1>17. EngineOK'
  BY <1>1, <1>2, <1>8, EngineSame
<1>18. Points'
  BY <1>1, <1>2 DEF Points
<1>19. IInv'
  BY <1>10, <1>16, <1>17, <1>18, Parts, PTL
<1>20. QED
  BY <1>6, <1>10, <1>19

-----------------------------------------------------------------------------
\* A device that nothing was heard of is sound.
LEMMA NewDeviceSound ==
  ASSUME Points
  PROVE  Sound(NewDevice)
<1>1. points \in Seq([instance : Nat, version : Nat]) /\ Len(points) \in 1..Len(points)
  BY DEF Points
<1>2. points[Len(points)] \in [instance : Nat, version : Nat]
  BY <1>1, Element
<1>3. points[Len(points)].instance \in Nat /\ points[Len(points)].version \in Nat
  BY <1>2
<1>4. /\ NewDevice.identityConflict = FALSE /\ NewDevice.instance = 0 /\ NewDevice.version = 0
      /\ NewDevice.state = "candidate"
  BY DEF NewDevice
<1>5. QED
  BY <1>3, <1>4 DEF Sound

\* The report of the seed fences the inspection of the device.
LEMMA SeedFences ==
  ASSUME NEW w, WorkOK(w), Again(w), NEW d, w.jobs["device"].stage # "none" => d # NoDevice
  PROVE  /\ WorkOK(Fence(w, "seed", TRUE)) /\ Fits(Fence(w, "seed", TRUE), d)
         /\ Again(Fence(w, "seed", TRUE))
<1>1. \A c \in BOOLEAN : Fits(w, d) \/ c =>
        /\ WorkOK(Fence(w, "seed", c)) /\ Fits(Fence(w, "seed", c), d)
        /\ Again(w) /\ ("seed" = "news" => ~c) => Again(Fence(w, "seed", c))
  BY FenceKeeps
<1>2. QED
  BY <1>1

LEMMA CompleteSeedKeeps ==
  ASSUME IInv, CompleteSeed
  PROVE  IInv' /\ durable' = durable /\ Kept(dev, dev')
<1>1. StoreOK /\ EngineOK /\ WorkFits /\ Points
  BY Parts
<1> DEFINE d == IF dev = NoDevice THEN NewDevice ELSE dev
           r == jobs["seed"].report
           c == CommitInspection(d, r, "seed")
<1>2. /\ jobs["seed"].stage = "reported" /\ life = "running" /\ Persist(TRUE)
      /\ UNCHANGED <<life, boot, points, crashes>>
  BY DEF CompleteSeed, world
<1>3. \/ /\ SetWork(Fence(Taken("seed"), "seed", TRUE))
         /\ dev' = d \/ (~d.identityConflict /\ dev' = c)
         /\ seed' \in {seed, TRUE}
      \/ UNCHANGED <<dev, seed>> /\ SetWork(Taken("seed"))
  <2>1. \/ /\ SetWork(Fence(Taken("seed"), "seed", TRUE))
           /\ \E fits \in {TRUE, "bytes" \notin scenario} :
                /\ dev' = IF Commits(d, "no") /\ fits THEN c ELSE d
                /\ seed' = (seed \/ (Commits(d, "no") /\ fits /\ r.kind # "conflict"))
        \/ UNCHANGED <<dev, seed>> /\ SetWork(Taken("seed"))
    BY DEF CompleteSeed, Taken
  <2> HIDE DEF c, r, d
  <2>2. QED
    BY <1>1, <2>1 DEF Commits, StoreOK
<1>4. dev \in Devices /\ Sound(dev) /\ seed \in BOOLEAN
  BY <1>1 DEF StoreOK, Records
<1>5. /\ WorkOK(Work) /\ Fits(Work, dev) /\ (life = "running" => Again(Work)) /\ Work.jobs = jobs
      /\ "seed" \in Key
  BY <1>1 DEF WorkFits, Work, Key
<1>6. /\ d \in DeviceSet /\ d \in Devices /\ d # NoDevice /\ Kept(dev, d) /\ Sound(d)
      /\ dev # NoDevice => d = dev
  <2>1. CASE dev = NoDevice
    BY <1>1, <2>1, NewDeviceType, NewDeviceSound, DeviceTypes DEF Kept
  <2>2. CASE dev # NoDevice
    BY <1>4, <2>2, DeviceTypes, KeptItself
  <2>3. QED
    BY <2>1, <2>2
<1>7. r \in ReportSet
  BY <1>5, WorkTypes
<1>8. ~d.identityConflict => c \in Devices /\ c # NoDevice /\ Kept(dev, c) /\ Sound(c)
  <2> SUFFICES ASSUME ~d.identityConflict PROVE c \in Devices /\ c # NoDevice /\ Kept(dev, c) /\ Sound(c)
    OBVIOUS
  <2> HIDE DEF d, r
  <2>1. /\ c \in DeviceSet /\ Kept(d, c) /\ c.instance = d.instance /\ c.version = d.version
        /\ c.identityConflict => c.state = "conflict"
        /\ c = d \/ c.state = "conflict" \/ c.by = "seed"
    BY <1>5, <1>6, <1>7, CommitKeeps
  <2> HIDE DEF c
  <2>2. c \in Devices /\ c # NoDevice
    BY <2>1, DeviceTypes DEF Devices
  <2>3. Kept(dev, c)
    BY <1>4, <1>6, <2>1, <2>2, KeptAgain
  <2>4. Sound(c)
    BY <1>6, <2>1 DEF Sound
  <2>5. QED
    BY <2>2, <2>3, <2>4
<1> HIDE DEF c, r, d
<1>9. /\ dev' \in Devices /\ Kept(dev, dev') /\ Sound(dev') /\ seed' \in BOOLEAN
      /\ jobs["device"].stage # "none" => dev' # NoDevice
  <2>1. jobs["device"].stage # "none" => dev # NoDevice
    BY <1>5 DEF Fits
  <2>2. CASE UNCHANGED <<dev, seed>>
    BY <1>4, <2>1, <2>2, KeptItself
  <2>3. CASE seed' \in {seed, TRUE} /\ (dev' = d \/ (~d.identityConflict /\ dev' = c))
    BY <1>4, <1>6, <1>8, <2>3
  <2>4. QED
    BY <1>3, <2>2, <2>3
<1>10. Sound(dev)'
  BY <1>2, <1>9 DEF Sound
<1>11. boot \in {"saving", "done"}
  BY <1>1, <1>2 DEF EngineOK, Phases
<1>12. StoreOK' /\ durable' = durable
  BY <1>1, <1>2, <1>9, <1>10, <1>11, StoreKeeps
<1>13. /\ WorkOK(Taken("seed")) /\ Fits(Taken("seed"), dev) /\ Again(Taken("seed"))
       /\ Taken("seed").jobs["device"].stage # "none" => dev' # NoDevice
  BY <1>2, <1>5, <1>9, TakenKeeps
<1>14. WorkFits'
  <2>1. CASE UNCHANGED <<dev, seed>> /\ SetWork(Taken("seed"))
    BY <1>13, <2>1, WorkGiven
  <2>2. CASE SetWork(Fence(Taken("seed"), "seed", TRUE))
    <3>1. /\ WorkOK(Fence(Taken("seed"), "seed", TRUE)) /\ Fits(Fence(Taken("seed"), "seed", TRUE), dev')
          /\ Again(Fence(Taken("seed"), "seed", TRUE))
      BY <1>13, SeedFences
    <3>2. QED
      BY <2>2, <3>1, WorkGiven
  <2>3. QED
    BY <1>3, <2>1, <2>2
<1>15. EngineOK'
  BY <1>1, <1>2, <1>11, EngineSame
<1>16. Points'
  BY <1>1, <1>2 DEF Points
<1>17. IInv'
  BY <1>12, <1>14, <1>15, <1>16, Parts, PTL
<1>18. QED
  BY <1>9, <1>12, <1>17

-----------------------------------------------------------------------------
\* A step that leaves the device as it is, and may advance the revision.
LEMMA StoreBumped ==
  ASSUME StoreOK, NEW b \in BOOLEAN, Bump(b) \/ Persist(b), UNCHANGED <<dev, seed, points>>,
         boot # "loading", boot' # "loading", boot' = "unread" <=> boot = "unread"
  PROVE  /\ StoreOK' /\ durable' = durable
         /\ Persist(b) /\ ~b /\ saving # "settled" /\ saving' # "writing" => ~unsaved'
         /\ ~unsaved /\ ~b => ~unsaved'
<1>1. dev \in Devices /\ seed \in BOOLEAN /\ Sound(dev)
  BY DEF StoreOK, Records
<1>2. dev' \in Devices /\ seed' \in BOOLEAN /\ Kept(dev, dev') /\ Sound(dev)'
  BY <1>1, KeptItself DEF Sound
<1>3. b \/ UNCHANGED <<dev, seed>>
  OBVIOUS
<1>4. QED
  BY <1>2, <1>3, StoreKeeps

LEMMA FinishKeeps ==
  ASSUME IInv, NEW k \in Key, Finish(k)
  PROVE  IInv' /\ durable' = durable /\ dev' = dev
<1>1. StoreOK /\ EngineOK /\ WorkFits /\ Points
  BY Parts
<1> DEFINE w == Given(Work, k, NoJob)
           b == jobs'["device"] # jobs["device"]
           c == jobs[k].requeue
<1>2. /\ \/ jobs[k].stage = "persisting"
         \/ jobs[k].stage = "reported" /\ life # "running"
      /\ IF life = "running" THEN SetWork(Pump(EnqueueIf(w, k, c))) ELSE SetWork(w)
      /\ Bump(b) /\ UNCHANGED <<life, boot, dev, seed, points, crashes>>
  BY DEF Finish, Given, Work, world, inventory
<1>3. WorkOK(Work) /\ Fits(Work, dev) /\ (life = "running" => Again(Work)) /\ Work.jobs = jobs
  BY <1>1 DEF WorkFits, Work
<1>4. c \in BOOLEAN
  BY <1>3, WorkTypes
<1>5. Work.jobs[k].stage # "queued" /\ NoJob \in JobSet /\ (NoJob.report.kind # "none" => NoJob.stage = "reported")
  BY <1>2, <1>3, NoJobType
<1>6. /\ WorkOK(w) /\ w.jobs[k] = NoJob /\ w.queue = Work.queue
      /\ w.jobs = [Work.jobs EXCEPT ![k] = NoJob]
      /\ \A i \in Key \ {k} : w.jobs[i] = Work.jobs[i]
  BY <1>3, <1>5, JobKeeps
<1> HIDE DEF w, b, c
<1>7. Fits(w, dev)
  BY <1>3, <1>6, NoJobType DEF Fits, Key
<1>8. life = "running" => Again(w)
  BY <1>3, <1>6, NoJobType DEF Again, InFlight, Key
<1>9. k = "device" /\ c => dev # NoDevice
  BY <1>2, <1>3 DEF Fits
<1>10. WorkFits'
  <2>1. CASE life = "running"
    <3> DEFINE v == EnqueueIf(w, k, c)
    <3>1. WorkOK(v) /\ Fits(v, dev) /\ Again(v)
      BY <1>4, <1>6, <1>7, <1>8, <1>9, <2>1, EnqueueKeeps
    <3>2. SetWork(Pump(v))
      BY <1>2, <2>1
    <3> HIDE DEF v
    <3>3. WorkOK(Pump(v)) /\ Fits(Pump(v), dev) /\ Again(Pump(v))
      BY <3>1, PumpKeeps
    <3>4. QED
      BY <1>2, <3>2, <3>3, WorkGiven
  <2>2. CASE life # "running"
    BY <1>2, <1>6, <1>7, <2>2, WorkGiven
  <2>3. QED
    BY <2>1, <2>2
<1>11. boot \in {"saving", "done", "failed"} /\ life \in {"running", "closing"}
  BY <1>1, <1>2, Busy
<1>12. b \in BOOLEAN
  BY DEF b
<1>13. StoreOK' /\ durable' = durable
  BY <1>1, <1>2, <1>11, <1>12, StoreBumped
<1>14. EngineOK'
  BY <1>1, <1>2, <1>11, EngineSame
<1>15. Points'
  BY <1>1, <1>2 DEF Points
<1>16. IInv'
  BY <1>10, <1>13, <1>14, <1>15, Parts, PTL
<1>17. QED
  BY <1>2, <1>13, <1>16

-----------------------------------------------------------------------------
\* shutdown(): the jobs that wait are gone.
LEMMA ShutdownKeeps ==
  ASSUME WorkFits, Shutdown, dev' = dev
  PROVE  WorkFits' /\ life' = "closing" /\ (NoWork => NoWork')
<1> DEFINE j == [k \in Key |-> IF InFlight(Work, k) THEN jobs[k] ELSE NoJob]
           w == [jobs |-> j, queue |-> << >>]
<1>1. WorkOK(Work) /\ Fits(Work, dev) /\ Work.jobs = jobs
  BY DEF WorkFits, Work
<1>2. jobs \in [Key -> JobSet] /\ NoJob \in JobSet
  BY <1>1, WorkTypes, NoJobType
<1>3. j \in [Key -> JobSet]
  BY <1>2
<1>4. \A k \in Key : j[k] = jobs[k] \/ j[k] = NoJob
  OBVIOUS
<1>5. << >> \in Seq(Key) /\ Len(<< >>) = 0
  OBVIOUS
<1>6. w.jobs = j /\ w.queue = << >>
  OBVIOUS
<1>7. SetWork(w) /\ life' = "closing"
  BY DEF Shutdown, SetWork
<1>8. NoWork => j = [k \in Key |-> NoJob]
  <2>1. NoWork => \A k \in Key : j[k] = NoJob
    BY NoJobType DEF NoWork
  <2>2. QED
    BY <2>1
<1>9. w \in WorkSet
  BY <1>3, <1>5 DEF WorkSet
<1>10. NoWork => NoWork'
  BY <1>6, <1>7, <1>8 DEF NoWork, SetWork
<1> HIDE DEF w, j
<1>11. WorkOK(w)
  BY <1>1, <1>4, <1>5, <1>6, <1>9, NoJobType DEF WorkOK, Waiting
<1>12. Fits(w, dev')
  BY <1>1, <1>4, <1>6, NoJobType DEF Fits, Key
<1>13. WorkFits'
  BY <1>7, <1>11, <1>12, WorkGiven
<1>14. QED
  BY <1>7, <1>10, <1>13

LEMMA CloseKeeps ==
  ASSUME IInv, Close \/ LoadFails \/ (Open /\ Shutdown)
  PROVE  IInv' /\ durable' = durable /\ dev' = dev
<1>1. StoreOK /\ EngineOK /\ WorkFits /\ Points
  BY Parts
<1>2. /\ Shutdown /\ UNCHANGED <<dev, seed, store, points, crashes>>
      /\ \/ boot' = boot /\ life \in {"starting", "running"}
         \/ boot = "loading" /\ boot' = "unread"
         \/ boot = "opening" /\ boot' = "failed"
  <2>1. CASE Close
    BY <2>1 DEF Close, inventory, world
  <2>2. CASE LoadFails
    BY <2>2 DEF LoadFails, inventory, world
  <2>3. CASE Open /\ Shutdown
    <3>1. life' = "closing"
      BY <2>3 DEF Shutdown
    <3>2. QED
      BY <2>3, <3>1 DEF Open, inventory, world
  <2>4. QED
    BY <2>1, <2>2, <2>3
<1>3. WorkFits' /\ life' = "closing" /\ (NoWork => NoWork')
  BY <1>1, <1>2, ShutdownKeeps
<1>4. UNCHANGED <<unsaved, saving, durable>>
  BY <1>2 DEF store
<1>5. Phases'
  BY <1>1, <1>2, <1>3, <1>4 DEF EngineOK, Phases
<1>6. EngineOK'
  BY <1>1, <1>2, <1>3, <1>5 DEF EngineOK
<1>7. StoreOK'
  BY <1>1, <1>2, StoreSame
<1>8. Points'
  BY <1>1, <1>2 DEF Points
<1>9. IInv'
  BY <1>3, <1>6, <1>7, <1>8, Parts, PTL
<1>10. QED
  BY <1>2, <1>4, <1>9

-----------------------------------------------------------------------------
\* The inspections stay as they are.
LEMMA WorkSame ==
  ASSUME WorkFits, UNCHANGED <<jobs, queue, dev>>, life' = "running" => life = "running"
  PROVE  WorkFits'
<1>1. WorkOK(Work) /\ Fits(Work, dev') /\ (life' = "running" => Again(Work))
  BY DEF WorkFits
<1>2. SetWork(Work)
  BY DEF SetWork, Work
<1>3. QED
  BY <1>1, <1>2, WorkGiven

LEMMA SaveKeeps ==
  ASSUME IInv, Save
  PROVE  IInv' /\ durable' = snap /\ Kept(durable.dev, durable'.dev) /\ dev' = dev
<1>1. StoreOK /\ EngineOK /\ WorkFits /\ Points
  BY Parts
<1>2. /\ saving = "writing" /\ boot # "unread" /\ durable' = snap
      /\ \/ moved /\ snap' = Content /\ moved' = FALSE /\ saving' = saving /\ unsaved' = unsaved
         \/ ~moved /\ saving' = "settled" /\ unsaved' = FALSE /\ snap' = NoContent /\ moved' = moved
      /\ UNCHANGED <<life, boot, dev, seed, jobs, queue, points, crashes>>
  BY DEF Save, inventory, work, world
<1>3. /\ unsaved /\ (~moved => snap = Content) /\ moved \in BOOLEAN
      /\ dev \in Devices /\ seed \in BOOLEAN /\ snap \in ContentSet /\ durable \in ContentSet
      /\ Sound(dev) /\ Sound(durable.dev) /\ Sound(snap.dev)
  BY <1>1, <1>2 DEF StoreOK, Records
<1>4. Kept(durable.dev, snap.dev) /\ Kept(snap.dev, dev)
  BY <1>1, <1>2 DEF StoreOK, Ascending
<1>5. Content \in ContentSet /\ Content.dev = dev /\ Content' = Content /\ Kept(dev, dev)
  BY <1>1, <1>2, ContentTypes DEF Content
<1>6. NoContent \in ContentSet /\ NoContent.dev = NoDevice
  BY NoContentType
<1>7. Ascending'
  BY <1>2, <1>4, <1>5 DEF Ascending
<1>8. Records'
  BY <1>2, <1>3, <1>5, <1>6 DEF Records, Sound
<1>9. StoreOK'
  <2>1. saving' = "writing" => unsaved' /\ (~moved' => snap' = Content')
    BY <1>2, <1>3, <1>5
  <2>2. ~unsaved' => durable' = Content'
    BY <1>2, <1>3, <1>5
  <2>3. /\ unsaved' \in BOOLEAN /\ moved' \in BOOLEAN /\ saving' \in {"none", "writing", "settled"}
        /\ snap' \in ContentSet /\ durable' \in ContentSet /\ dev' \in Devices /\ seed' \in BOOLEAN
    BY <1>2, <1>3, <1>5, <1>6
  <2>4. QED
    BY <1>7, <1>8, <2>1, <2>2, <2>3 DEF StoreOK
<1>10. EngineOK'
  <2>1. Phases'
    BY <1>1, <1>2 DEF EngineOK, Phases, NoWork
  <2>2. life = "flushing" /\ saving' # "writing" => ~unsaved'
    BY <1>2
  <2>3. life = "closed" => ~unsaved'
    BY <1>1, <1>2, <1>3 DEF EngineOK
  <2>4. QED
    BY <1>1, <1>2, <2>1, <2>2, <2>3 DEF EngineOK
<1>11. WorkFits'
  BY <1>1, <1>2, WorkSame
<1>12. Points'
  BY <1>1, <1>2 DEF Points
<1>13. IInv'
  BY <1>9, <1>10, <1>11, <1>12, Parts, PTL
<1>14. QED
  BY <1>2, <1>4, <1>13

LEMMA SaveFailsKeeps ==
  ASSUME IInv, SaveFails
  PROVE  IInv' /\ Kept(durable.dev, durable'.dev) /\ dev' = dev
<1>1. StoreOK /\ EngineOK /\ WorkFits /\ Points
  BY Parts
<1>2. /\ saving = "writing" /\ durable' \in (IF boot = "unread" THEN {durable} ELSE {durable, snap})
      /\ saving' = "settled" /\ boot' = IF boot = "saving" THEN "failed" ELSE boot
      /\ snap' = NoContent /\ moved' = FALSE
      /\ UNCHANGED <<unsaved, dev, seed, points, crashes>>
      /\ IF boot = "saving" /\ life = "running" THEN Shutdown
         ELSE life' = (IF life = "flushing" THEN "unflushed" ELSE life) /\ UNCHANGED <<jobs, queue>>
  BY DEF SaveFails, inventory, work, world
<1>3. /\ unsaved /\ dev \in Devices /\ seed \in BOOLEAN /\ snap \in ContentSet /\ durable \in ContentSet
      /\ Sound(dev) /\ Sound(durable.dev) /\ Sound(snap.dev)
  BY <1>1, <1>2 DEF StoreOK, Records
<1>4. boot # "unread" => Kept(durable.dev, snap.dev) /\ Kept(snap.dev, dev)
  BY <1>1, <1>2 DEF StoreOK, Ascending
<1>5. boot # "loading"
  BY <1>1, <1>2 DEF EngineOK, Phases
<1>6. Kept(durable.dev, durable.dev)
  BY <1>1, ContentTypes
<1>7. NoContent \in ContentSet /\ NoContent.dev = NoDevice
  BY NoContentType
<1>8. durable' \in {durable, snap} /\ Kept(durable.dev, durable'.dev)
  BY <1>2, <1>4, <1>6
<1>9. boot' # "unread" => Kept(durable'.dev, dev)
  <2>1. boot # "unread" => Kept(durable.dev, dev)
    BY <1>1, <1>5 DEF StoreOK, Ascending
  <2>2. QED
    BY <1>2, <1>4, <1>8, <2>1
<1>10. Ascending'
  BY <1>2, <1>9 DEF Ascending
<1>11. Records'
  BY <1>2, <1>3, <1>7, <1>8 DEF Records, Sound
<1>12. StoreOK'
  <2>1. /\ unsaved' \in BOOLEAN /\ moved' \in BOOLEAN /\ saving' \in {"none", "writing", "settled"}
        /\ snap' \in ContentSet /\ durable' \in ContentSet /\ dev' \in Devices /\ seed' \in BOOLEAN
    BY <1>2, <1>3, <1>7, <1>8
  <2>2. unsaved' /\ saving' # "writing"
    BY <1>2, <1>3
  <2>3. QED
    BY <1>10, <1>11, <2>1, <2>2 DEF StoreOK
<1>13. /\ WorkFits'
       /\ \/ boot = "saving" /\ life = "running" /\ life' = "closing"
          \/ /\ ~(boot = "saving" /\ life = "running")
             /\ life' = (IF life = "flushing" THEN "unflushed" ELSE life) /\ UNCHANGED <<jobs, queue>>
  <2>1. CASE boot = "saving" /\ life = "running"
    BY <1>1, <1>2, <2>1, ShutdownKeeps
  <2>2. CASE ~(boot = "saving" /\ life = "running")
    <3>1. life' = (IF life = "flushing" THEN "unflushed" ELSE life) /\ UNCHANGED <<jobs, queue, dev>>
      BY <1>2, <2>2
    <3>2. WorkFits'
      BY <1>1, <3>1, WorkSame
    <3>3. QED
      BY <2>2, <3>1, <3>2
  <2>3. QED
    BY <2>1, <2>2
<1>14. EngineOK'
  <2>1. Phases'
    BY <1>1, <1>2, <1>5, <1>13 DEF EngineOK, Phases, NoWork
  <2>2. life # "closed"
    BY <1>1, <1>3 DEF EngineOK
  <2>3. life' \notin {"flushing", "closed"}
    BY <1>13, <2>2
  <2>4. QED
    BY <1>1, <1>2, <1>13, <2>1, <2>3 DEF EngineOK
<1>15. Points'
  BY <1>1, <1>2 DEF Points
<1>16. IInv'
  BY <1>12, <1>13, <1>14, <1>15, Parts, PTL
<1>17. QED
  BY <1>2, <1>8, <1>16

\* The steps of the engine that neither read nor write the inventory: the slot of
\* a save is free again, or the engine goes on to its next state.
LEMMA IdleKeeps ==
  ASSUME IInv, SaveCleared \/ StartCancelled \/ Closed
  PROVE  IInv' /\ durable' = durable /\ dev' = dev
<1>1. StoreOK /\ EngineOK /\ WorkFits /\ Points
  BY Parts
<1>2. UNCHANGED <<dev, seed, jobs, queue, unsaved, snap, moved, durable, points, crashes>>
  <2>1. CASE SaveCleared
    BY <2>1 DEF SaveCleared, inventory, work, world
  <2>2. CASE StartCancelled
    BY <2>2 DEF StartCancelled, inventory, work, store, world
  <2>3. CASE Closed
    BY <2>3 DEF Closed, inventory, work, store, world
  <2>4. QED
    BY <2>1, <2>2, <2>3
<1>3. \/ saving = "settled" /\ saving' = "none" /\ UNCHANGED <<life, boot>>
      \/ /\ life = "closing" /\ boot \in {"opening", "saving"} /\ boot' = "failed"
         /\ UNCHANGED <<life, saving>>
      \/ /\ life \in {"flushing", "unflushed"} /\ saving # "writing"
         /\ life' = (IF life = "flushing" THEN "closed" ELSE "failed") /\ UNCHANGED <<boot, saving>>
  <2>1. CASE SaveCleared
    BY <2>1 DEF SaveCleared
  <2>2. CASE StartCancelled
    BY <2>2 DEF StartCancelled, store
  <2>3. CASE Closed
    BY <2>3 DEF Closed, store
  <2>4. QED
    BY <2>1, <2>2, <2>3
<1>4. Content' = Content
  BY <1>2 DEF Content
<1>5. Ascending'
  BY <1>1, <1>2, <1>3 DEF StoreOK, Ascending
<1>6. Records'
  BY <1>1, <1>2 DEF StoreOK, Records, Sound
<1>7. StoreOK'
  BY <1>1, <1>2, <1>3, <1>4, <1>5, <1>6 DEF StoreOK
<1>8. EngineOK'
  <2>1. Phases'
    BY <1>1, <1>2, <1>3 DEF EngineOK, Phases, NoWork
  <2>2. (life' = "flushing" /\ saving' # "writing") \/ life' = "closed" => ~unsaved
    BY <1>1, <1>3 DEF EngineOK
  <2>3. QED
    BY <1>1, <1>2, <1>3, <2>1, <2>2 DEF EngineOK
<1>9. WorkFits'
  BY <1>1, <1>2, <1>3, WorkSame
<1>10. Points'
  BY <1>1, <1>2 DEF Points
<1>11. IInv'
  BY <1>7, <1>8, <1>9, <1>10, Parts, PTL
<1>12. QED
  BY <1>2, <1>11

-----------------------------------------------------------------------------
LEMMA LoadKeeps ==
  ASSUME IInv, Load
  PROVE  IInv' /\ durable' = durable /\ dev = NoDevice
<1>1. StoreOK /\ EngineOK /\ WorkFits /\ Points
  BY Parts
<1>2. /\ boot = "loading" /\ boot' = "opening" /\ dev' = durable.dev /\ seed' = durable.seed
      /\ UNCHANGED <<life, jobs, queue, unsaved, saving, snap, moved, durable, points, crashes>>
  BY DEF Load, store, world
<1>3. NoWork /\ dev = NoDevice /\ saving = "none" /\ unsaved
  BY <1>1, <1>2 DEF EngineOK, Phases
<1>4. durable.dev \in Devices /\ durable.seed \in BOOLEAN /\ Kept(durable.dev, durable.dev)
  BY <1>1, ContentTypes
<1>5. Ascending' /\ Records'
  BY <1>1, <1>2, <1>3, <1>4 DEF StoreOK, Ascending, Records, Sound
<1>6. StoreOK'
  BY <1>1, <1>2, <1>3, <1>4, <1>5 DEF StoreOK
<1>7. EngineOK'
  <2>1. Phases'
    BY <1>1, <1>2, <1>3 DEF EngineOK, Phases, NoWork
  <2>2. QED
    BY <1>1, <1>2, <2>1 DEF EngineOK
<1>8. WorkFits'
  <2>1. WorkOK(Work) /\ Again(Work)
    BY <1>1, <1>3, NoneRuns DEF WorkFits
  <2>2. Fits(Work, dev')
    BY <1>3, NoJobType DEF Fits, NoWork, Work, Key
  <2>3. SetWork(Work)
    BY <1>2 DEF SetWork, Work
  <2>4. QED
    BY <2>1, <2>2, <2>3, WorkGiven
<1>9. Points'
  BY <1>1, <1>2 DEF Points
<1>10. IInv'
  BY <1>6, <1>7, <1>8, <1>9, Parts, PTL
<1>11. QED
  BY <1>2, <1>3, <1>10

LEMMA OpenKeeps ==
  ASSUME IInv, Open, ~Shutdown
  PROVE  IInv' /\ durable' = durable /\ dev' = dev
<1> DEFINE b == "seed" \in scenario
<1>1. StoreOK /\ EngineOK /\ WorkFits /\ Points
  BY Parts
<1>2. /\ boot = "opening" /\ life = "starting" /\ life' = "running" /\ boot' = "saving"
      /\ Persist(b) /\ UNCHANGED <<dev, seed, jobs, queue, points, crashes>>
  BY DEF Open, inventory, work, world
<1>3. NoWork
  BY <1>1, <1>2 DEF EngineOK, Phases
<1>4. b \in BOOLEAN
  OBVIOUS
<1> HIDE DEF b
<1>5. StoreOK' /\ durable' = durable
  BY <1>1, <1>2, <1>4, StoreBumped
<1>6. EngineOK'
  <2>1. Phases'
    BY <1>1, <1>2 DEF EngineOK, Phases
  <2>2. QED
    BY <1>1, <1>2, <2>1 DEF EngineOK
<1>7. WorkFits'
  <2>1. WorkOK(Work) /\ Fits(Work, dev') /\ Again(Work)
    BY <1>1, <1>2, <1>3, NoneRuns DEF WorkFits
  <2>2. SetWork(Work)
    BY <1>2 DEF SetWork, Work
  <2>3. QED
    BY <2>1, <2>2, WorkGiven
<1>8. Points'
  BY <1>1, <1>2 DEF Points
<1>9. IInv'
  BY <1>5, <1>6, <1>7, <1>8, Parts, PTL
<1>10. QED
  BY <1>2, <1>5, <1>9

\* The two enqueues of the engine's own rounds.
LEMMA RoundKeeps ==
  ASSUME NEW w, WorkOK(w), Again(w), NEW d, Fits(w, d), NEW c \in BOOLEAN, c => d # NoDevice,
         NEW s \in BOOLEAN
  PROVE  /\ WorkOK(EnqueueIf(EnqueueIf(w, "device", c), "seed", s))
         /\ Fits(EnqueueIf(EnqueueIf(w, "device", c), "seed", s), d)
         /\ Again(EnqueueIf(EnqueueIf(w, "device", c), "seed", s))
<1> DEFINE v == EnqueueIf(w, "device", c)
<1>1. "device" \in Key /\ "seed" \in Key /\ "seed" # "device"
  BY DEF Key
<1>2. WorkOK(v) /\ Fits(v, d) /\ Again(v)
  BY <1>1, EnqueueKeeps
<1> HIDE DEF v
<1>3. WorkOK(EnqueueIf(v, "seed", s)) /\ Fits(EnqueueIf(v, "seed", s), d) /\ Again(EnqueueIf(v, "seed", s))
  BY <1>1, <1>2, EnqueueKeeps
<1>4. QED
  BY <1>3 DEF v

LEMMA StartedKeeps ==
  ASSUME IInv, Started
  PROVE  IInv' /\ durable' = durable /\ dev' = dev
<1> DEFINE c == dev # NoDevice /\ dev.state # "departed"
           s == "seed" \in scenario
           b == jobs' # jobs
<1>1. StoreOK /\ EngineOK /\ WorkFits /\ Points
  BY Parts
<1>2. /\ boot = "saving" /\ life = "running" /\ boot' = "done"
      /\ SetWork(EnqueueIf(EnqueueIf(Work, "device", c), "seed", s))
      /\ Bump(b) /\ UNCHANGED <<life, dev, seed, points, crashes>>
  BY DEF Started, inventory, world
<1>3. c \in BOOLEAN /\ s \in BOOLEAN /\ b \in BOOLEAN /\ (c => dev # NoDevice)
  OBVIOUS
<1> HIDE DEF b, c, s
<1>4. StoreOK' /\ durable' = durable
  BY <1>1, <1>2, <1>3, StoreBumped
<1>5. EngineOK'
  <2>1. Phases'
    BY <1>1, <1>2 DEF EngineOK, Phases
  <2>2. QED
    BY <1>1, <1>2, <2>1 DEF EngineOK
<1>6. WorkFits'
  <2>1. WorkOK(Work) /\ Fits(Work, dev) /\ Again(Work)
    BY <1>1, <1>2 DEF WorkFits
  <2>2. /\ WorkOK(EnqueueIf(EnqueueIf(Work, "device", c), "seed", s))
        /\ Fits(EnqueueIf(EnqueueIf(Work, "device", c), "seed", s), dev)
        /\ Again(EnqueueIf(EnqueueIf(Work, "device", c), "seed", s))
    BY <1>3, <2>1, RoundKeeps
  <2>3. QED
    BY <1>2, <2>2, WorkGiven
<1>7. Points'
  BY <1>1, <1>2 DEF Points
<1>8. IInv'
  BY <1>4, <1>5, <1>6, <1>7, Parts, PTL
<1>9. QED
  BY <1>2, <1>4, <1>8

LEMMA FlushKeeps ==
  ASSUME IInv, Flush
  PROVE  IInv' /\ durable' = durable /\ dev' = dev
<1> DEFINE b == FALSE
<1>1. StoreOK /\ EngineOK /\ WorkFits /\ Points
  BY Parts
<1>2. /\ life = "closing" /\ boot \in {"done", "failed", "unread"} /\ saving # "settled"
      /\ \A k \in Key : jobs[k].stage = "none"
      /\ life' = "flushing" /\ Persist(b) /\ UNCHANGED <<boot, dev, seed, jobs, queue, points, crashes>>
  BY DEF Flush, Drained, inventory, work, world
<1>3. b \in BOOLEAN /\ ~b
  OBVIOUS
<1> HIDE DEF b
<1>4. StoreOK' /\ durable' = durable /\ (saving' # "writing" => ~unsaved')
  BY <1>1, <1>2, <1>3, StoreBumped
<1>5. EngineOK'
  <2>1. Phases'
    BY <1>1, <1>2 DEF EngineOK, Phases, NoWork
  <2>2. QED
    BY <1>1, <1>2, <1>4, <2>1 DEF EngineOK
<1>6. WorkFits'
  BY <1>1, <1>2, WorkSame
<1>7. Points'
  BY <1>1, <1>2 DEF Points
<1>8. IInv'
  BY <1>4, <1>5, <1>6, <1>7, Parts, PTL
<1>9. QED
  BY <1>2, <1>4, <1>8

-----------------------------------------------------------------------------
LEMMA ReconcileKeeps ==
  ASSUME IInv, Reconcile
  PROVE  IInv' /\ durable' = durable /\ Kept(dev, dev')
<1>1. StoreOK /\ EngineOK /\ WorkFits /\ Points
  BY Parts
<1> DEFINE a == Departs
           w == Fence(Work, "departure", a)
           c(due) == dev' # NoDevice /\ dev'.state # "departed" /\ due
           s == "seed" \in scenario /\ ~seed
           b == dev' # dev \/ jobs' # jobs
<1>2. /\ life = "running" /\ dev' \in Reconciled(dev) /\ UNCHANGED seed /\ Persist(b)
      /\ UNCHANGED <<life, boot, points, crashes>>
  BY DEF Reconcile, world
<1>3. PICK due \in Due(dev') : SetWork(EnqueueIf(EnqueueIf(w, "device", c(due)), "seed", s))
  BY DEF Reconcile
<1>4. /\ due \in BOOLEAN /\ c(due) \in BOOLEAN /\ s \in BOOLEAN /\ a \in BOOLEAN /\ b \in BOOLEAN
      /\ c(due) => dev' # NoDevice
      /\ b \/ UNCHANGED <<dev, seed>>
  BY <1>1, <1>2, <1>3 DEF Due, StoreOK, Departs
<1>5. dev \in Devices /\ Sound(dev) /\ seed \in BOOLEAN
  BY <1>1 DEF StoreOK, Records
<1>6. /\ dev' \in Devices /\ Kept(dev, dev') /\ Sound(dev') /\ (dev' = NoDevice <=> dev = NoDevice)
      /\ dev # NoDevice => dev'.instance = dev.instance /\ dev'.version = dev.version
  BY <1>2, <1>5, ReconciledKeeps, ReconciledSound
<1>7. Sound(dev)'
  BY <1>2, <1>6 DEF Sound
<1>8. boot \in {"saving", "done"}
  BY <1>1, <1>2 DEF EngineOK, Phases
<1> HIDE DEF b, c, s, a
<1>9. StoreOK' /\ durable' = durable
  BY <1>1, <1>2, <1>4, <1>5, <1>6, <1>7, <1>8, StoreKeeps
<1>10. /\ WorkOK(Work) /\ Again(Work) /\ Fits(Work, dev')
       /\ Work.jobs["device"].stage # "none" => dev' # NoDevice
  <2>1. WorkOK(Work) /\ Again(Work) /\ Fits(Work, dev)
    BY <1>1, <1>2 DEF WorkFits
  <2>2. Work.jobs["device"].stage # "none" => dev # NoDevice
    BY <2>1 DEF Fits
  <2>3. Work.jobs["device"].report.kind # "none" => Work.jobs["device"].stage # "none"
    BY <2>1 DEF WorkOK, Key
  <2>4. dev # NoDevice => Told(dev') = Told(dev)
    BY <1>6 DEF Told
  <2>5. QED
    BY <1>6, <2>1, <2>2, <2>3, <2>4 DEF Fits
<1>11. WorkOK(w) /\ Fits(w, dev') /\ Again(w)
  <2>1. "departure" \in {"news", "departure", "seed"} /\ "departure" # "news"
    OBVIOUS
  <2>2. QED
    BY <1>4, <1>10, <2>1, FenceKeeps
<1> HIDE DEF w
<1> DEFINE q == c(due)
<1>12. q \in BOOLEAN /\ (q => dev' # NoDevice) /\ SetWork(EnqueueIf(EnqueueIf(w, "device", q), "seed", s))
  BY <1>3, <1>4
<1> HIDE DEF q
<1>13. /\ WorkOK(EnqueueIf(EnqueueIf(w, "device", q), "seed", s))
       /\ Fits(EnqueueIf(EnqueueIf(w, "device", q), "seed", s), dev')
       /\ Again(EnqueueIf(EnqueueIf(w, "device", q), "seed", s))
  BY <1>4, <1>11, <1>12, RoundKeeps
<1>14. WorkFits'
  BY <1>12, <1>13, WorkGiven
<1>15. EngineOK'
  BY <1>1, <1>2, <1>8, EngineSame
<1>16. Points'
  BY <1>1, <1>2 DEF Points
<1>17. IInv'
  BY <1>9, <1>14, <1>15, <1>16, Parts, PTL
<1>18. QED
  BY <1>6, <1>9, <1>17

\* An engine without work.
LEMMA Idle == NoWork => WorkFits
<1> SUFFICES ASSUME NoWork PROVE WorkFits
  OBVIOUS
<1>1. Work.jobs = [k \in Key |-> NoJob] /\ Work.queue = << >>
  BY DEF NoWork, Work
<1>2. << >> \in Seq(Key) /\ Len(<< >>) = 0
  OBVIOUS
<1>3. [k \in Key |-> NoJob] \in [Key -> JobSet]
  BY NoJobType
<1>4. Work \in WorkSet
  BY <1>2, <1>3 DEF Work, WorkSet, NoWork
<1>5. \A k \in Key : Work.jobs[k] = NoJob
  BY <1>1
<1>6. WorkOK(Work)
  BY <1>1, <1>2, <1>4, <1>5, NoJobType DEF WorkOK, Waiting
<1>7. Fits(Work, dev)
  BY <1>5, NoJobType DEF Fits, Key
<1>8. QED
  BY <1>6, <1>7, NoneRuns DEF WorkFits

\* The process dies: of a snapshot on its way either content may be on the disk.
LEMMA CrashKeeps ==
  ASSUME IInv, Crash
  PROVE  IInv' /\ Kept(durable.dev, durable'.dev) /\ crashes' # crashes
<1>1. StoreOK /\ EngineOK /\ WorkFits /\ Points
  BY Parts
<1>2. /\ crashes' = crashes + 1 /\ life' = "starting" /\ boot' = "loading" /\ dev' = NoDevice
      /\ seed' = FALSE /\ jobs' = [k \in Key |-> NoJob] /\ queue' = << >>
      /\ durable' \in IF saving = "writing" /\ boot # "unread" THEN {durable, snap} ELSE {durable}
      /\ unsaved' = TRUE /\ saving' = "none" /\ moved' = FALSE /\ snap' = NoContent
      /\ UNCHANGED points
  BY DEF Crash, world
<1>3. crashes \in Nat
  BY <1>1 DEF EngineOK
<1>4. /\ snap \in ContentSet /\ durable \in ContentSet /\ Sound(durable.dev) /\ Sound(snap.dev)
      /\ saving = "writing" /\ boot # "unread" => Kept(durable.dev, snap.dev)
  BY <1>1 DEF StoreOK, Records, Ascending
<1>5. Kept(durable.dev, durable.dev)
  BY <1>1, ContentTypes
<1>6. NoContent \in ContentSet /\ NoContent.dev = NoDevice
  BY NoContentType
<1>7. /\ durable' \in ContentSet /\ Sound(durable'.dev) /\ Kept(durable.dev, durable'.dev)
  BY <1>2, <1>4, <1>5
<1>8. Ascending' /\ Records'
  BY <1>2, <1>6, <1>7 DEF Ascending, Records, Sound
<1>9. StoreOK'
  BY <1>2, <1>6, <1>7, <1>8 DEF StoreOK, Devices
<1>10. EngineOK'
  <2>1. Phases'
    BY <1>2 DEF Phases, NoWork
  <2>2. QED
    BY <1>2, <1>3, <2>1 DEF EngineOK
<1>11. WorkFits'
  <2>1. NoWork'
    BY <1>2 DEF NoWork
  <2>2. QED
    BY <2>1, Idle, PTL
<1>12. Points'
  BY <1>1, <1>2 DEF Points
<1>13. IInv'
  BY <1>9, <1>10, <1>11, <1>12, Parts, PTL
<1>14. QED
  BY <1>2, <1>3, <1>7, <1>13

LEMMA ChangeKeeps ==
  ASSUME IInv, Change
  PROVE  IInv' /\ durable' = durable /\ dev' = dev
<1>1. StoreOK /\ EngineOK /\ WorkFits /\ Points
  BY Parts
<1> DEFINE S == [instance : Nat, version : Nat]
           n == Len(points)
           q == points[n]
<1>2. /\ UNCHANGED <<life, boot, dev, seed, jobs, queue, unsaved, saving, snap, moved, durable, crashes>>
      /\ \E p \in {[instance |-> 1, version |-> 0], [instance |-> 0, version |-> 1]} :
           points' = Append(points, [instance |-> Last(points).instance + p.instance,
                                     version |-> Last(points).version + p.version])
  BY DEF Change, inventory, work, store
<1>3. /\ points \in Seq(S) /\ n \in Nat /\ n > 0 /\ n \in 1..n
      /\ \A i \in 1..n : points[i].instance <= q.instance /\ points[i].version <= q.version
      /\ q.instance + q.version = n + 1 /\ q.instance >= 1
  BY <1>1 DEF Points
<1>4. \A i \in 1..n : points[i] \in S
  BY <1>3, Element
<1>5. /\ \A i \in 1..n : points[i].instance \in Nat /\ points[i].version \in Nat
      /\ q.instance \in Nat /\ q.version \in Nat
  BY <1>3, <1>4
<1>6. PICK e \in S : /\ points' = Append(points, e)
                     /\ e.instance >= q.instance /\ e.version >= q.version
                     /\ e.instance + e.version = n + 2
  <2>1. PICK p \in {[instance |-> 1, version |-> 0], [instance |-> 0, version |-> 1]} :
          points' = Append(points, [instance |-> Last(points).instance + p.instance,
                                    version |-> Last(points).version + p.version])
    BY <1>2
  <2>2. Last(points) = q
    BY DEF Last
  <2> DEFINE x == q.instance + p.instance
             y == q.version + p.version
             e == [instance |-> x, version |-> y]
  <2>3. p.instance \in Nat /\ p.version \in Nat /\ p.instance + p.version = 1
    BY <2>1
  <2>4. points' = Append(points, e)
    BY <2>1, <2>2
  <2> DEFINE qi == q.instance
             qv == q.version
  <2>5. qi \in Nat /\ qv \in Nat /\ qi + qv = n + 1 /\ n \in Nat /\ x = qi + p.instance /\ y = qv + p.version
    BY <1>3, <1>5
  <2> HIDE DEF qi, qv, x, y, n
  <2>6. x \in Nat /\ y \in Nat /\ x >= qi /\ y >= qv /\ x + y = n + 2
    BY <2>3, <2>5
  <2>7. e \in S /\ e.instance = x /\ e.version = y
    BY <2>6
  <2>8. QED
    BY <2>4, <2>6, <2>7 DEF qi, qv
<1> HIDE DEF S, n, q
<1>7. points' \in Seq(S) /\ Len(points') = n + 1 /\ points'[n + 1] = e /\ \A i \in 1..n : points'[i] = points[i]
  BY <1>3, <1>6 DEF n
<1>8. e.instance \in Nat /\ e.version \in Nat
  BY <1>6 DEF S
<1>9. Points'
  <2>1. \A i \in 1..(n + 1) : points'[i].instance <= e.instance /\ points'[i].version <= e.version
    <3> SUFFICES ASSUME NEW i \in 1..(n + 1)
                 PROVE  points'[i].instance <= e.instance /\ points'[i].version <= e.version
      OBVIOUS
    <3>1. CASE i = n + 1
      BY <1>7, <1>8, <3>1
    <3>2. CASE i \in 1..n
      <4>1. points'[i] = points[i] /\ points[i].instance <= q.instance /\ points[i].version <= q.version
        BY <1>3, <1>7, <3>2
      <4>2. points[i].instance \in Nat /\ points[i].version \in Nat
        BY <1>5, <3>2
      <4> DEFINE ai == points[i].instance
                 av == points[i].version
                 qi == q.instance
                 qv == q.version
      <4>3. ai \in Nat /\ av \in Nat /\ qi \in Nat /\ qv \in Nat /\ ai <= qi /\ av <= qv /\ e.instance >= qi /\ e.version >= qv
        BY <1>5, <1>6, <4>1, <4>2
      <4> HIDE DEF ai, av, qi, qv
      <4>4. ai <= e.instance /\ av <= e.version
        BY <1>8, <4>3
      <4>5. QED
        BY <4>1, <4>4 DEF ai, av
    <3>3. QED
      BY <1>3, <3>1, <3>2
  <2>2. points'[Len(points')].instance + points'[Len(points')].version = Len(points') + 1
    BY <1>3, <1>6, <1>7, <1>8
  <2>3. points' \in Seq([instance : Nat, version : Nat]) /\ Len(points') > 0
    BY <1>3, <1>7 DEF S
  <2>4. \A c \in 1..Len(points') : /\ points'[c].instance <= points'[Len(points')].instance
                                   /\ points'[c].version <= points'[Len(points')].version
    BY <1>7, <2>1
  <2>5. points'[Len(points')].instance >= 1
    <3> DEFINE qi == q.instance
               ei == e.instance
    <3>1. qi \in Nat /\ ei \in Nat /\ qi >= 1 /\ ei >= qi
      BY <1>3, <1>5, <1>6, <1>8
    <3> HIDE DEF qi, ei
    <3>2. ei >= 1
      BY <3>1
    <3>3. QED
      BY <1>7, <3>2 DEF ei
  <2>6. QED
    BY <2>2, <2>3, <2>4, <2>5 DEF Points
<1>10. \A d \in Devices : Sound(d) => Sound(d)'
  <2> SUFFICES ASSUME NEW d \in Devices, Sound(d), d # NoDevice
               PROVE  /\ d.instance <= points'[Len(points')].instance
                      /\ d.version <= points'[Len(points')].version
    BY DEF Sound
  <2>1. d.instance \in Nat /\ d.version \in Nat
    BY DeviceTypes
  <2>2. d.instance <= q.instance /\ d.version <= q.version
    BY DEF Sound, q, n
  <2>3. QED
    BY <1>5, <1>6, <1>7, <1>8, <2>1, <2>2
<1>11. /\ dev \in Devices /\ durable.dev \in Devices /\ snap.dev \in Devices
       /\ Sound(dev) /\ Sound(durable.dev) /\ Sound(snap.dev)
  BY <1>1, ContentTypes DEF StoreOK, Records
<1>12. Records'
  BY <1>2, <1>10, <1>11 DEF Records, Sound
<1>13. Ascending' /\ Content' = Content
  BY <1>1, <1>2 DEF StoreOK, Ascending, Content
<1>14. StoreOK'
  BY <1>1, <1>2, <1>12, <1>13 DEF StoreOK
<1>15. EngineOK'
  <2>1. Phases'
    BY <1>1, <1>2 DEF EngineOK, Phases, NoWork
  <2>2. QED
    BY <1>1, <1>2, <2>1 DEF EngineOK
<1>16. WorkFits'
  BY <1>1, <1>2, WorkSame
<1>17. IInv'
  BY <1>9, <1>14, <1>15, <1>16, Parts, PTL
<1>18. QED
  BY <1>2, <1>17

-----------------------------------------------------------------------------
LEMMA InitHolds == DiscoveryInit => IInv
<1> SUFFICES ASSUME DiscoveryInit PROVE IInv
  OBVIOUS
<1>1. /\ life = "starting" /\ boot = "loading" /\ dev = NoDevice /\ seed = FALSE
      /\ jobs = [k \in Key |-> NoJob] /\ queue = << >>
      /\ unsaved = TRUE /\ saving = "none" /\ moved = FALSE
      /\ durable = NoContent /\ snap = NoContent
      /\ points = <<[instance |-> 1, version |-> 1]>> /\ crashes = 0
  BY DEF DiscoveryInit
<1>2. NoContent \in ContentSet /\ NoContent.dev = NoDevice
  BY NoContentType
<1>3. NoDevice \in Devices
  BY DEF Devices
<1>4. Ascending /\ Records
  BY <1>1, <1>2 DEF Ascending, Records, Sound
<1>5. StoreOK
  BY <1>1, <1>2, <1>3, <1>4 DEF StoreOK
<1>6. NoWork
  BY <1>1 DEF NoWork
<1>7. EngineOK
  BY <1>1, <1>6 DEF EngineOK, Phases
<1>8. WorkFits
  BY <1>6, Idle
<1>9. Points
  <2>1. points \in Seq([instance : Nat, version : Nat]) /\ Len(points) = 1
    BY <1>1
  <2>2. points[1].instance = 1 /\ points[1].version = 1
    BY <1>1
  <2>3. QED
    BY <2>1, <2>2 DEF Points
<1>10. QED
  BY <1>5, <1>7, <1>8, <1>9, Parts

LEMMA Stuttering ==
  ASSUME IInv, UNCHANGED discoveryVars
  PROVE  IInv' /\ durable' = durable /\ dev' = dev
<1>1. StoreOK /\ EngineOK /\ WorkFits /\ Points
  BY Parts
<1>2. /\ UNCHANGED <<life, boot, dev, seed, jobs, queue, store, points, crashes>>
      /\ UNCHANGED <<unsaved, saving, snap, moved, durable>>
  BY DEF discoveryVars, inventory, work, store, world
<1>3. StoreOK'
  BY <1>1, <1>2, StoreSame
<1>4. EngineOK'
  <2>1. Phases'
    BY <1>1, <1>2 DEF EngineOK, Phases, NoWork
  <2>2. QED
    BY <1>1, <1>2, <2>1 DEF EngineOK
<1>5. WorkFits'
  BY <1>1, <1>2, WorkSame
<1>6. Points'
  BY <1>1, <1>2 DEF Points
<1>7. IInv'
  BY <1>3, <1>4, <1>5, <1>6, Parts, PTL
<1>8. QED
  BY <1>2, <1>7

\* Every step keeps the invariant, and what is on the disk; and what is remembered,
\* as long as the process lives.
LEMMA StepKeeps ==
  ASSUME IInv, [Next]_vars
  PROVE  /\ IInv' /\ Kept(durable.dev, durable'.dev)
         /\ crashes' = crashes => Kept(dev, dev')
<1>1. /\ dev \in Devices /\ Kept(dev, dev) /\ Kept(durable.dev, durable.dev)
  BY Parts, ContentTypes DEF StoreOK
<1>2. CASE UNCHANGED discoveryVars
  BY <1>1, <1>2, Stuttering
<1>3. CASE \E m \in Message : Receive(m)
  BY <1>1, <1>3, ReceiveKeeps
<1>4. CASE \E k \in Key : Inspect(k) \/ Finish(k)
  BY <1>1, <1>4, InspectKeeps, FinishKeeps
<1>5. CASE CompleteDevice
  BY <1>1, <1>5, CompleteDeviceKeeps
<1>6. CASE CompleteSeed
  BY <1>1, <1>6, CompleteSeedKeeps
<1>7. CASE Save
  BY <1>1, <1>7, SaveKeeps
<1>8. CASE SaveFails
  BY <1>1, <1>8, SaveFailsKeeps
<1>9. CASE SaveCleared \/ StartCancelled \/ Closed
  BY <1>1, <1>9, IdleKeeps
<1>10. CASE Reconcile
  BY <1>1, <1>10, ReconcileKeeps
<1>11. CASE Load
  <2>1. IInv' /\ durable' = durable /\ dev = NoDevice
    BY <1>11, LoadKeeps
  <2>2. QED
    BY <1>1, <2>1 DEF Kept
<1>12. CASE LoadFails \/ Close
  BY <1>1, <1>12, CloseKeeps
<1>13. CASE Open
  BY <1>1, <1>13, OpenKeeps, CloseKeeps
<1>14. CASE Started
  BY <1>1, <1>14, StartedKeeps
<1>15. CASE Flush
  BY <1>1, <1>15, FlushKeeps
<1>16. CASE Crash
  BY <1>16, CrashKeeps
<1>17. CASE Change
  BY <1>1, <1>17, ChangeKeeps
<1>18. DiscoveryNext \/ UNCHANGED discoveryVars
  BY DEF Next, vars
<1>19. QED
  BY <1>2, <1>3, <1>4, <1>5, <1>6, <1>7, <1>8, <1>9, <1>10, <1>11, <1>12, <1>13, <1>14, <1>15,
     <1>16, <1>17, <1>18 DEF DiscoveryNext

-----------------------------------------------------------------------------
\* Which datagrams are believed, and where reads are sent.
AnyEntry == UNION {ToSet(m.entries) : m \in Datagram}
AnySeed == UNION {ToSet(o.seeds) : o \in Options}
AnyAddress == {s.xaddr : s \in AnySeed} \cup UNION {ToSet(e.xaddrs) : e \in AnyEntry}
AnySegment == Segment \cup {s.segment : s \in AnySeed}
EndpointSet == [xaddr : AnyAddress, approved : BOOLEAN, from : SUBSET AnySegment]
Remembered == [message : Datagram, devices : SUBSET {e.endpoint : e \in AnyEntry}]
Tellings(d, e) == {[device |-> d, xaddr |-> e.xaddr, segment |-> id] : id \in e.from}

\* An endpoint was told on every segment it is recorded with, or its device answered
\* there as a seed; it is approved by the options of the running engine only, and a
\* message that may be repeated was genuine.
Grounds == told \cup AnsweredAsSeed
EndpointsTold == \A d \in Device : \A e \in known[d] : Tellings(d, e) \subseteq Grounds
EndpointsAllowed == up => \A d \in Device : \A e \in known[d] : e.approved => e.xaddr \in options.allowed
SeedsAllowed == up => \A s \in ToSet(options.seeds) : s.xaddr \in options.allowed /\ s.segment \in DOMAIN bound
Remembers(p, v) == p.message \in v /\ p.devices \subseteq {e.endpoint : e \in ToSet(p.message.entries)}
RInv ==
  /\ known \in [Device -> SUBSET EndpointSet] /\ messages \in Seq(Remembered)
  /\ seeds \subseteq AnySeed /\ (up => ToSet(options.seeds) \subseteq AnySeed)
  /\ EndpointsTold /\ EndpointsAllowed /\ SeedsAllowed
  /\ \A i \in 1..Len(messages) : Remembers(messages[i], vouched)

\* Where the endpoints of an entry were heard, they were told.
LEMMA HeardTold ==
  ASSUME NEW d \in Device, NEW id \in AnySegment, NEW endpoints \in SUBSET EndpointSet, NEW xaddrs,
         \A e \in endpoints : Tellings(d, e) \subseteq Grounds, Grounds \subseteq Grounds',
         \A x \in ToSet(xaddrs) : [device |-> d, xaddr |-> x, segment |-> id] \in Grounds'
  PROVE  \A e \in Heard(endpoints, xaddrs, id) :
           /\ e \in EndpointSet /\ Tellings(d, e) \subseteq Grounds'
           /\ \E o \in endpoints : o.xaddr = e.xaddr /\ o.approved = e.approved
<1> SUFFICES ASSUME NEW o \in endpoints
             PROVE  LET e == IF o.xaddr \in ToSet(xaddrs) THEN [o EXCEPT !.from = o.from \cup {id}] ELSE o
                    IN /\ e \in EndpointSet /\ Tellings(d, e) \subseteq Grounds'
                       /\ o.xaddr = e.xaddr /\ o.approved = e.approved
  BY DEF Heard
<1>1. o \in EndpointSet /\ Tellings(d, o) \subseteq Grounds'
  OBVIOUS
<1>2. CASE o.xaddr \in ToSet(xaddrs)
  <2> DEFINE e == [o EXCEPT !.from = o.from \cup {id}]
  <2>1. /\ e \in EndpointSet /\ e.xaddr = o.xaddr /\ e.approved = o.approved
        /\ e.from = o.from \cup {id}
    BY <1>1 DEF EndpointSet
  <2> HIDE DEF e
  <2>2. [device |-> d, xaddr |-> o.xaddr, segment |-> id] \in Grounds'
    BY <1>2
  <2>3. ASSUME NEW s \in e.from PROVE [device |-> d, xaddr |-> e.xaddr, segment |-> s] \in Grounds'
    BY <1>1, <2>1, <2>2, <2>3 DEF Tellings
  <2>4. Tellings(d, e) \subseteq Grounds'
    BY <2>3 DEF Tellings
  <2>5. QED
    BY <1>2, <2>1, <2>4 DEF e
<1>3. CASE o.xaddr \notin ToSet(xaddrs)
  BY <1>1, <1>3
<1>4. QED
  BY <1>2, <1>3

\* An endpoint that is admitted is one that is given, approved by the options.
LEMMA MergedTold ==
  ASSUME NEW d \in Device, NEW id \in AnySegment, NEW endpoints \in SUBSET EndpointSet,
         NEW xaddrs, ToSet(xaddrs) \subseteq AnyAddress,
         \A e \in endpoints : Tellings(d, e) \subseteq Grounds, Grounds \subseteq Grounds',
         \A x \in ToSet(xaddrs) : [device |-> d, xaddr |-> x, segment |-> id] \in Grounds'
  PROVE  \A e \in MergeEndpoints(endpoints, xaddrs, id) :
           /\ e \in EndpointSet /\ Tellings(d, e) \subseteq Grounds'
           /\ \/ \E o \in endpoints : o.xaddr = e.xaddr /\ o.approved = e.approved
              \/ e.approved => e.xaddr \in options.allowed
<1>1. ASSUME NEW x \in ToSet(xaddrs)
      PROVE  LET e == [xaddr |-> x, approved |-> Approved(x, options.allowed), from |-> {id}]
             IN /\ e \in EndpointSet /\ Tellings(d, e) \subseteq Grounds'
                /\ e.approved => e.xaddr \in options.allowed
  <2>1. Approved(x, options.allowed) \in BOOLEAN /\ (Approved(x, options.allowed) => x \in options.allowed)
    BY DEF Approved
  <2>2. x \in AnyAddress
    BY <1>1
  <2>3. QED
    BY <1>1, <2>1, <2>2 DEF EndpointSet, Tellings
<1>2. ASSUME NEW e \in MergeEndpoints(endpoints, xaddrs, id),
             e \notin Heard(endpoints, xaddrs, id)
      PROVE  \E x \in ToSet(xaddrs) :
               e = [xaddr |-> x, approved |-> Approved(x, options.allowed), from |-> {id}]
  BY <1>2 DEF MergeEndpoints
<1>3. QED
  BY <1>1, <1>2, HeardTold

\* A datagram that is taken was said on its segment, or repeats one that was.
LEMMA TakenIsTold ==
  ASSUME RInv, NEW m \in Datagram, NEW id \in Segment, NEW source, Hear(m, id, source)
  PROVE  /\ told \subseteq told' /\ vouched \subseteq vouched' /\ m \in vouched'
         /\ \A e \in ToSet(m.entries) : \A x \in ToSet(e.xaddrs) :
              [device |-> e.endpoint, xaddr |-> x, segment |-> id] \in told'
<1>1. /\ InCidr(source, SegmentOf(options, id).cidr)
      /\ \A i \in DOMAIN m.entries : "DiscoveryProxy" \notin m.entries[i].types
  BY DEF Hear, FromSegment, DiscoveryProxy, ToSet
<1>2. CASE Prior(m) # {}
  <2>1. PICK p \in Prior(m) : p.message = m
    BY <1>2 DEF Hear
  <2>2. m \in vouched
    BY <2>1 DEF Prior, ToSet, RInv, Remembers
  <2>3. QED
    BY <1>1, <2>2 DEF Hear, Tells
<1>3. CASE Prior(m) = {}
  <2>1. Spoken(m, id)
    <3>1. CASE IsResponse(m)
      BY <1>3, <3>1 DEF Hear, Correlates, Spoken
    <3>2. CASE ~IsResponse(m)
      BY <3>2 DEF Hear, FromSegment, ParseDiscovery, Spoken, IsResponse
    <3>3. QED
      BY <3>1, <3>2
  <2>2. QED
    BY <1>1, <2>1 DEF Hear, Tells
<1>4. QED
  BY <1>2, <1>3

LEMMA HearKeeps ==
  ASSUME RInv, NEW m \in Datagram, NEW id \in Segment, NEW source, Hear(m, id, source)
  PROVE  RInv'
<1> DEFINE Knows(d, E) ==
      \A e \in E : /\ e \in EndpointSet /\ Tellings(d, e) \subseteq Grounds'
                   /\ \/ \E o \in known[d] : o.xaddr = e.xaddr /\ o.approved = e.approved
                      \/ e.approved => e.xaddr \in options.allowed
<1>1. /\ known \in [Device -> SUBSET EndpointSet] /\ messages \in Seq(Remembered)
      /\ EndpointsTold /\ EndpointsAllowed /\ SeedsAllowed
      /\ seeds \subseteq AnySeed /\ (up => ToSet(options.seeds) \subseteq AnySeed)
      /\ \A i \in 1..Len(messages) : Remembers(messages[i], vouched)
  BY DEF RInv
<1>2. /\ Grounds \subseteq Grounds' /\ vouched \subseteq vouched' /\ m \in vouched'
      /\ \A e \in ToSet(m.entries) : \A x \in ToSet(e.xaddrs) :
           [device |-> e.endpoint, xaddr |-> x, segment |-> id] \in Grounds'
  <2>1. UNCHANGED <<seeds, answered>>
    BY DEF Hear
  <2>2. Grounds' = told' \cup AnsweredAsSeed
    BY <2>1 DEF Grounds, AnsweredAsSeed
  <2>3. QED
    BY <2>2, TakenIsTold DEF Grounds
<1>3. up /\ UNCHANGED <<up, options, bound, seeds>>
  BY DEF Hear, Listening
<1>4. ToSet(m.entries) \subseteq AnyEntry /\ id \in AnySegment
  BY DEF AnyEntry, AnySegment
<1>5. \A d \in Device : known[d] \in SUBSET EndpointSet /\ \A e \in known[d] : Tellings(d, e) \subseteq Grounds
  BY <1>1 DEF EndpointsTold
<1>6. \A d \in Device : Knows(d, known[d])
  BY <1>2, <1>5
\* What is known, and what is remembered, after a repetition or a new message.
<1>7. /\ known' = [d \in Device |-> known'[d]]
      /\ \A d \in Device : Knows(d, known'[d])
      /\ messages' \in Seq(Remembered) /\ \A i \in 1..Len(messages') : Remembers(messages'[i], vouched')
  <2>1. CASE Prior(m) # {}
    <3>1. PICK p \in Prior(m) : p.message = m /\ AddsProvenance(p, id) /\ UNCHANGED messages
      BY <2>1 DEF Hear
    <3>2. p.devices \subseteq {e.endpoint : e \in ToSet(m.entries)}
      BY <1>1, <3>1 DEF Prior, ToSet, Remembers
    <3>3. ASSUME NEW d \in Device PROVE Knows(d, known'[d])
      <4>1. CASE d \notin p.devices
        BY <1>6, <3>1, <4>1 DEF AddsProvenance
      <4>2. CASE d \in p.devices
        <5> DEFINE e == CHOOSE x \in ToSet(m.entries) : x.endpoint = d
        <5>1. e \in ToSet(m.entries) /\ e.endpoint = d
          BY <3>2, <4>2
        <5>2. known'[d] = Heard(known[d], e.xaddrs, id)
          BY <3>1, <4>2 DEF AddsProvenance
        <5> HIDE DEF e
        <5>3. \A x \in ToSet(e.xaddrs) : [device |-> d, xaddr |-> x, segment |-> id] \in Grounds'
          BY <1>2, <5>1
        <5>4. known[d] \in SUBSET EndpointSet /\ (\A o \in known[d] : Tellings(d, o) \subseteq Grounds)
              /\ Grounds \subseteq Grounds'
          BY <1>2, <1>5
        <5>5. \A k \in Heard(known[d], e.xaddrs, id) :
                 /\ k \in EndpointSet /\ Tellings(d, k) \subseteq Grounds'
                 /\ \E o \in known[d] : o.xaddr = k.xaddr /\ o.approved = k.approved
          BY <1>4, <5>3, <5>4, HeardTold
        <5>6. QED
          BY <5>2, <5>5
      <4>3. QED
        BY <4>1, <4>2
    <3>4. known' = [d \in Device |-> known'[d]]
      BY <3>1 DEF AddsProvenance
    <3>5. QED
      BY <1>1, <1>2, <3>1, <3>3, <3>4 DEF Remembers
  <2>2. CASE Prior(m) = {}
    <3> DEFINE kept == {e \in ToSet(m.entries) : Keeps(m, e)}
    <3>1. PICK admitted \in SUBSET {e.endpoint : e \in kept} :
            /\ known' = [d \in Device |->
                 IF d \notin admitted THEN known[d]
                 ELSE LET e == CHOOSE x \in kept : x.endpoint = d IN MergeEndpoints(known[d], e.xaddrs, id)]
            /\ LET all == Append(messages, [message |-> m, devices |-> admitted])
               IN messages' = IF Len(all) > options.bounds.maxMessageIds THEN Tail(all) ELSE all
      BY <2>2 DEF Hear, Observe
    <3>2. ASSUME NEW d \in Device PROVE Knows(d, known'[d])
      <4>1. CASE d \notin admitted
        BY <1>6, <3>1, <4>1
      <4>2. CASE d \in admitted
        <5> DEFINE e == CHOOSE x \in kept : x.endpoint = d
        <5>1. e \in kept /\ e.endpoint = d
          BY <3>1, <4>2
        <5>2. known'[d] = MergeEndpoints(known[d], e.xaddrs, id)
          BY <3>1, <4>2
        <5> HIDE DEF e
        <5>3. \A x \in ToSet(e.xaddrs) : [device |-> d, xaddr |-> x, segment |-> id] \in Grounds'
          BY <1>2, <5>1
        <5>4. ToSet(e.xaddrs) \subseteq AnyAddress
          BY <1>4, <5>1 DEF AnyAddress
        <5>5. \A k \in MergeEndpoints(known[d], e.xaddrs, id) :
                 /\ k \in EndpointSet /\ Tellings(d, k) \subseteq Grounds'
                 /\ \/ \E o \in known[d] : o.xaddr = k.xaddr /\ o.approved = k.approved
                    \/ k.approved => k.xaddr \in options.allowed
          BY <1>2, <1>4, <1>5, <5>3, <5>4, MergedTold
        <5>6. QED
          BY <5>2, <5>5
      <4>3. QED
        BY <4>1, <4>2
    <3>3. messages' \in Seq(Remembered) /\ \A i \in 1..Len(messages') : Remembers(messages'[i], vouched')
      <4> DEFINE r == [message |-> m, devices |-> admitted]
                 all == Append(messages, r)
      <4>1. r \in Remembered /\ r.message = m /\ r.devices = admitted
        BY <1>4, <3>1 DEF Remembered
      <4>2. Remembers(r, vouched')
        BY <1>2, <3>1, <4>1 DEF Remembers
      <4>3. \A i \in 1..Len(messages) : Remembers(messages[i], vouched')
        BY <1>1, <1>2 DEF Remembers
      <4> HIDE DEF r
      <4>4. all \in Seq(Remembered) /\ Len(all) = Len(messages) + 1
            /\ \A i \in 1..Len(all) : Remembers(all[i], vouched')
        BY <1>1, <4>1, <4>2, <4>3
      <4>5. messages' \in {all, Tail(all)}
        BY <3>1 DEF r
      <4> HIDE DEF all
      <4>6. CASE messages' = all
        BY <4>4, <4>6
      <4>7. CASE messages' = Tail(all)
        <5>1. /\ messages' \in Seq(Remembered) /\ Len(messages') = Len(messages)
              /\ \A i \in 1..Len(messages') : messages'[i] = all[i + 1] /\ i + 1 \in 1..Len(all)
          BY <1>1, <4>4, <4>7
        <5>2. QED
          BY <4>4, <5>1
      <4>8. QED
        BY <4>5, <4>6, <4>7
    <3>4. known' = [d \in Device |-> known'[d]]
      <4> DEFINE K(d) == IF d \notin admitted THEN known[d]
                         ELSE LET e == CHOOSE x \in kept : x.endpoint = d IN MergeEndpoints(known[d], e.xaddrs, id)
      <4>1. known' = [d \in Device |-> K(d)]
        BY <3>1
      <4> HIDE DEF K
      <4>2. QED
        BY <4>1
    <3>5. QED
      BY <3>2, <3>3, <3>4
  <2>3. QED
    BY <2>1, <2>2
<1>8. known' \in [Device -> SUBSET EndpointSet]
  BY <1>7
<1>9. EndpointsTold'
  BY <1>7 DEF EndpointsTold, Tellings
<1>10. EndpointsAllowed'
  BY <1>1, <1>3, <1>7 DEF EndpointsAllowed
<1>11. SeedsAllowed'
  BY <1>1, <1>3 DEF SeedsAllowed
<1>12. QED
  BY <1>1, <1>3, <1>7, <1>8, <1>9, <1>10, <1>11 DEF RInv

\* inspectSeed(): the stored seed's address becomes an endpoint of the device that
\* answered for it.
LEMMA InspectSeedKeeps ==
  ASSUME RInv, up, NEW p \in ToSet(options.seeds), NEW d \in Device, InspectSeed(p, d)
  PROVE  RInv'
<1>1. /\ known \in [Device -> SUBSET EndpointSet] /\ messages \in Seq(Remembered)
      /\ EndpointsTold /\ EndpointsAllowed /\ SeedsAllowed
      /\ seeds \subseteq AnySeed /\ (up => ToSet(options.seeds) \subseteq AnySeed)
      /\ \A i \in 1..Len(messages) : Remembers(messages[i], vouched)
  BY DEF RInv
<1>2. PICK s \in seeds :
        s.id = p.id /\ known' = [known EXCEPT ![d] = MergeEndpoints(@, <<s.xaddr>>, p.segment)]
  BY DEF InspectSeed
<1>3. /\ answered' = answered \cup {[device |-> d, seed |-> p.id, segment |-> p.segment]}
      /\ UNCHANGED <<up, options, bound, seeds, messages, told, vouched>>
  BY DEF InspectSeed
<1>4. Grounds \subseteq Grounds'
  BY <1>3 DEF Grounds, AnsweredAsSeed
<1>5. [device |-> d, xaddr |-> s.xaddr, segment |-> p.segment] \in Grounds'
  <2> DEFINE a == [device |-> d, seed |-> p.id, segment |-> p.segment]
  <2>1. a \in answered' /\ a.device = d /\ a.seed = s.id /\ a.segment = p.segment
    BY <1>2, <1>3
  <2>2. s \in seeds'
    BY <1>2, <1>3
  <2> HIDE DEF a
  <2>3. QED
    BY <2>1, <2>2 DEF Grounds, AnsweredAsSeed
<1>6. ToSet(<<s.xaddr>>) = {s.xaddr} /\ s.xaddr \in AnyAddress /\ p.segment \in AnySegment
  <2>1. ToSet(<<s.xaddr>>) = {s.xaddr}
    BY DEF ToSet
  <2>2. s.xaddr \in AnyAddress
    <3>1. s \in AnySeed
      BY <1>1, <1>2
    <3>2. QED
      BY <3>1 DEF AnyAddress
  <2>3. QED
    BY <1>1, <2>1, <2>2 DEF AnySegment
<1>7. ASSUME NEW c \in Device, NEW e \in known'[c]
      PROVE  /\ e \in EndpointSet /\ Tellings(c, e) \subseteq Grounds'
             /\ \/ \E o \in known[c] : o.xaddr = e.xaddr /\ o.approved = e.approved
                \/ e.approved => e.xaddr \in options.allowed
  <2>1. known[c] \in SUBSET EndpointSet /\ \A o \in known[c] : Tellings(c, o) \subseteq Grounds
    BY <1>1 DEF EndpointsTold
  <2>2. CASE c # d
    BY <1>2, <1>4, <1>7, <2>1, <2>2
  <2>3. CASE c = d
    <3>1. e \in MergeEndpoints(known[d], <<s.xaddr>>, p.segment)
      BY <1>1, <1>2, <1>7, <2>3
    <3>2. /\ ToSet(<<s.xaddr>>) \subseteq AnyAddress
          /\ \A x \in ToSet(<<s.xaddr>>) : [device |-> d, xaddr |-> x, segment |-> p.segment] \in Grounds'
      BY <1>5, <1>6
    <3>3. \A k \in MergeEndpoints(known[d], <<s.xaddr>>, p.segment) :
             /\ k \in EndpointSet /\ Tellings(d, k) \subseteq Grounds'
             /\ \/ \E o \in known[d] : o.xaddr = k.xaddr /\ o.approved = k.approved
                \/ k.approved => k.xaddr \in options.allowed
      BY <1>4, <1>6, <2>1, <2>3, <3>2, MergedTold
    <3>4. QED
      BY <2>3, <3>1, <3>3
  <2>4. QED
    BY <2>2, <2>3
<1>8. known' \in [Device -> SUBSET EndpointSet]
  <2>1. known' = [c \in Device |-> known'[c]]
    BY <1>1, <1>2
  <2>2. QED
    BY <1>7, <2>1
<1>9. EndpointsTold'
  BY <1>7 DEF EndpointsTold, Tellings
<1>10. EndpointsAllowed'
  BY <1>1, <1>3, <1>7 DEF EndpointsAllowed
<1>11. SeedsAllowed'
  BY <1>1, <1>3 DEF SeedsAllowed
<1>12. QED
  BY <1>1, <1>3, <1>8, <1>9, <1>10, <1>11 DEF RInv, Remembers

\* restore() approves anew what was stored, by the options that were accepted.
LEMMA StartKeeps == ASSUME RInv, Start PROVE RInv'
<1>1. /\ known \in [Device -> SUBSET EndpointSet] /\ messages \in Seq(Remembered)
      /\ EndpointsTold /\ seeds \subseteq AnySeed
      /\ \A i \in 1..Len(messages) : Remembers(messages[i], vouched)
  BY DEF RInv
<1>2. PICK o \in Options, host \in Hosts :
        /\ ValidateOptions(o) /\ CanStart(o, host)
        /\ up' = TRUE /\ options' = o /\ bound' = [id \in Opened(o, host) |-> Bind(o, host, id)]
        /\ known' = Restored(known, o.allowed)
        /\ seeds' = seeds \cup {s \in ToSet(o.seeds) : \A k \in seeds : k.id # s.id}
  BY DEF Start
<1>3. UNCHANGED <<restarts, pending, messages, told, vouched, answered>>
  BY DEF Start
<1>4. SeedsAllowed'
  BY <1>2 DEF ValidateOptions, CanStart, Approved, SeedsAllowed
<1>5. ASSUME NEW d \in Device, NEW e \in known'[d]
      PROVE  \E s \in known[d] : /\ e \in EndpointSet /\ e.xaddr = s.xaddr /\ e.from = s.from
                                 /\ e.approved => e.xaddr \in o.allowed
  <2>1. PICK s \in known[d] : e = [s EXCEPT !.approved = Approved(s.xaddr, o.allowed)]
    BY <1>2, <1>5 DEF Restored
  <2>2. s \in EndpointSet
    BY <1>1
  <2>3. Approved(s.xaddr, o.allowed) \in BOOLEAN /\ (Approved(s.xaddr, o.allowed) => s.xaddr \in o.allowed)
    BY DEF Approved
  <2> DEFINE a == Approved(s.xaddr, o.allowed)
  <2> HIDE DEF a
  <2>4. e = [s EXCEPT !.approved = a] /\ a \in BOOLEAN /\ (a => s.xaddr \in o.allowed)
    BY <2>1, <2>3 DEF a
  <2>5. e \in EndpointSet /\ e.xaddr = s.xaddr /\ e.from = s.from /\ e.approved = a
    BY <2>2, <2>4 DEF EndpointSet
  <2>6. QED
    BY <2>4, <2>5
<1>6. known' \in [Device -> SUBSET EndpointSet]
  <2>1. known' = [d \in Device |-> known'[d]]
    BY <1>2 DEF Restored
  <2>2. QED
    BY <1>5, <2>1
<1>7. EndpointsTold'
  <2>1. Grounds \subseteq Grounds'
    BY <1>2, <1>3 DEF Grounds, AnsweredAsSeed
  <2>2. QED
    BY <1>1, <1>5, <2>1 DEF EndpointsTold, Tellings
<1>8. EndpointsAllowed'
  BY <1>2, <1>5 DEF EndpointsAllowed
<1>9. \A i \in 1..Len(messages') : Remembers(messages'[i], vouched')
  BY <1>1, <1>3 DEF Remembers
<1>10. ToSet(options'.seeds) \subseteq AnySeed /\ seeds' \subseteq AnySeed
  <2>1. ToSet(o.seeds) \subseteq AnySeed
    BY DEF AnySeed
  <2>2. QED
    BY <1>1, <1>2, <2>1
<1>11. QED
  BY <1>1, <1>3, <1>4, <1>6, <1>7, <1>8, <1>9, <1>10 DEF RInv

LEMMA ReceptionKeeps == ASSUME RInv, [Next]_vars PROVE RInv'
<1>1. ASSUME UNCHANGED <<up, options, bound, known, seeds, messages, told, vouched, answered>> PROVE RInv'
  <2>1. Grounds' = Grounds
    BY <1>1 DEF Grounds, AnsweredAsSeed
  <2>2. QED
    BY <1>1, <2>1 DEF RInv, EndpointsTold, EndpointsAllowed, SeedsAllowed, Remembers
<1>2. CASE Start
  BY <1>2, StartKeeps
<1>3. CASE Stop
  <2>1. up' = FALSE /\ messages' = << >> /\ UNCHANGED <<known, seeds, told, answered>>
    BY <1>3 DEF Stop
  <2>2. messages' \in Seq(Remembered) /\ Len(messages') = 0
    BY <2>1
  <2>3. Grounds' = Grounds
    BY <2>1 DEF Grounds, AnsweredAsSeed
  <2>4. QED
    BY <2>1, <2>2, <2>3 DEF RInv, EndpointsTold, EndpointsAllowed, SeedsAllowed
<1>4. CASE \E r \in RequestId : WindowElapsed(r) \/ \E id \in Segment, kind \in DOMAIN Kinds : Ask(r, id, kind)
  BY <1>1, <1>4 DEF WindowElapsed, Ask
<1>5. CASE \E m \in Datagram, id \in Segment, source \in Sources : Hear(m, id, source)
  BY <1>5, HearKeeps
<1>6. CASE UNCHANGED receptionVars
  BY <1>1, <1>6 DEF receptionVars
<1>7. CASE \E p \in ToSet(options.seeds), d \in Device : InspectSeed(p, d)
  BY <1>7, InspectSeedKeeps DEF InspectSeed
<1>8. QED
  BY <1>2, <1>3, <1>4, <1>5, <1>6, <1>7 DEF Next, vars, ReceptionNext, Coming

LEMMA ReceptionInits == Init => RInv
<1> SUFFICES ASSUME Init PROVE RInv
  OBVIOUS
<1>1. ~up /\ known = [d \in Device |-> {}] /\ seeds = {} /\ messages = << >>
  BY DEF Init, ReceptionInit
<1>2. messages \in Seq(Remembered) /\ Len(messages) = 0
  BY <1>1
<1>3. QED
  BY <1>1, <1>2 DEF RInv, EndpointsTold, EndpointsAllowed, SeedsAllowed

-----------------------------------------------------------------------------
\* The inventory, its inspections and its snapshot in every behaviour of the engine,
\* whatever is announced, reported, written, failed, closed or crashed.
THEOREM DiscoveryInvariant == Spec => []IInv
<1>1. Init => IInv
  BY InitHolds DEF Init
<1>2. IInv /\ [Next]_vars => IInv'
  BY StepKeeps
<1>3. QED
  BY <1>1, <1>2, PTL DEF Spec

\* persist(): a revision counted as saved is the one on the disk, although the
\* inventory moves while a snapshot is written; and so is the inventory of an engine
\* that closed without an error.
THEOREM SavedIsOnDisk == Spec => []Durable
<1>1. IInv => Durable
  BY DEF IInv, Saves, Durable
<1>2. QED
  BY <1>1, DiscoveryInvariant, PTL

\* commitInspection() and enqueue(): what a device's own inspection verified is as
\* new as what it has announced, and a superseded inspection is in line again.
THEOREM InspectionsStayCurrent == Spec => []InspectionsCurrent
<1>1. IInv => InspectionsCurrent
  BY DEF IInv, Records, Sound, Inspections, InspectionsCurrent, VerifiedCurrent
<1>2. QED
  BY <1>1, DiscoveryInvariant, PTL

\* A quarantine is never lifted, neither in memory nor on the disk, and the
\* watermarks of the snapshot never go back, over failed saves and crashes.
THEOREM NothingIsForgotten == Spec => NothingForgotten
<1>1. ASSUME IInv, [Next]_vars
      PROVE  /\ (Quarantined(dev) /\ crashes' = crashes) => Quarantined(dev') /\ dev'.state = "conflict"
             /\ Quarantined(durable.dev) => Quarantined(durable'.dev)
  <2>1. /\ IInv' /\ Kept(durable.dev, durable'.dev)
        /\ crashes' = crashes => Kept(dev, dev')
    BY <1>1, StepKeeps
  <2>2. Sound(dev)'
    BY <2>1 DEF IInv, Records
  <2>3. QED
    BY <2>1, <2>2 DEF Quarantined, Kept, Sound
<1>2. ASSUME IInv, [Next]_vars
      PROVE  LET a == durable.dev
                 b == durable'.dev
             IN a # NoDevice =>
                  /\ b # NoDevice /\ a.instance <= b.instance /\ a.version <= b.version
                  /\ a.instance = b.instance => \A s \in Sids : a.seqs[s].number <= b.seqs[s].number
  BY <1>2, StepKeeps DEF Kept
<1>3. Spec => QuarantineLatched
  BY <1>1, DiscoveryInvariant, PTL DEF Spec, QuarantineLatched
<1>4. Spec => WatermarksDurable
  BY <1>2, DiscoveryInvariant, PTL DEF Spec, WatermarksDurable
<1>5. QED
  BY <1>3, <1>4 DEF NothingForgotten

\* receive(), inspectSeed() and restore(): a native read goes to an endpoint that the
\* operator allows now, over a segment that is open now.  The device gave it on that
\* segment, or it is the address of a seed, as first provisioned under its name, for
\* which the device answered there, now or before a restart; or the read is of a seed
\* of the present options.
THEOREM TargetsAlwaysGrounded == Spec => []TargetsGrounded
<1>1. RInv => TargetsGrounded
  <2> SUFFICES ASSUME RInv, up PROVE TargetsGrounded
    BY DEF TargetsGrounded
  <2>1. ASSUME NEW d \in Device, NEW t \in Targets(d)
        PROVE  t \in Grounds /\ t.xaddr \in options.allowed /\ t.segment \in DOMAIN bound
    <3>1. PICK e \in known[d] :
            e.approved /\ t \in {[device |-> d, xaddr |-> e.xaddr, segment |-> id] : id \in e.from \cap DOMAIN bound}
      BY <2>1 DEF Targets
    <3>2. Tellings(d, e) \subseteq Grounds /\ e.xaddr \in options.allowed
      BY <3>1 DEF RInv, EndpointsTold, EndpointsAllowed
    <3>3. QED
      BY <3>1, <3>2 DEF Tellings
  <2>2. ASSUME NEW t \in SeedTargets PROVE t.xaddr \in options.allowed /\ t.segment \in DOMAIN bound
    BY <2>2 DEF SeedTargets, RInv, SeedsAllowed
  <2>3. QED
    BY <2>1, <2>2 DEF TargetsGrounded, Grounds
<1>2. RInv /\ [Next]_vars => RInv'
  BY ReceptionKeeps
<1>3. QED
  BY <1>1, <1>2, ReceptionInits, PTL DEF Spec

\* target(), inspectSeed() and commitInspection(): the inspection of a device is sent
\* where it was announced, or has answered as a seed, and where the operator allows
\* now; what the device's own inspection verifies is not older than what was announced,
\* and a superseded one is run again.  What the inspection of a seed verifies may be
\* older, since its token is taken only when the report is there.
THEOREM InspectionsAlwaysSound == Spec => []InspectionsSound
<1>1. TargetsGrounded /\ InspectionsCurrent => InspectionsSound
  BY DEF InspectionsSound
<1>2. QED
  BY <1>1, TargetsAlwaysGrounded, InspectionsStayCurrent, PTL

=============================================================================
