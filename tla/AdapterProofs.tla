----------------------------- MODULE AdapterProofs -----------------------------
(***************************************************************************)
(* For every configuration, every bound on frames, probes and profile      *)
(* changes, any number of connections and readers, and any faults of the   *)
(* capture process: the camera is one process's at a time and is given     *)
(* back as reported, and every snapshot is accounted for.                  *)
(***************************************************************************)
EXTENDS CaptureAdapter, FiniteSetTheorems, SequenceTheorems, WellFoundedInduction, TLAPS

\* A nonempty set of natural numbers has its least element.
LEMMA LeastExists ==
  ASSUME NEW T \in SUBSET Nat, T # {}
  PROVE  Min(T) \in T /\ \A y \in T : Min(T) <= y
<1>1. \E x \in T : \A y \in T : ~ (<<y, x>> \in OpToRel(<, Nat))
  BY NatLessThanWellFounded, WFMin, Zenon
<1>2. \E x \in T : \A y \in T : ~ (y < x)
  BY <1>1, Zenon DEF OpToRel
<1>3. \E x \in T : \A y \in T : x <= y
  BY <1>2
<1>4. QED
  BY <1>3 DEF Min


-----------------------------------------------------------------------------
\* The weight of a finite set, as the cardinality of a set: what a sum over the
\* set computes, one member after the other.
Units(w, S) == {p \in S \X Nat : p[2] < w[p[1]]}
Weight(w, S) == Cardinality(Units(w, S))

LEMMA UnitsFinite ==
  ASSUME NEW S, IsFiniteSet(S), NEW w \in [S -> Nat], NEW T \in SUBSET S
  PROVE  IsFiniteSet(Units(w, T))
<1> DEFINE own == [x \in T |-> {x} \X (0 .. w[x] - 1)]
           all == {own[x] : x \in T}
<1>1. IsFiniteSet(T)
  BY FS_Subset
<1>2. IsFiniteSet(all)
  <2>1. own \in Surjection(T, all)
    BY DEF Surjection
  <2>2. QED
    BY <1>1, <2>1, FS_Surjection
<1>3. \A U \in all : IsFiniteSet(U)
  <2> SUFFICES ASSUME NEW x \in T PROVE IsFiniteSet({x} \X (0 .. w[x] - 1))
    OBVIOUS
  <2>1. IsFiniteSet({x})
    BY FS_Singleton
  <2>2. IsFiniteSet(0 .. w[x] - 1)
    <3>1. w[x] - 1 \in Int
      OBVIOUS
    <3>2. QED
      BY <3>1, FS_Interval
  <2>3. QED
    BY <2>1, <2>2, FS_Product
<1>4. Units(w, T) \subseteq UNION all
  <2> SUFFICES ASSUME NEW p \in T \X Nat, p[2] < w[p[1]] PROVE p \in own[p[1]]
    BY DEF Units
  <2>1. p = <<p[1], p[2]>> /\ p[1] \in T /\ p[2] \in Nat /\ w[p[1]] \in Nat
    OBVIOUS
  <2>2. p[2] \in 0 .. w[p[1]] - 1
    BY <2>1
  <2>3. QED
    BY <2>1, <2>2
<1>5. QED
  <2> HIDE DEF all
  <2>1. IsFiniteSet(UNION all)
    BY <1>2, <1>3, FS_UNION
  <2>2. QED
    BY <1>4, <2>1, FS_Subset

LEMMA WeightStep ==
  ASSUME NEW S, IsFiniteSet(S), NEW w \in [S -> Nat], NEW T \in SUBSET S, NEW c \in T
  PROVE  Weight(w, T) = w[c] + Weight(w, T \ {c}) /\ Weight(w, T) \in Nat
<1> DEFINE A == Units(w, T \ {c})
           B == {c} \X (0 .. w[c] - 1)
<1>1. IsFiniteSet(A) /\ IsFiniteSet(Units(w, T))
  BY UnitsFinite
<1>2. IsFiniteSet(B) /\ Cardinality(B) = w[c]
  <2>1. w[c] \in Nat
    OBVIOUS
  <2>2. IsFiniteSet(0 .. w[c] - 1) /\ Cardinality(0 .. w[c] - 1) = w[c]
    <3>1. 0 \in Int /\ w[c] - 1 \in Int
      BY <2>1
    <3>2. Cardinality(0 .. w[c] - 1) = IF 0 > w[c] - 1 THEN 0 ELSE w[c] - 1 - 0 + 1
      BY <3>1, FS_Interval
    <3>3. QED
      BY <2>1, <3>1, <3>2, FS_Interval
  <2>3. IsFiniteSet({c}) /\ Cardinality({c}) = 1
    BY FS_Singleton
  <2>4. Cardinality(B) = 1 * w[c] /\ IsFiniteSet(B)
    BY <2>2, <2>3, FS_Product
  <2>5. QED
    BY <2>1, <2>4
<1>3. Units(w, T) = A \cup B
  <2>1. ASSUME NEW p \in Units(w, T) PROVE p \in A \cup B
    <3>1. p = <<p[1], p[2]>> /\ p[1] \in T /\ p[2] \in Nat /\ p[2] < w[p[1]] /\ w[p[1]] \in Nat
      BY DEF Units
    <3>2. CASE p[1] = c
      <4>1. p[2] \in 0 .. w[c] - 1
        BY <3>1, <3>2
      <4>2. QED
        BY <3>1, <3>2, <4>1
    <3>3. CASE p[1] # c
      <4>1. p \in (T \ {c}) \X Nat
        BY <3>1, <3>3
      <4>2. QED
        BY <3>1, <4>1 DEF Units
    <3>4. QED
      BY <3>2, <3>3
  <2>2. A \subseteq Units(w, T)
    BY DEF Units
  <2>3. B \subseteq Units(w, T)
    <3> SUFFICES ASSUME NEW n \in 0 .. w[c] - 1 PROVE <<c, n>> \in Units(w, T)
      OBVIOUS
    <3>1. n \in Nat /\ n < w[c]
      OBVIOUS
    <3>2. QED
      BY <3>1 DEF Units
  <2>4. QED
    BY <2>1, <2>2, <2>3
<1>4. A \cap B = {}
  BY DEF Units
<1>5. QED
  <2>0. Cardinality(A \cup B) = Cardinality(A) + Cardinality(B) - Cardinality(A \cap B)
    <3> HIDE DEF A, B
    <3>1. QED
      BY <1>1, <1>2, FS_Union
  <2>1. Cardinality(A \cap B) = 0
    BY <1>4, FS_EmptySet
  <2>2. Cardinality(A) \in Nat /\ w[c] \in Nat
    BY <1>1, FS_CardinalityType
  <2>3. Cardinality(Units(w, T)) = w[c] + Cardinality(A)
    BY <1>2, <1>3, <2>0, <2>1, <2>2
  <2>4. QED
    BY <2>2, <2>3 DEF Weight

\* Whatever adds up a finite set, member by member, computes its weight.
Adds(g, w, S) == g[{}] = 0 /\ \A T \in SUBSET S : T # {} => \E c \in T : g[T] = w[c] + g[T \ {c}]
LEMMA SumIsWeight ==
  ASSUME NEW S, IsFiniteSet(S), NEW w \in [S -> Nat], NEW g, Adds(g, w, S)
  PROVE  \A T \in SUBSET S : g[T] = Weight(w, T)
<1> DEFINE wrong == {T \in SUBSET S : g[T] # Weight(w, T)}
           sizes == {Cardinality(T) : T \in wrong}
<1>1. SUFFICES ASSUME wrong # {} PROVE FALSE
  OBVIOUS
<1>2. \A T \in SUBSET S : IsFiniteSet(T) /\ Cardinality(T) \in Nat
  BY FS_Subset, FS_CardinalityType
<1>3. PICK T \in wrong : \A U \in wrong : Cardinality(T) <= Cardinality(U)
  <2>1. sizes \in SUBSET Nat /\ sizes # {}
    BY <1>1, <1>2
  <2>2. Min(sizes) \in sizes /\ \A y \in sizes : Min(sizes) <= y
    <3> HIDE DEF sizes
    <3>1. QED
      BY <2>1, LeastExists
  <2>3. PICK T \in wrong : Cardinality(T) = Min(sizes)
    BY <2>2
  <2>4. \A U \in wrong : Cardinality(U) \in sizes
    OBVIOUS
  <2>5. QED
    <3> HIDE DEF wrong, sizes
    <3>1. QED
      BY <2>2, <2>3, <2>4
<1>4. T # {}
  <2>1. Units(w, {}) = {}
    BY DEF Units
  <2>2. Weight(w, {}) = 0
    BY <2>1, FS_EmptySet DEF Weight
  <2>3. g[T] # Weight(w, T)
    OBVIOUS
  <2>4. QED
    BY <2>2, <2>3 DEF Adds
<1>5. PICK c \in T : g[T] = w[c] + g[T \ {c}]
  BY <1>4 DEF Adds
<1>6. Cardinality(T \ {c}) = Cardinality(T) - 1 /\ Cardinality(T) \in Nat
  BY <1>2, FS_RemoveElement
<1>7. T \ {c} \notin wrong
  <2> HIDE DEF wrong
  <2>1. SUFFICES ASSUME T \ {c} \in wrong PROVE FALSE
    OBVIOUS
  <2>2. Cardinality(T) <= Cardinality(T \ {c})
    BY <1>3, <2>1
  <2>3. QED
    BY <1>6, <2>2
<1>8. g[T \ {c}] = Weight(w, T \ {c})
  BY <1>7
<1>9. Weight(w, T) = w[c] + Weight(w, T \ {c})
  BY WeightStep
<1>10. QED
  BY <1>5, <1>8, <1>9

-----------------------------------------------------------------------------
\* The worker of a caller and its process.
Commands == {"describe", "open", "next", "close"}
Ops == {"describe", "open", "next"}
Answers == {"evidence", "opened", "frame", "gap", "end"}
Packets == [kind : {"hello", "fault"} \cup Answers \cup Receipts, seq : Nat, size : Nat,
            jpeg : {None, "mode", "other"}]
Workers ==
  [child : {None, "starting", "idle", "dying", "exited"}, in : Seq(Commands), out : Seq(Packets),
   code : Int, torn : BOOLEAN, sent : Nat, end : {None} \cup Receipts,
   hello : {"wait", "ok", "failed"}, pending : {None} \cup Ops,
   live : BOOLEAN, faults : BOOLEAN, receipt : {None} \cup Receipts,
   closing : BOOLEAN, timer : BOOLEAN, killed : BOOLEAN, finished : BOOLEAN,
   status : {None, "closed", "forced", "failed"}, resources : {None, "unknown", "released"}]

\* The hello is the first packet, and it is read once.
Greeted(w) ==
  /\ w.child = "starting" => w.out = << >> /\ w.hello # "ok"
  /\ \A i \in DOMAIN w.out : w.out[i].kind = "hello" => i = 1 /\ w.hello # "ok"
  /\ w.hello = "failed" => w.killed
  /\ w.hello # "ok" => w.pending = None

\* One request is under way: unread, or answered once, or lost with its process.
Reply(p) == p.kind \in Answers \cup {"fault"}
Talk(w) ==
  /\ \A i \in DOMAIN w.in : IF w.in[i] = "close" THEN w.closing ELSE i = 1 /\ w.in[i] = w.pending
  /\ \A i \in DOMAIN w.out : w.out[i].kind \in Answers => w.out[i].kind \in Kinds(w.pending)
  /\ \A i \in DOMAIN w.out : Reply(w.out[i]) =>
       w.pending # None /\ \A j \in DOMAIN w.in : w.in[j] = "close"
  /\ \A i, j \in DOMAIN w.out : Reply(w.out[i]) /\ Reply(w.out[j]) => i = j
  /\ \A i \in DOMAIN w.out : w.out[i].kind = "frame" => w.out[i].size \in Sizes

\* Nothing is awaited of a worker that closes.
Closes(w) ==
  /\ w.live => w.pending # None /\ ~w.closing
  /\ w.killed \/ w.timer => w.closing

\* The receipt is the one the process wrote when it ended.
Receipted(w) ==
  /\ \A i \in DOMAIN w.out : w.out[i].kind \in Receipts => w.out[i].kind = w.end
  /\ w.receipt # None => w.receipt = w.end
  /\ w.end # None => w.child = "exited"
  /\ w.status = "closed" => w.code = 0 /\ w.end = "clean" /\ ~w.torn
  /\ w.resources = "released" => w.end \in {"clean", "stop-failed"}
  /\ w.finished => w.child = "exited"
  /\ w.finished \/ w.child = None => w.out = << >> /\ ~w.live /\ ~w.timer

Sound(w) == w \in Workers /\ Greeted(w) /\ Talk(w) /\ Closes(w) /\ Receipted(w)

-----------------------------------------------------------------------------
\* A caller of the backend and its worker.
Phases(s) == IF s = "describe" THEN {"idle", "hello", "reply", "closing", "failing"}
             ELSE {"idle", "hello", "reply", "next", "failing", "draining"}
Tracked(s) ==
  /\ Sound(worker[s]) /\ phase[s] \in Phases(s)
  /\ s \in active <=> phase[s] # "idle"
  /\ s \in active <=> worker[s].child # None /\ ~worker[s].finished
  /\ worker[s].hello = "wait" /\ phase[s] # "idle" => phase[s] = "hello"
  /\ worker[s].live => /\ phase[s] \in {"reply", "next"}
                       /\ worker[s].pending = IF phase[s] = "reply" THEN s ELSE "next"
CallersInv ==
  /\ worker \in [Callers -> Workers] /\ phase \in [Callers -> UNION {Phases(s) : s \in Callers}]
  /\ active \in {{}, {"describe"}, {"open"}}
  /\ \A s \in Callers : Tracked(s)

\* An acquisition is what was granted, for the evidence it was opened with.
Granted ==
  "open" \in active => "acquisition" \in config.granted /\ evidence.digest = config.request.digest

\* The run command: when the acquisition can begin, and what has ended with it.
RunInv ==
  /\ main \in {"init", "starting"} => worker["open"].child = None
  /\ main = "stopped" => phase["open"] = "idle" /\ server = "closed" /\ \A c \in Conns : conn[c].released
  /\ outcome = "closed" =>
       /\ main \notin {"init", "starting"} /\ phase["open"] = "idle" /\ worker["open"].code = 0
       /\ fault = None \/ aborted \/ closeReason = "duration-expired"

\* The leases and the cached frame.
Held == {c \in Conns : ~conn[c].released}
Sizing(leased) == [c \in Conns |-> leased[c].size]
Total(leased) == Weight(Sizing(leased), {c \in Conns : ~leased[c].released})
Leases == [phase : {"idle", "reading", "writing", "gone", "body"}, reader : Readers \cup {None}, size : Nat,
           released : BOOLEAN]
LeasesInv ==
  /\ conn \in [Conns -> Leases]
  /\ \A c \in Conns : conn[c].released <=> conn[c].phase \notin {"reading", "writing"}
  /\ \A c \in Held : conn[c].reader \in Readers /\ conn[c].size # 0
  /\ \A c, d \in Held : conn[c].reader = conn[d].reader => c = d
  /\ inFlight \in [Readers -> Nat]
  /\ \A c \in Held : inFlight[conn[c].reader] = conn[c].size
  /\ \A r \in Readers : (\A c \in Held : conn[c].reader # r) => inFlight[r] = 0
  /\ inFlightBytes = Total(conn)
CacheInv ==
  /\ mode \in {"session", "other"}
  /\ cache \in [size : Nat, mode : {None, "session", "other"}, fresh : BOOLEAN]
  /\ cache # NoFrame => cache.size \in Sizes /\ cache.mode = mode /\ phase["open"] = "next"
  /\ cache.size + inFlightBytes <= MaxQueuedBytes

AdapterInv == CallersInv /\ Granted /\ RunInv /\ LeasesInv /\ CacheInv

-----------------------------------------------------------------------------
\* What the operators of the worker leave of its record.
Running(w) == w.child # None /\ ~w.finished

LEMMA ShutdownSound ==
  ASSUME NEW w, Sound(w), Running(w), NEW v, v = Shutdown(w)
  PROVE  Sound(v) /\ Running(v) /\ ~v.live /\ v.closing /\ v.hello = w.hello
<1>1. CASE w.closing
  <2>1. v = w
    BY <1>1 DEF Shutdown
  <2>2. QED
    BY <1>1, <2>1 DEF Sound, Closes, Running
<1>2. CASE ~w.closing
  <2>1. v = [w EXCEPT !.live = FALSE, !.closing = TRUE, !.timer = TRUE, !.in = Append(@, "close")]
    BY <1>2 DEF Shutdown, Reject, Running, Sound, Workers
  <2>2. w \in Workers
    BY DEF Sound
  <2>3. v \in Workers
    <3>1. Append(w.in, "close") \in Seq(Commands)
      BY <2>2 DEF Workers, Commands
    <3>2. QED
      BY <2>1, <2>2, <3>1 DEF Workers
  <2>4. /\ ~v.live /\ v.closing /\ v.in = Append(w.in, "close") /\ v.child = w.child /\ v.out = w.out
        /\ v.hello = w.hello /\ v.pending = w.pending /\ v.killed = w.killed
        /\ v.receipt = w.receipt /\ v.end = w.end /\ v.status = w.status /\ v.resources = w.resources
        /\ v.code = w.code /\ v.torn = w.torn /\ v.finished = w.finished
    BY <2>1, <2>2 DEF Workers
  <2>5. Greeted(v)
    BY <2>4 DEF Sound, Greeted
  <2>6. Talk(v)
    BY <2>2, <2>4 DEF Sound, Talk, Workers
  <2>7. Closes(v)
    BY <2>4 DEF Closes
  <2>8. Receipted(v)
    BY <2>4 DEF Sound, Receipted, Running
  <2>9. QED
    BY <2>3, <2>4, <2>5, <2>6, <2>7, <2>8 DEF Sound, Running
<1>3. QED
  BY <1>1, <1>2

LEMMA KillFields ==
  ASSUME NEW w \in Workers, NEW v, v = Kill(w)
  PROVE  /\ v \in Workers /\ v.live = w.live /\ v.closing /\ v.killed /\ v.in = w.in /\ v.out = w.out
         /\ v.child = (IF w.child = "exited" THEN w.child ELSE "dying")
         /\ v.hello = w.hello /\ v.pending = w.pending
         /\ v.receipt = w.receipt /\ v.end = w.end /\ v.status = w.status /\ v.resources = w.resources
         /\ v.code = w.code /\ v.torn = w.torn /\ v.finished = w.finished
  BY DEF Kill, Workers

LEMMA KillSound ==
  ASSUME NEW w, Sound(w), Running(w), ~w.live, NEW v, v = Kill(w)
  PROVE  Sound(v) /\ Running(v) /\ ~v.live /\ v.hello = w.hello /\ v.killed
<1>1. w \in Workers
  BY DEF Sound
<1>2. /\ v \in Workers /\ ~v.live /\ v.closing /\ v.killed /\ v.in = w.in /\ v.out = w.out
      /\ v.child = (IF w.child = "exited" THEN w.child ELSE "dying")
      /\ v.hello = w.hello /\ v.pending = w.pending
      /\ v.receipt = w.receipt /\ v.end = w.end /\ v.status = w.status /\ v.resources = w.resources
      /\ v.code = w.code /\ v.torn = w.torn /\ v.finished = w.finished
  BY <1>1, KillFields
<1>3. Greeted(v)
  BY <1>2 DEF Sound, Greeted
<1>4. Talk(v)
  BY <1>2 DEF Sound, Talk
<1>5. Closes(v)
  BY <1>2 DEF Closes
<1>6. Receipted(v)
  BY <1>2 DEF Sound, Receipted, Running, None
<1>7. QED
  BY <1>2, <1>3, <1>4, <1>5, <1>6 DEF Sound, Running, None

\* A failure; of a worker that is killed already nothing more happens.
LEMMA FailSound ==
  ASSUME NEW w, Sound(w), Running(w), NEW v, v = Fail(w)
  PROVE  \/ Sound(v) /\ Running(v) /\ ~v.live /\ v.killed /\ v.hello # "wait"
         \/ v = w /\ w.killed /\ ~w.live
<1>1. w \in Workers
  BY DEF Sound
<1>2. CASE w.killed
  BY <1>2 DEF Fail, Sound, Closes
<1>3. CASE ~w.killed
  <2> DEFINE u == [Reject(w) EXCEPT !.faults = TRUE, !.hello = IF @ = "wait" THEN "failed" ELSE @]
  <2>7. /\ u \in Workers /\ ~u.live /\ u.in = w.in /\ u.out = w.out /\ u.child = w.child
        /\ u.hello = (IF w.hello = "wait" THEN "failed" ELSE w.hello) /\ u.pending = w.pending
        /\ u.receipt = w.receipt /\ u.end = w.end /\ u.status = w.status /\ u.resources = w.resources
        /\ u.code = w.code /\ u.torn = w.torn /\ u.finished = w.finished
    BY <1>1 DEF Reject, Workers
  <2>8. v = Kill(u)
    BY <1>3 DEF Fail, Running
  <2> HIDE DEF u
  <2>1. /\ v \in Workers /\ ~v.live /\ v.closing /\ v.killed /\ v.in = w.in /\ v.out = w.out
        /\ v.child = (IF w.child = "exited" THEN w.child ELSE "dying")
        /\ v.hello = (IF w.hello = "wait" THEN "failed" ELSE w.hello) /\ v.pending = w.pending
        /\ v.receipt = w.receipt /\ v.end = w.end /\ v.status = w.status /\ v.resources = w.resources
        /\ v.code = w.code /\ v.torn = w.torn /\ v.finished = w.finished
    <3>1. v \in Workers /\ v.live = u.live /\ v.closing /\ v.killed /\ v.in = u.in /\ v.out = u.out
          /\ v.child = (IF u.child = "exited" THEN u.child ELSE "dying")
          /\ v.hello = u.hello /\ v.pending = u.pending
          /\ v.receipt = u.receipt /\ v.end = u.end /\ v.status = u.status /\ v.resources = u.resources
          /\ v.code = u.code /\ v.torn = u.torn /\ v.finished = u.finished
      BY <2>7, <2>8, KillFields
    <3>2. QED
      BY <2>7, <3>1
  <2>2. Greeted(v)
    BY <2>1 DEF Sound, Greeted
  <2>3. Talk(v)
    BY <2>1 DEF Sound, Talk
  <2>4. Closes(v)
    BY <2>1 DEF Closes
  <2>5. Receipted(v)
    BY <2>1 DEF Sound, Receipted, Running, None
  <2>6. v.hello # "wait" /\ Running(v)
    BY <2>1 DEF Running, None
  <2>9. Sound(v)
    BY <2>1, <2>2, <2>3, <2>4, <2>5 DEF Sound
  <2>10. QED
    BY <2>1, <2>6, <2>9
<1>4. QED
  BY <1>2, <1>3

LEMMA EnqueueSound ==
  ASSUME NEW w, Sound(w), Running(w), w.hello = "ok", w.pending = None, ~w.closing,
         NEW op \in Ops, NEW v, v = Enqueue(w, op, FALSE)
  PROVE  Sound(v) /\ Running(v) /\ v.hello = "ok" /\ v.pending = op
<1>1. w \in Workers
  BY DEF Sound
<1>0. op \in Commands /\ op # "close" /\ op # None
  BY DEF Commands, Ops, None
<1> DEFINE l == Append(w.in, op)
<1>2. l \in Seq(Commands)
  BY <1>0, <1>1 DEF Workers
<1>3. v = [w EXCEPT !.pending = op, !.live = TRUE, !.in = l]
  BY <1>1 DEF Enqueue, Workers
<1> HIDE DEF l
<1>4. /\ v \in Workers /\ v.live /\ v.in = l /\ v.out = w.out /\ v.child = w.child
      /\ v.hello = w.hello /\ v.pending = op /\ v.closing = w.closing /\ v.killed = w.killed /\ v.timer = w.timer
      /\ v.receipt = w.receipt /\ v.end = w.end /\ v.status = w.status /\ v.resources = w.resources
      /\ v.code = w.code /\ v.torn = w.torn /\ v.finished = w.finished
  <2>0. PICK u : u = [w EXCEPT !.pending = op, !.live = TRUE]
    OBVIOUS
  <2>3. u \in Workers /\ v = [u EXCEPT !.in = l]
    BY <1>1, <1>3, <2>0 DEF Workers
  <2>1. v \in Workers
    BY <1>2, <2>3 DEF Workers
  <2>2. QED
    BY <1>1, <1>3, <2>1 DEF Workers
<1>5. w.in = << >> /\ \A i \in DOMAIN w.out : ~Reply(w.out[i])
  <2>1. \A i \in DOMAIN w.in : w.in[i] \in Commands /\ w.in[i] # None
    BY <1>1 DEF Workers, Commands, None
  <2>2. \A i \in DOMAIN w.in : FALSE
    BY <2>1 DEF Sound, Talk
  <2>3. QED
    BY <1>1, <2>2 DEF Workers, Sound, Talk
<1>6. Greeted(v)
  BY <1>4 DEF Sound, Greeted
<1>7. Talk(v)
  <2>1. DOMAIN l = {1} /\ l[1] = op
    <3> USE DEF l
    <3>1. w.in \in Seq(Commands) /\ Len(w.in) = 0
      BY <1>1, <1>5 DEF Workers
    <3>2. QED
      BY <3>1
  <2>2. \A i \in DOMAIN v.in : i = 1 /\ v.in[i] = v.pending /\ v.in[i] # "close"
    BY <1>0, <1>4, <2>1
  <2>3. \A i \in DOMAIN v.out : v.out[i].kind \notin Answers
    BY <1>4, <1>5 DEF Reply
  <2>4. QED
    BY <1>4, <1>5, <2>2, <2>3 DEF Sound, Talk
<1>8. Closes(v)
  BY <1>0, <1>4 DEF Sound, Closes
<1>9. Receipted(v)
  BY <1>4 DEF Sound, Receipted, Running
<1>10. QED
  BY <1>4, <1>6, <1>7, <1>8, <1>9 DEF Sound, Running

\* A request that is cancelled before it is written.
LEMMA CancelSound ==
  ASSUME NEW w, Sound(w), Running(w), w.hello = "ok", w.pending = None,
         NEW op \in Ops, NEW v, v = Enqueue(w, op, TRUE)
  PROVE  Sound(v) /\ Running(v) /\ v.hello = "ok" /\ ~v.live
<1> DEFINE u == [w EXCEPT !.pending = op, !.live = FALSE]
<1>1. w \in Workers
  BY DEF Sound
<1>2. v = Shutdown(u)
  BY <1>1 DEF Enqueue, Reject, Workers
<1>3. /\ u \in Workers /\ ~u.live /\ u.in = w.in /\ u.out = w.out /\ u.child = w.child
      /\ u.hello = w.hello /\ u.pending = op /\ u.closing = w.closing /\ u.killed = w.killed /\ u.timer = w.timer
      /\ u.receipt = w.receipt /\ u.end = w.end /\ u.status = w.status /\ u.resources = w.resources
      /\ u.code = w.code /\ u.torn = w.torn /\ u.finished = w.finished
  <2>1. u \in Workers
    BY <1>1 DEF Workers
  <2>2. QED
    BY <1>1, <2>1 DEF Workers
<1> HIDE DEF u
<1>4. (\A i \in DOMAIN w.in : w.in[i] = "close") /\ \A i \in DOMAIN w.out : ~Reply(w.out[i])
  <2>1. \A i \in DOMAIN w.in : w.in[i] \in Commands /\ w.in[i] # None
    BY <1>1 DEF Workers, Commands, None
  <2>2. QED
    BY <2>1 DEF Sound, Talk
<1>5. Greeted(u)
  BY <1>3 DEF Sound, Greeted
<1>6. Talk(u)
  <2>1. \A i \in DOMAIN u.in : u.in[i] = "close" /\ u.closing
    BY <1>3, <1>4 DEF Sound, Talk
  <2>2. \A i \in DOMAIN u.out : ~Reply(u.out[i]) /\ u.out[i].kind \notin Answers
    BY <1>3, <1>4 DEF Reply
  <2>3. QED
    BY <1>3, <2>1, <2>2 DEF Sound, Talk
<1>7. Closes(u)
  BY <1>3 DEF Sound, Closes
<1>8. Receipted(u)
  BY <1>3 DEF Sound, Receipted, Running
<1>9. Sound(u) /\ Running(u)
  BY <1>3, <1>5, <1>6, <1>7, <1>8 DEF Sound, Running
<1>10. Sound(v) /\ Running(v) /\ ~v.live /\ v.closing /\ v.hello = u.hello
  BY <1>2, <1>9, ShutdownSound
<1>11. QED
  BY <1>3, <1>10

\* The next packet is taken from the pipe.
Took(w, p, u) ==
  /\ Sound(u) /\ Running(u) /\ ~u.killed /\ p \in Packets
  /\ u.live = w.live /\ u.hello = w.hello /\ u.pending = w.pending /\ u.closing = w.closing
  /\ \A i \in DOMAIN u.out : u.out[i].kind # "hello"
  /\ p.kind = "hello" => u.hello = "wait" /\ u.child # "starting"
  /\ p.kind \in Receipts => p.kind = u.end
  /\ Reply(p) => /\ u.pending # None /\ \A i \in DOMAIN u.in : u.in[i] = "close"
                 /\ \A i \in DOMAIN u.out : ~Reply(u.out[i])
  /\ p.kind \in Answers => p.kind \in Kinds(u.pending)
  /\ p.kind = "frame" => p.size \in Sizes

LEMMA TailSound ==
  ASSUME NEW w, Sound(w), w.out # << >>, ~w.killed,
         NEW p, p = Head(w.out), NEW u, u = [w EXCEPT !.out = Tail(@)]
  PROVE  Took(w, p, u)
<1>1. w \in Workers
  BY DEF Sound
<1>2. w.out \in Seq(Packets) /\ Len(w.out) > 0 /\ Len(w.out) \in Nat
  BY <1>1 DEF Workers
<1> DEFINE t == Tail(w.out)
<1>3. t \in Seq(Packets) /\ Len(t) = Len(w.out) - 1
  BY <1>2
<1>4. \A i \in DOMAIN t : i + 1 \in DOMAIN w.out /\ i + 1 # 1 /\ t[i] = w.out[i + 1]
  BY <1>2
<1>5. p = w.out[1] /\ 1 \in DOMAIN w.out /\ p \in Packets
  BY <1>2
<1>6. u = [w EXCEPT !.out = t]
  BY <1>1 DEF Workers
<1> HIDE DEF t
<1>7. /\ u \in Workers /\ u.out = t /\ u.in = w.in /\ u.child = w.child /\ u.live = w.live /\ u.timer = w.timer
      /\ u.hello = w.hello /\ u.pending = w.pending /\ u.closing = w.closing /\ u.killed = w.killed
      /\ u.receipt = w.receipt /\ u.end = w.end /\ u.status = w.status /\ u.resources = w.resources
      /\ u.code = w.code /\ u.torn = w.torn /\ u.finished = w.finished
  <2>1. u \in Workers
    BY <1>1, <1>3, <1>6 DEF Workers
  <2>2. QED
    BY <1>1, <1>6, <2>1 DEF Workers
<1>8. w.child # None /\ ~w.finished /\ w.child # "starting"
  BY DEF Sound, Receipted, Greeted
<1>9. \A i \in DOMAIN u.out : u.out[i].kind # "hello"
  BY <1>4, <1>7 DEF Sound, Greeted
<1>10. Greeted(u)
  BY <1>7, <1>8, <1>9 DEF Sound, Greeted
<1>11. Talk(u)
  <2>1. \A i \in DOMAIN u.in : IF u.in[i] = "close" THEN u.closing ELSE i = 1 /\ u.in[i] = u.pending
    BY <1>7 DEF Sound, Talk
  <2>2. \A i \in DOMAIN u.out : /\ u.out[i].kind \in Answers => u.out[i].kind \in Kinds(u.pending)
                                /\ u.out[i].kind = "frame" => u.out[i].size \in Sizes
                                /\ Reply(u.out[i]) => u.pending # None /\ \A j \in DOMAIN u.in : u.in[j] = "close"
    BY <1>4, <1>7 DEF Sound, Talk
  <2>3. \A i, j \in DOMAIN u.out : Reply(u.out[i]) /\ Reply(u.out[j]) => i = j
    <3>1. SUFFICES ASSUME NEW i \in DOMAIN t, NEW j \in DOMAIN t, Reply(t[i]), Reply(t[j]) PROVE i = j
      BY <1>7
    <3>2. i + 1 = j + 1
      BY <1>4, <3>1 DEF Sound, Talk
    <3>3. i \in Int /\ j \in Int
      BY <1>3
    <3>4. QED
      BY <3>2, <3>3
  <2>4. QED
    BY <2>1, <2>2, <2>3 DEF Talk
<1>12. Closes(u)
  BY <1>7 DEF Sound, Closes
<1>13. Receipted(u)
  BY <1>4, <1>7, <1>8 DEF Sound, Receipted
<1>14. Reply(p) => u.pending # None /\ (\A i \in DOMAIN u.in : u.in[i] = "close")
                   /\ \A i \in DOMAIN u.out : ~Reply(u.out[i])
  BY <1>4, <1>5, <1>7 DEF Sound, Talk
<1>15. /\ p.kind = "hello" => u.hello = "wait"
       /\ p.kind \in Receipts => p.kind = u.end
       /\ p.kind \in Answers => p.kind \in Kinds(u.pending)
       /\ p.kind = "frame" => p.size \in Sizes
  <2>1. p.kind = "hello" => u.hello = "wait"
    <3>1. u.hello \in {"wait", "ok", "failed"}
      BY <1>7 DEF Workers
    <3>2. QED
      BY <1>5, <1>7, <3>1 DEF Sound, Greeted
  <2>2. QED
    BY <1>5, <1>7, <2>1 DEF Sound, Receipted, Talk
<1>16. Sound(u) /\ Running(u)
  BY <1>7, <1>8, <1>10, <1>11, <1>12, <1>13 DEF Sound, Running
<1>17. QED
  BY <1>5, <1>7, <1>8, <1>9, <1>14, <1>15, <1>16 DEF Took

\* The hello: the worker is free for its first request.
LEMMA HelloSound ==
  ASSUME NEW w, Sound(w), w.out # << >>, ~w.killed, Head(w.out).kind = "hello",
         NEW v, v = Receive([w EXCEPT !.out = Tail(@)], Packet("hello"))
  PROVE  Sound(v) /\ Running(v) /\ v.hello = "ok" /\ v.pending = None /\ ~v.live /\ w.hello = "wait" /\ ~w.live
         /\ v.closing = w.closing
<1>1. PICK p : p = Head(w.out)
  OBVIOUS
<1>2. PICK u : u = [w EXCEPT !.out = Tail(@)]
  OBVIOUS
<1>3. /\ Sound(u) /\ Running(u) /\ ~u.killed /\ u.hello = "wait" /\ u.hello = w.hello /\ u.live = w.live
      /\ u.closing = w.closing /\ u.child # "starting" /\ \A i \in DOMAIN u.out : u.out[i].kind # "hello"
  <2>1. Took(w, p, u)
    BY <1>1, <1>2, TailSound
  <2>2. QED
    BY <1>1, <2>1 DEF Took
<1>4. u \in Workers /\ u.pending = None /\ ~u.live
  BY <1>3 DEF Sound, Greeted, Closes
<1>5. v = [u EXCEPT !.hello = "ok"]
  <2>1. v = Receive(u, Packet("hello"))
    BY <1>2
  <2>2. Packet("hello").kind = "hello"
    BY DEF Packet
  <2>3. QED
    BY <1>3, <1>4, <2>1, <2>2 DEF Receive, Receipts, Kinds, None
<1>6. /\ v \in Workers /\ v.hello = "ok" /\ v.out = u.out /\ v.in = u.in /\ v.child = u.child /\ v.live = u.live
      /\ v.timer = u.timer /\ v.pending = u.pending /\ v.closing = u.closing /\ v.killed = u.killed
      /\ v.receipt = u.receipt /\ v.end = u.end /\ v.status = u.status /\ v.resources = u.resources
      /\ v.code = u.code /\ v.torn = u.torn /\ v.finished = u.finished
  <2>1. v \in Workers
    BY <1>4, <1>5 DEF Workers
  <2>2. QED
    BY <1>4, <1>5, <2>1 DEF Workers
<1>7. Greeted(v)
  BY <1>3, <1>6 DEF Greeted
<1>8. Talk(v)
  <2>1. \A i \in DOMAIN v.in : IF v.in[i] = "close" THEN v.closing ELSE i = 1 /\ v.in[i] = v.pending
    BY <1>3, <1>6 DEF Sound, Talk
  <2>2. /\ \A i \in DOMAIN v.out : v.out[i].kind \in Answers => v.out[i].kind \in Kinds(v.pending)
        /\ \A i \in DOMAIN v.out : v.out[i].kind = "frame" => v.out[i].size \in Sizes
    BY <1>3, <1>6 DEF Sound, Talk
  <2>3. \A i \in DOMAIN v.out : Reply(v.out[i]) => v.pending # None /\ \A j \in DOMAIN v.in : v.in[j] = "close"
    BY <1>3, <1>6 DEF Sound, Talk
  <2>4. \A i, j \in DOMAIN v.out : Reply(v.out[i]) /\ Reply(v.out[j]) => i = j
    BY <1>3, <1>6 DEF Sound, Talk
  <2>5. QED
    BY <2>1, <2>2, <2>3, <2>4 DEF Talk
<1>9. Closes(v)
  BY <1>3, <1>6 DEF Sound, Closes
<1>10. Receipted(v)
  BY <1>3, <1>6 DEF Sound, Receipted, Running
<1>11. QED
  BY <1>3, <1>4, <1>6, <1>7, <1>8, <1>9, <1>10 DEF Sound, Running

\* A receipt is noted.
LEMMA NotedSound ==
  ASSUME NEW u, Sound(u), Running(u), NEW k \in Receipts, k = u.end, NEW v, v = [u EXCEPT !.receipt = k]
  PROVE  Sound(v) /\ Running(v) /\ v.live = u.live /\ v.hello = u.hello /\ v.pending = u.pending
<1>1. u \in Workers
  BY DEF Sound
<1>2. /\ v \in Workers /\ v.hello = u.hello /\ v.out = u.out /\ v.in = u.in /\ v.child = u.child /\ v.live = u.live
      /\ v.timer = u.timer /\ v.pending = u.pending /\ v.closing = u.closing /\ v.killed = u.killed
      /\ v.receipt = k /\ v.end = u.end /\ v.status = u.status /\ v.resources = u.resources
      /\ v.code = u.code /\ v.torn = u.torn /\ v.finished = u.finished
  <2>1. v \in Workers
    BY <1>1 DEF Workers
  <2>2. QED
    BY <1>1, <2>1 DEF Workers
<1>3. Greeted(v)
  BY <1>2 DEF Sound, Greeted
<1>4. Talk(v)
  BY <1>2 DEF Sound, Talk
<1>5. Closes(v)
  BY <1>2 DEF Sound, Closes
<1>6. Receipted(v)
  BY <1>2 DEF Sound, Receipted
<1>7. QED
  BY <1>2, <1>3, <1>4, <1>5, <1>6 DEF Sound, Running

\* The pending request has its answer.
Quiet(u) == (\A i \in DOMAIN u.in : u.in[i] = "close") /\ \A i \in DOMAIN u.out : ~Reply(u.out[i])
Answering(u, v) == \/ v = [u EXCEPT !.live = FALSE, !.pending = None, !.faults = TRUE]
                   \/ v = [u EXCEPT !.live = FALSE, !.pending = None]
LEMMA SettledSound ==
  ASSUME NEW u, Sound(u), Running(u), u.hello = "ok", Quiet(u), NEW v, Answering(u, v)
  PROVE  Sound(v) /\ Running(v) /\ ~v.live /\ v.hello = "ok" /\ v.pending = None /\ v.closing = u.closing
<1>1. u \in Workers
  BY DEF Sound
<1>2. /\ v \in Workers /\ v.hello = u.hello /\ v.out = u.out /\ v.in = u.in /\ v.child = u.child /\ ~v.live
      /\ v.timer = u.timer /\ v.pending = None /\ v.closing = u.closing /\ v.killed = u.killed
      /\ v.receipt = u.receipt /\ v.end = u.end /\ v.status = u.status /\ v.resources = u.resources
      /\ v.code = u.code /\ v.torn = u.torn /\ v.finished = u.finished
  <2>1. v \in Workers
    <3>1. CASE v = [u EXCEPT !.live = FALSE, !.pending = None, !.faults = TRUE]
      BY <1>1, <3>1 DEF Workers
    <3>2. CASE v = [u EXCEPT !.live = FALSE, !.pending = None]
      BY <1>1, <3>2 DEF Workers
    <3>3. QED
      BY <3>1, <3>2 DEF Answering
  <2>2. QED
    <3>1. CASE v = [u EXCEPT !.live = FALSE, !.pending = None, !.faults = TRUE]
      BY <1>1, <2>1, <3>1 DEF Workers
    <3>2. CASE v = [u EXCEPT !.live = FALSE, !.pending = None]
      BY <1>1, <2>1, <3>2 DEF Workers
    <3>3. QED
      BY <3>1, <3>2 DEF Answering
<1>3. Greeted(v)
  BY <1>2 DEF Sound, Greeted
<1>4. Talk(v)
  <2>1. \A i \in DOMAIN v.in : v.in[i] = "close" /\ v.closing
    BY <1>2 DEF Sound, Talk, Quiet
  <2>2. \A i \in DOMAIN v.out : ~Reply(v.out[i]) /\ v.out[i].kind \notin Answers
    BY <1>2 DEF Reply, Quiet
  <2>3. \A i \in DOMAIN v.out : v.out[i].kind = "frame" => v.out[i].size \in Sizes
    BY <1>2 DEF Sound, Talk
  <2>4. QED
    BY <2>1, <2>2, <2>3 DEF Talk
<1>5. Closes(v)
  BY <1>2 DEF Sound, Closes
<1>6. Receipted(v)
  BY <1>2 DEF Sound, Receipted
<1>7. QED
  BY <1>2, <1>3, <1>4, <1>5, <1>6 DEF Sound, Running

\* What receive() leaves of a packet after the hello: an answer to a request
\* that is still awaited settles it; nothing else does unless the worker fails.
Settles(w, p, v) ==
  /\ v.hello = "ok" /\ v.pending = None /\ ~v.closing /\ w.hello = "ok"
  /\ p.kind = "fault" \/ p.kind \in Kinds(w.pending)
  /\ p.kind = "frame" => p.size \in Sizes
Handled(w, p, v) ==
  /\ Sound(v) /\ Running(v) /\ v.hello \in {w.hello, "ok", "failed"} /\ (v.live => w.live /\ v.pending = w.pending)
  /\ p.kind \notin Receipts => ~v.live
  /\ p.kind \notin Receipts /\ w.live => Settles(w, p, v)
LEMMA ReceiveSound ==
  ASSUME NEW w, Sound(w), w.out # << >>, ~w.killed,
         NEW p, p = Head(w.out), p.kind # "hello",
         NEW v, v = Receive([w EXCEPT !.out = Tail(@)], p)
  PROVE  Handled(w, p, v)
<1>1. PICK u : u = [w EXCEPT !.out = Tail(@)]
  OBVIOUS
<1>2. Took(w, p, u)
  BY <1>1, TailSound
<1>3. /\ Sound(u) /\ Running(u) /\ ~u.killed /\ p \in Packets
      /\ u.live = w.live /\ u.hello = w.hello /\ u.pending = w.pending /\ u.closing = w.closing
  BY <1>2 DEF Took
<1>4. u \in Workers /\ (u.live => u.pending # None /\ ~u.closing) /\ (u.hello # "ok" => u.pending = None)
  BY <1>3 DEF Sound, Closes, Greeted
<1>5. v = Receive(u, p)
  BY <1>1
<1>6. \/ p.kind = "fault" /\ p.kind \notin Receipts /\ p.kind \notin Answers
      \/ p.kind \in Answers /\ p.kind \notin Receipts /\ p.kind # "fault"
      \/ p.kind \in Receipts /\ p.kind # "fault" /\ p.kind \notin Answers
  BY <1>3 DEF Packets, Receipts, Answers
<1>7. Kinds(u.pending) \subseteq Answers /\ (u.pending = None => Kinds(u.pending) = {})
  BY <1>4 DEF Workers, Ops, Kinds, Answers, None
<1>8. CASE p.kind \in Receipts
  <2>1. CASE u.hello = "ok"
    <3>1. v = [u EXCEPT !.receipt = p.kind]
      BY <1>5, <1>6, <1>7, <1>8, <2>1 DEF Receive
    <3>2. Sound(v) /\ Running(v) /\ v.live = u.live /\ v.hello = u.hello /\ v.pending = u.pending
      <4>1. PICK k \in Receipts : k = p.kind
        BY <1>8
      <4>2. k = u.end
        BY <1>2, <4>1 DEF Took
      <4>3. v = [u EXCEPT !.receipt = k]
        BY <3>1, <4>1
      <4>4. QED
        BY <1>3, <4>2, <4>3, NotedSound
    <3>3. QED
      BY <1>3, <1>8, <3>2 DEF Handled
  <2>2. CASE u.hello # "ok"
    <3>1. v = Fail(u)
      BY <1>5, <1>6, <1>7, <1>8, <2>2 DEF Receive
    <3>2. Sound(v) /\ Running(v) /\ ~v.live /\ v.killed /\ v.hello # "wait"
      BY <1>3, <3>1, FailSound
    <3>3. v.hello \in {"ok", "failed"}
      BY <3>2 DEF Sound, Workers
    <3>4. QED
      BY <1>3, <1>8, <3>2, <3>3 DEF Handled
  <2>3. QED
    BY <2>1, <2>2
<1>9. CASE p.kind \notin Receipts
  <2>0. Reply(p)
    BY <1>6, <1>9 DEF Reply
  <2>1. u.pending # None /\ u.hello = "ok"
    BY <1>2, <1>4, <2>0 DEF Took
  <2>2. Quiet(u)
    BY <1>2, <2>0 DEF Took, Quiet
  <2>3. p.kind \in Answers => p.kind \in Kinds(u.pending)
    BY <1>2 DEF Took
  <2>4. Answering(u, v)
    <3>1. CASE p.kind = "fault"
      <4>1. v = [Reject(u) EXCEPT !.pending = None, !.faults = TRUE]
        BY <1>5, <1>6, <1>7, <1>9, <2>1, <3>1 DEF Receive
      <4>2. QED
        BY <1>4, <4>1 DEF Reject, Workers, Answering
    <3>2. CASE p.kind # "fault"
      <4>1. v = [Reject(u) EXCEPT !.pending = None]
        BY <1>5, <1>6, <1>7, <1>9, <2>1, <2>3, <3>2 DEF Receive
      <4>2. QED
        BY <1>4, <4>1 DEF Reject, Workers, Answering
    <3>3. QED
      BY <3>1, <3>2
  <2>6. Sound(v) /\ Running(v) /\ ~v.live /\ v.hello = "ok" /\ v.pending = None /\ v.closing = u.closing
    BY <1>3, <2>1, <2>2, <2>4, SettledSound
  <2>7. w.live => Settles(w, p, v)
    BY <1>2, <1>3, <1>4, <1>6, <1>9, <2>1, <2>3, <2>6 DEF Settles, Took
  <2>8. QED
    BY <1>9, <2>6, <2>7 DEF Handled
<1>10. QED
  BY <1>8, <1>9

\* What the process does leaves alone what the other side knows.
Kept(w, v) == /\ Sound(v) /\ Running(v) /\ v.live = w.live /\ v.hello = w.hello /\ v.pending = w.pending
              /\ v.code = w.code \/ w.child \notin {"exited", None}

\* An answer fits the request that is read.
Fits(w, q) == q \in Packets /\ q.kind \in Kinds(w.pending) \cup {"fault"} /\ (q.kind = "frame" => q.size \in Sizes)

LEMMA KindsOfOps ==
  ASSUME NEW w \in Workers
  PROVE  Kinds(w.pending) \subseteq Answers /\ (w.pending = None => Kinds(w.pending) = {})
  BY DEF Workers, Ops, Kinds, Answers, None

\* What is left of the commands after the first one.
LEMMA RestOfCommands ==
  ASSUME NEW w, Sound(w), w.in # << >>
  PROVE  /\ Tail(w.in) \in Seq(Commands)
         /\ \A i \in DOMAIN Tail(w.in) : Tail(w.in)[i] = "close" /\ w.closing
<1>1. w \in Workers
  BY DEF Sound
<1>2. w.in \in Seq(Commands) /\ Len(w.in) > 0 /\ Len(w.in) \in Nat
  BY <1>1 DEF Workers
<1> DEFINE t == Tail(w.in)
<1>3. t \in Seq(Commands) /\ \A i \in DOMAIN t : i + 1 \in DOMAIN w.in /\ i + 1 # 1 /\ t[i] = w.in[i + 1]
  BY <1>2
<1> HIDE DEF t
<1>4. \A i \in DOMAIN t : t[i] = "close" /\ w.closing
  BY <1>3 DEF Sound, Talk
<1>5. QED
  BY <1>3, <1>4 DEF t

\* What the request under way says of the pipes.
LEMMA ReadingSound ==
  ASSUME NEW w, Sound(w), w.in # << >>, Head(w.in) \in Ops
  PROVE  Head(w.in) = w.pending /\ \A i \in DOMAIN w.out : ~Reply(w.out[i])
<1>1. w \in Workers
  BY DEF Sound
<1>2. 1 \in DOMAIN w.in /\ w.in[1] = Head(w.in)
  BY <1>1 DEF Workers
<1>3. w.in[1] # "close"
  BY <1>2 DEF Ops
<1>4. QED
  BY <1>2, <1>3 DEF Sound, Talk

LEMMA AnsweredSound ==
  ASSUME NEW w, Sound(w), w.child = "idle", w.in # << >>, Head(w.in) \in Ops,
         NEW q, Fits(w, q), NEW v, v = Answered(w, q)
  PROVE  Kept(w, v)
<1>1. w \in Workers
  BY DEF Sound
<1> DEFINE t == Tail(w.in)
           o == Append(w.out, q)
<1>2. t \in Seq(Commands) /\ \A i \in DOMAIN t : t[i] = "close" /\ w.closing
  BY RestOfCommands
<1>3. o \in Seq(Packets)
  BY <1>1 DEF Workers, Fits
<1>4. \A i \in DOMAIN o : (i \in DOMAIN w.out /\ o[i] = w.out[i]) \/ (i = Len(o) /\ o[i] = q)
  BY <1>1 DEF Workers
<1>5. v = [w EXCEPT !.in = t, !.out = o]
  BY <1>1 DEF Answered, Workers
<1> HIDE DEF t, o
<1>6. /\ v \in Workers /\ v.hello = w.hello /\ v.out = o /\ v.in = t /\ v.child = w.child /\ v.live = w.live
      /\ v.timer = w.timer /\ v.pending = w.pending /\ v.closing = w.closing /\ v.killed = w.killed
      /\ v.receipt = w.receipt /\ v.end = w.end /\ v.status = w.status /\ v.resources = w.resources
      /\ v.code = w.code /\ v.torn = w.torn /\ v.finished = w.finished
  <2>0. PICK x : x = [w EXCEPT !.in = t]
    OBVIOUS
  <2>3. x \in Workers /\ v = [x EXCEPT !.out = o]
    BY <1>1, <1>2, <1>5, <2>0 DEF Workers
  <2>1. v \in Workers
    BY <1>3, <2>3 DEF Workers
  <2>2. QED
    BY <1>1, <1>5, <2>1 DEF Workers
<1>7. w.pending # None /\ w.pending = Head(w.in) /\ \A i \in DOMAIN w.out : ~Reply(w.out[i])
  BY ReadingSound DEF Ops, None
<1>8. q.kind # "hello" /\ q.kind \notin Receipts /\ (q.kind \in Answers => q.kind \in Kinds(w.pending))
  BY <1>1, KindsOfOps DEF Fits, Answers, Receipts
<1>9. Greeted(v)
  BY <1>4, <1>6, <1>8 DEF Sound, Greeted
<1>10. Talk(v)
  <2>1. \A i \in DOMAIN v.in : v.in[i] = "close" /\ v.closing
    BY <1>2, <1>6
  <2>2. \A i \in DOMAIN v.out : /\ v.out[i].kind \in Answers => v.out[i].kind \in Kinds(v.pending)
                                /\ v.out[i].kind = "frame" => v.out[i].size \in Sizes
                                /\ Reply(v.out[i]) => i = Len(o)
    BY <1>4, <1>6, <1>7, <1>8 DEF Sound, Talk, Fits
  <2>3. QED
    BY <1>6, <1>7, <2>1, <2>2 DEF Talk
<1>11. Closes(v)
  BY <1>6 DEF Sound, Closes
<1>12. w.end = None /\ ~w.finished
  BY DEF Sound, Receipted
<1>13. Receipted(v)
  BY <1>4, <1>6, <1>8, <1>12 DEF Sound, Receipted, None
<1>14. QED
  BY <1>6, <1>9, <1>10, <1>11, <1>12, <1>13 DEF Sound, Running, Kept, None

\* The process ends by itself, after its last answer if it was asked for one.
LEMMA EndedSound ==
  ASSUME NEW w, Sound(w), w.child = "idle", NEW r \in Receipts, NEW code \in Int, NEW ps,
         \/ ps = << >>
         \/ /\ w.in # << >> /\ Head(w.in) \in Ops
            /\ \E q : ps = <<q>> /\ Fits(w, q),
         NEW v, v = Ended(w, ps, r, code)
  PROVE  Kept(w, v)
<1>1. w \in Workers
  BY DEF Sound
<1> DEFINE t == IF w.in = << >> THEN w.in ELSE Tail(w.in)
           o == w.out \o ps \o <<Packet(r)>>
<1>2. t \in Seq(Commands) /\ \A i \in DOMAIN t : t[i] = "close" /\ w.closing
  <2>1. CASE w.in = << >>
    BY <1>1, <2>1 DEF Workers
  <2>2. CASE w.in # << >>
    BY <2>2, RestOfCommands
  <2>3. QED
    BY <2>1, <2>2
<1>3. Packet(r) \in Packets /\ Packet(r).kind = r /\ r \notin {"hello", "fault", "frame"} /\ r \notin Answers
  BY DEF Packet, Packets, Receipts, Answers
<1>4. /\ o \in Seq(Packets)
      /\ \A i \in DOMAIN o : \/ i \in DOMAIN w.out /\ o[i] = w.out[i]
                             \/ i = Len(w.out) + 1 /\ ps # << >> /\ o[i] = ps[1]
                             \/ o[i] = Packet(r)
  <2>0. PICK z \in Packets : z = Packet(r)
    BY <1>3
  <2>1. CASE ps = << >>
    <3>1. w.out \o ps = w.out
      BY <1>1, <2>1 DEF Workers
    <3>2. w.out \o <<z>> \in Seq(Packets) /\ \A i \in DOMAIN (w.out \o <<z>>) :
             (i \in DOMAIN w.out /\ (w.out \o <<z>>)[i] = w.out[i]) \/ (w.out \o <<z>>)[i] = z
      BY <1>1 DEF Workers
    <3>3. QED
      BY <2>0, <3>1, <3>2
  <2>2. CASE \E q : ps = <<q>> /\ Fits(w, q)
    <3>1. PICK q : ps = <<q>> /\ q \in Packets
      BY <2>2 DEF Fits
    <3>2. w.out \o <<q>> \in Seq(Packets) /\ \A i \in DOMAIN (w.out \o <<q>>) :
             (i \in DOMAIN w.out /\ (w.out \o <<q>>)[i] = w.out[i]) \/ (i = Len(w.out) + 1 /\ (w.out \o <<q>>)[i] = q)
      BY <1>1, <3>1 DEF Workers
    <3>3. PICK m \in Seq(Packets) : m = w.out \o <<q>>
      BY <3>2
    <3>4. m \o <<z>> \in Seq(Packets) /\ \A i \in DOMAIN (m \o <<z>>) :
             (i \in DOMAIN m /\ (m \o <<z>>)[i] = m[i]) \/ (m \o <<z>>)[i] = z
      OBVIOUS
    <3>5. ps # << >> /\ ps[1] = q /\ o = m \o <<z>>
      BY <2>0, <3>1, <3>3
    <3>6. QED
      BY <2>0, <3>2, <3>3, <3>4, <3>5
  <2>3. QED
    BY <2>1, <2>2
<1>5. v = [w EXCEPT !.child = "exited", !.code = code, !.end = r, !.in = t, !.out = o]
  BY <1>1 DEF Ended, Workers
<1> HIDE DEF t, o
<1>6. /\ v \in Workers /\ v.hello = w.hello /\ v.out = o /\ v.in = t /\ v.child = "exited" /\ v.live = w.live
      /\ v.timer = w.timer /\ v.pending = w.pending /\ v.closing = w.closing /\ v.killed = w.killed
      /\ v.receipt = w.receipt /\ v.end = r /\ v.status = w.status /\ v.resources = w.resources
      /\ v.torn = w.torn /\ v.finished = w.finished
  <2>0. PICK x : x = [w EXCEPT !.child = "exited", !.code = code, !.end = r]
    OBVIOUS
  <2>3. x \in Workers /\ v = [x EXCEPT !.in = t, !.out = o]
    BY <1>1, <1>5, <2>0 DEF Workers
  <2>4. PICK y : y = [x EXCEPT !.in = t]
    OBVIOUS
  <2>5. y \in Workers /\ v = [y EXCEPT !.out = o]
    BY <1>2, <2>3, <2>4 DEF Workers
  <2>1. v \in Workers
    BY <1>4, <2>5 DEF Workers
  <2>2. QED
    BY <1>1, <1>5, <2>1 DEF Workers
<1>7. ps # << >> => /\ w.pending # None /\ \A i \in DOMAIN w.out : ~Reply(w.out[i])
                    /\ Fits(w, ps[1]) /\ ps[1].kind # "hello" /\ ps[1].kind \notin Receipts
                    /\ ps[1].kind \in Answers => ps[1].kind \in Kinds(w.pending)
  <2> SUFFICES ASSUME ps # << >>
               PROVE  /\ w.pending # None /\ \A i \in DOMAIN w.out : ~Reply(w.out[i])
                      /\ Fits(w, ps[1]) /\ ps[1].kind # "hello" /\ ps[1].kind \notin Receipts
                      /\ ps[1].kind \in Answers => ps[1].kind \in Kinds(w.pending)
    OBVIOUS
  <2>1. w.pending # None /\ \A i \in DOMAIN w.out : ~Reply(w.out[i])
    BY ReadingSound DEF Ops, None
  <2>2. PICK q : ps[1] = q /\ Fits(w, q)
    OBVIOUS
  <2>3. q.kind # "hello" /\ q.kind \notin Receipts /\ (q.kind \in Answers => q.kind \in Kinds(w.pending))
    BY <1>1, <2>2, KindsOfOps DEF Fits, Answers, Receipts
  <2>4. QED
    BY <2>1, <2>2, <2>3
<1>8. w.end = None /\ ~w.finished
  BY DEF Sound, Receipted
<1>9. Greeted(v)
  BY <1>3, <1>4, <1>6, <1>7 DEF Sound, Greeted
<1>10. Talk(v)
  <2>1. \A i \in DOMAIN v.in : v.in[i] = "close" /\ v.closing
    BY <1>2, <1>6
  <2>2. \A i \in DOMAIN v.out : /\ v.out[i].kind \in Answers => v.out[i].kind \in Kinds(v.pending)
                                /\ v.out[i].kind = "frame" => v.out[i].size \in Sizes
    BY <1>3, <1>4, <1>6, <1>7 DEF Sound, Talk, Fits
  <2>3. \A i \in DOMAIN v.out : Reply(v.out[i]) => \/ ps = << >> /\ i \in DOMAIN w.out /\ v.out[i] = w.out[i]
                                                   \/ ps # << >> /\ i = Len(w.out) + 1
    BY <1>3, <1>4, <1>6, <1>7 DEF Reply
  <2>4. \A i, j \in DOMAIN v.out : Reply(v.out[i]) /\ Reply(v.out[j]) => i = j
    BY <2>3 DEF Sound, Talk
  <2>5. \A i \in DOMAIN v.out : Reply(v.out[i]) => v.pending # None
    BY <1>6, <1>7, <2>3 DEF Sound, Talk
  <2>6. QED
    BY <2>1, <2>2, <2>4, <2>5 DEF Talk
<1>11. Closes(v)
  BY <1>6 DEF Sound, Closes
<1>12. Receipted(v)
  BY <1>3, <1>4, <1>6, <1>7, <1>8 DEF Sound, Receipted, None, Receipts
<1>13. QED
  BY <1>6, <1>8, <1>9, <1>10, <1>11, <1>12 DEF Sound, Running, Kept, None

\* The process starts, and it dies.
LEMMA StartedSound ==
  ASSUME NEW w, Sound(w), w.child = "starting",
         NEW v, v = [w EXCEPT !.child = "idle", !.out = Append(@, Packet("hello"))]
  PROVE  Kept(w, v)
<1>1. w \in Workers /\ w.out = << >> /\ w.hello # "ok" /\ w.pending = None /\ ~w.live /\ ~w.finished /\ w.end = None
  BY DEF Sound, Greeted, Closes, Receipted, None
<1>0. Packet("hello") \in Packets /\ Packet("hello").kind = "hello"
  BY DEF Packet, Packets
<1>2. PICK p \in Packets : p = Packet("hello") /\ p.kind = "hello"
  BY <1>0
<1> DEFINE o == <<p>>
<1>3. o \in Seq(Packets) /\ \A i \in DOMAIN o : i = 1 /\ o[i] = p
  OBVIOUS
<1>4. v = [w EXCEPT !.child = "idle", !.out = o]
  <2>1. Append(w.out, p) = o
    BY <1>1
  <2>2. QED
    BY <1>1, <1>2, <2>1 DEF Workers
<1> HIDE DEF o
<1>5. /\ v \in Workers /\ v.hello = w.hello /\ v.out = o /\ v.in = w.in /\ v.child = "idle" /\ v.live = w.live
      /\ v.timer = w.timer /\ v.pending = w.pending /\ v.closing = w.closing /\ v.killed = w.killed
      /\ v.receipt = w.receipt /\ v.end = w.end /\ v.status = w.status /\ v.resources = w.resources
      /\ v.code = w.code /\ v.torn = w.torn /\ v.finished = w.finished
  <2>0. PICK x : x = [w EXCEPT !.child = "idle"]
    OBVIOUS
  <2>3. x \in Workers /\ v = [x EXCEPT !.out = o]
    BY <1>1, <1>4, <2>0 DEF Workers
  <2>1. v \in Workers
    BY <1>3, <2>3 DEF Workers
  <2>2. QED
    BY <1>1, <1>4, <2>1 DEF Workers
<1>6. Greeted(v)
  BY <1>2, <1>3, <1>5, <1>1 DEF Sound, Greeted
<1>7. Talk(v)
  <2>1. \A i \in DOMAIN v.out : ~Reply(v.out[i]) /\ v.out[i].kind \notin Answers /\ v.out[i].kind # "frame"
    BY <1>2, <1>3, <1>5 DEF Reply, Answers
  <2>2. \A i \in DOMAIN v.in : IF v.in[i] = "close" THEN v.closing ELSE i = 1 /\ v.in[i] = v.pending
    BY <1>5 DEF Sound, Talk
  <2>3. QED
    BY <2>1, <2>2 DEF Talk
<1>8. Closes(v)
  BY <1>5 DEF Sound, Closes
<1>9. Receipted(v)
  BY <1>1, <1>2, <1>3, <1>5 DEF Sound, Receipted, None, Receipts
<1>10. QED
  BY <1>1, <1>5, <1>6, <1>7, <1>8, <1>9 DEF Sound, Running, Kept, None

LEMMA DiedSound ==
  ASSUME NEW w, Sound(w), Alive(w), NEW cut \in BOOLEAN,
         NEW v, v = [w EXCEPT !.child = "exited", !.code = 2, !.torn = cut]
  PROVE  Kept(w, v)
<1>1. w \in Workers /\ ~w.finished /\ w.end = None /\ w.child \notin {"exited", None}
  BY DEF Sound, Receipted, Alive, None
<1>2. /\ v \in Workers /\ v.hello = w.hello /\ v.out = w.out /\ v.in = w.in /\ v.child = "exited" /\ v.live = w.live
      /\ v.timer = w.timer /\ v.pending = w.pending /\ v.closing = w.closing /\ v.killed = w.killed
      /\ v.receipt = w.receipt /\ v.end = w.end /\ v.status = w.status /\ v.resources = w.resources
      /\ v.finished = w.finished
  <2>0. PICK x : x = [w EXCEPT !.child = "exited"]
    OBVIOUS
  <2>3. PICK y : y = [x EXCEPT !.code = 2]
    OBVIOUS
  <2>4. x \in Workers
    BY <1>1, <2>0 DEF Workers
  <2>5. y \in Workers
    BY <2>3, <2>4 DEF Workers
  <2>6. v = [y EXCEPT !.torn = cut]
    BY <1>1, <2>0, <2>3 DEF Workers
  <2>1. v \in Workers
    BY <2>5, <2>6 DEF Workers
  <2>2. QED
    BY <1>1, <2>1 DEF Workers
<1>3. Greeted(v)
  BY <1>2 DEF Sound, Greeted
<1>4. Talk(v)
  BY <1>2 DEF Sound, Talk
<1>5. Closes(v)
  BY <1>2 DEF Sound, Closes
<1>6. Receipted(v)
  BY <1>1, <1>2 DEF Sound, Receipted, None
<1>7. QED
  BY <1>1, <1>2, <1>3, <1>4, <1>5, <1>6 DEF Sound, Running, Kept, None

\* What finish() leaves: a result that claims no more than the process did.
LEMMA FinishSound ==
  ASSUME NEW w, Sound(w), w.child = "exited", NEW v, v = Finish(w)
  PROVE  Sound(v) /\ v.finished /\ ~v.live /\ v.child # None /\ v.code = w.code
         /\ (v.status = "closed" => v.code = 0)
<1>1. w \in Workers
  BY DEF Sound
<1>2. Result(w).status \in {"closed", "forced", "failed"} /\ Result(w).resources \in {"unknown", "released"}
  BY DEF Result
<1>3. /\ Result(w).status = "closed" => w.code = 0 /\ w.receipt = "clean" /\ ~w.torn
      /\ Result(w).resources = "released" => w.receipt \notin {None, "unreleased"}
  BY <1>1 DEF Result, Workers
<1>4. /\ v \in Workers /\ v.hello = "wait" /\ v.out = << >> /\ v.in = << >> /\ v.child = "exited" /\ ~v.live
      /\ ~v.timer /\ v.pending = None /\ ~v.closing /\ ~v.killed
      /\ v.receipt = None /\ v.end = w.end /\ v.status = Result(w).status /\ v.resources = Result(w).resources
      /\ v.code = w.code /\ v.torn = w.torn /\ v.finished
  <2>1. v = [child |-> "exited", in |-> <<>>, out |-> <<>>, code |-> w.code, torn |-> w.torn, sent |-> 0,
             end |-> w.end, hello |-> "wait", pending |-> None, live |-> FALSE, faults |-> FALSE, receipt |-> None,
             closing |-> FALSE, timer |-> FALSE, killed |-> FALSE, finished |-> TRUE,
             status |-> Result(w).status, resources |-> Result(w).resources]
    BY DEF Finish, NoWorker
  <2>2. << >> \in Seq(Commands) /\ << >> \in Seq(Packets)
    OBVIOUS
  <2>3. PICK st \in {"closed", "forced", "failed"}, rs \in {"unknown", "released"} :
          st = Result(w).status /\ rs = Result(w).resources
    BY <1>2
  <2>4. v \in Workers
    BY <1>1, <2>1, <2>2, <2>3 DEF Workers
  <2>5. QED
    BY <2>1, <2>4
<1>5. w.receipt \in {None} \cup Receipts /\ (w.receipt # None => w.receipt = w.end)
  BY <1>1 DEF Sound, Receipted, Workers
<1>6. Greeted(v) /\ Talk(v) /\ Closes(v)
  BY <1>4 DEF Greeted, Talk, Closes, None
<1>7. Receipted(v)
  BY <1>3, <1>4, <1>5 DEF Receipted, None, Receipts
<1>8. QED
  BY <1>3, <1>4, <1>6, <1>7 DEF Sound, None

\* A worker that does not exist, and one that has been spawned.
LEMMA NewSound ==
  /\ Sound(NoWorker) /\ NoWorker.child = None /\ ~NoWorker.live /\ NoWorker.hello = "wait"
  /\ Sound(Spawned) /\ Running(Spawned) /\ ~Spawned.live
<1>1. << >> \in Seq(Commands) /\ << >> \in Seq(Packets)
  OBVIOUS
<1>2. NoWorker \in Workers /\ Spawned \in Workers
  <2>1. PICK l \in Seq(Commands) : l = << >>
    BY <1>1
  <2>2. PICK o \in Seq(Packets) : o = << >>
    BY <1>1
  <2>4. NoWorker \in Workers
    BY <2>1, <2>2, -1 \in Int DEF NoWorker, Workers
  <2>5. QED
    BY <2>4 DEF Spawned, Workers
<1>3. Greeted(NoWorker) /\ Talk(NoWorker) /\ Closes(NoWorker) /\ Receipted(NoWorker)
  BY DEF NoWorker, Greeted, Talk, Closes, Receipted, None
<1>4. Greeted(Spawned) /\ Talk(Spawned) /\ Closes(Spawned) /\ Receipted(Spawned)
  BY DEF NoWorker, Spawned, Greeted, Talk, Closes, Receipted, None
<1>5. QED
  BY <1>2, <1>3, <1>4 DEF Sound, Running, NoWorker, Spawned, None

\* The frames sent are only counted.
LEMMA CountedSound ==
  ASSUME NEW w, Sound(w), NEW p, NEW x, x = Answered(w, p), Kept(w, x), NEW v, v = Supplied(w, p)
  PROVE  Kept(w, v)
<1>0. x \in Workers
  BY DEF Kept, Sound
<1>1. PICK n \in Nat : n = w.sent + 1
  BY DEF Sound, Workers
<1>9. v = [x EXCEPT !.sent = n]
  BY <1>1 DEF Supplied
<1>2. /\ v \in Workers /\ v.hello = x.hello /\ v.out = x.out /\ v.in = x.in /\ v.child = x.child /\ v.live = x.live
      /\ v.timer = x.timer /\ v.pending = x.pending /\ v.closing = x.closing /\ v.killed = x.killed
      /\ v.receipt = x.receipt /\ v.end = x.end /\ v.status = x.status /\ v.resources = x.resources
      /\ v.code = x.code /\ v.torn = x.torn /\ v.finished = x.finished
  <2>1. v \in Workers
    BY <1>0, <1>9 DEF Workers
  <2>2. QED
    BY <1>0, <1>9, <2>1 DEF Workers
<1>3. Greeted(v)
  BY <1>2 DEF Kept, Sound, Greeted
<1>4. Talk(v)
  BY <1>2 DEF Kept, Sound, Talk
<1>5. Closes(v)
  BY <1>2 DEF Kept, Sound, Closes
<1>6. Receipted(v)
  BY <1>2 DEF Kept, Sound, Receipted
<1>7. QED
  BY <1>2, <1>3, <1>4, <1>5, <1>6 DEF Sound, Running, Kept

LEMMA RejectSound ==
  ASSUME NEW w, Sound(w), Running(w), NEW v, v = Reject(w)
  PROVE  Sound(v) /\ Running(v) /\ ~v.live /\ v.hello = w.hello
<1>1. w \in Workers
  BY DEF Sound
<1>2. /\ v \in Workers /\ v.hello = w.hello /\ v.out = w.out /\ v.in = w.in /\ v.child = w.child /\ ~v.live
      /\ v.timer = w.timer /\ v.pending = w.pending /\ v.closing = w.closing /\ v.killed = w.killed
      /\ v.receipt = w.receipt /\ v.end = w.end /\ v.status = w.status /\ v.resources = w.resources
      /\ v.code = w.code /\ v.torn = w.torn /\ v.finished = w.finished
  <2>1. v \in Workers
    BY <1>1 DEF Workers, Reject
  <2>2. QED
    BY <1>1, <2>1 DEF Workers, Reject
<1>3. Greeted(v)
  BY <1>2 DEF Sound, Greeted
<1>4. Talk(v)
  BY <1>2 DEF Sound, Talk
<1>5. Closes(v)
  BY <1>2 DEF Sound, Closes
<1>6. Receipted(v)
  BY <1>2 DEF Sound, Receipted
<1>7. QED
  BY <1>2, <1>3, <1>4, <1>5, <1>6 DEF Sound, Running

-----------------------------------------------------------------------------
\* The bytes of the leases.
LEMMA WeightUnion ==
  ASSUME NEW S, IsFiniteSet(S), NEW w \in [S -> Nat], NEW A \in SUBSET S, NEW B \in SUBSET S, A \cap B = {}
  PROVE  Weight(w, A \cup B) = Weight(w, A) + Weight(w, B) /\ Weight(w, A) \in Nat /\ Weight(w, B) \in Nat
<1>1. IsFiniteSet(Units(w, A)) /\ IsFiniteSet(Units(w, B))
  BY UnitsFinite
<1>2. Units(w, A \cup B) = Units(w, A) \cup Units(w, B) /\ Units(w, A) \cap Units(w, B) = {}
  BY DEF Units
<1>3. Cardinality(Units(w, A) \cup Units(w, B))
        = Cardinality(Units(w, A)) + Cardinality(Units(w, B)) - Cardinality(Units(w, A) \cap Units(w, B))
  BY <1>1, FS_Union
<1>4. Cardinality(Units(w, A) \cap Units(w, B)) = 0
  BY <1>2, FS_EmptySet
<1>5. Cardinality(Units(w, A)) \in Nat /\ Cardinality(Units(w, B)) \in Nat
  BY <1>1, FS_CardinalityType
<1>6. Cardinality(Units(w, A \cup B)) = Cardinality(Units(w, A)) + Cardinality(Units(w, B))
  <2>1. Cardinality(Units(w, A \cup B)) = Cardinality(Units(w, A) \cup Units(w, B))
    BY <1>2
  <2>2. QED
    BY <1>3, <1>4, <1>5, <2>1
<1>7. QED
  BY <1>5, <1>6 DEF Weight

LEMMA WeightAgrees ==
  ASSUME NEW w, NEW x, NEW T, \A c \in T : w[c] = x[c]
  PROVE  Weight(w, T) = Weight(x, T)
<1>1. Units(w, T) = Units(x, T)
  BY DEF Units
<1>2. QED
  BY <1>1 DEF Weight

LEMMA SumSizesIs ==
  ASSUME conn \in [Conns -> Leases], NEW T \in SUBSET Conns
  PROVE  SumSizes(T) = Weight(Sizing(conn), T) /\ SumSizes(T) \in Nat
<1>1. IsFiniteSet(Conns)
  BY AdapterAssumption
<1>2. PICK w \in [Conns -> Nat] : w = Sizing(conn)
  <2>1. Sizing(conn) \in [Conns -> Nat]
    BY DEF Sizing, Leases
  <2>2. QED
    BY <2>1
<1>3. \A c \in Conns : conn[c].size = w[c]
  BY <1>2 DEF Sizing
<1>4. IsFiniteSet(T)
  BY <1>1, FS_Subset
<1> DEFINE P(g) == g = [s \in SUBSET T |-> IF s = {} THEN 0
                          ELSE conn[CHOOSE x \in s : TRUE].size + g[s \ {CHOOSE x \in s : TRUE}]]
<1>5. SumSizes(T) = (CHOOSE g : P(g))[T]
  BY DEF SumSizes, MapThenSumSet, MapThenFoldSet
<1>6. \E g : P(g)
  <2> DEFINE k == [s \in SUBSET T |-> Weight(w, s)]
  <2>1. ASSUME NEW s \in SUBSET T
        PROVE  k[s] = IF s = {} THEN 0 ELSE conn[CHOOSE x \in s : TRUE].size + k[s \ {CHOOSE x \in s : TRUE}]
    <3>1. CASE s = {}
      <4>1. Units(w, {}) = {}
        BY DEF Units
      <4>2. Weight(w, {}) = 0
        BY <4>1, FS_EmptySet DEF Weight
      <4>3. QED
        BY <3>1, <4>2
    <3>2. CASE s # {}
      <4>1. PICK c \in s : c = CHOOSE x \in s : TRUE
        BY <3>2
      <4>2. Weight(w, s) = w[c] + Weight(w, s \ {c})
        BY <1>1, WeightStep
      <4>3. s \ {c} \in SUBSET T /\ conn[c].size = w[c]
        BY <1>3
      <4>4. QED
        BY <3>2, <4>1, <4>2, <4>3
    <3>3. QED
      BY <3>1, <3>2
  <2>2. P(k)
    <3>1. k = [s \in SUBSET T |-> IF s = {} THEN 0
                 ELSE conn[CHOOSE x \in s : TRUE].size + k[s \ {CHOOSE x \in s : TRUE}]]
      BY <2>1
    <3>2. QED
      BY <3>1
  <2>3. QED
    BY <2>2
<1>7. PICK g : P(g) /\ g = CHOOSE h : P(h)
  BY <1>6
<1>8. /\ g[{}] = 0
      /\ \A s \in SUBSET T : s # {} => \E c \in s : g[s] = w[c] + g[s \ {c}]
  <2>1. \A s \in SUBSET T : g[s] = IF s = {} THEN 0 ELSE conn[CHOOSE x \in s : TRUE].size + g[s \ {CHOOSE x \in s : TRUE}]
    BY <1>7
  <2>2. ASSUME NEW s \in SUBSET T, s # {} PROVE \E c \in s : g[s] = w[c] + g[s \ {c}]
    <3>1. PICK c \in s : c = CHOOSE x \in s : TRUE
      BY <2>2
    <3>2. g[s] = conn[c].size + g[s \ {c}]
      BY <2>1, <2>2, <3>1
    <3>3. QED
      BY <1>3, <3>2
  <2>3. {} \in SUBSET T
    OBVIOUS
  <2>4. QED
    BY <2>1, <2>2, <2>3
<1>9. PICK x \in [T -> Nat] : \A c \in T : x[c] = w[c]
  <2>1. [c \in T |-> w[c]] \in [T -> Nat]
    OBVIOUS
  <2>2. QED
    BY <2>1
<1>10. g[T] = Weight(x, T)
  <2>1. \A s \in SUBSET T : s # {} => \E c \in s : g[s] = x[c] + g[s \ {c}]
    BY <1>8, <1>9
  <2>2. T \in SUBSET T
    OBVIOUS
  <2>3. \A s \in SUBSET T : g[s] = Weight(x, s)
    <3>1. Adds(g, x, T)
      BY <1>8, <2>1 DEF Adds
    <3>2. QED
      BY <1>4, <3>1, SumIsWeight
  <2>4. QED
    BY <2>2, <2>3
<1>11. Weight(x, T) = Weight(w, T)
  BY <1>9, WeightAgrees
<1>12. Weight(w, T) \in Nat
  BY <1>1, WeightUnion, T \cap {} = {}
<1>13. QED
  BY <1>2, <1>5, <1>7, <1>10, <1>11, <1>12

LEMMA SizingType ==
  ASSUME NEW f \in [Conns -> Leases]
  PROVE  Sizing(f) \in [Conns -> Nat] /\ (\A c \in Conns : Sizing(f)[c] = f[c].size)
         /\ IsFiniteSet(Conns) /\ Total(f) \in Nat
<1>1. Sizing(f) \in [Conns -> Nat] /\ \A c \in Conns : Sizing(f)[c] = f[c].size
  BY DEF Sizing, Leases
<1>2. IsFiniteSet(Conns)
  BY AdapterAssumption
<1> DEFINE H == {c \in Conns : ~f[c].released}
<1>3. H \in SUBSET Conns /\ {} \in SUBSET Conns /\ H \cap {} = {}
  OBVIOUS
<1> HIDE DEF H
<1>4. Weight(Sizing(f), H) \in Nat
  BY <1>1, <1>2, <1>3, WeightUnion
<1>5. QED
  BY <1>1, <1>2, <1>4 DEF Total, H

\* A lease keeps its size until it is released.
LEMMA TotalAgrees ==
  ASSUME NEW f \in [Conns -> Leases], NEW g \in [Conns -> Leases],
         \A c \in Conns : g[c].released = f[c].released /\ (~f[c].released => g[c].size = f[c].size)
  PROVE  Total(g) = Total(f)
<1> DEFINE H == {c \in Conns : ~f[c].released}
<1>1. {c \in Conns : ~g[c].released} = H
  OBVIOUS
<1>2. \A c \in H : Sizing(g)[c] = Sizing(f)[c]
  BY SizingType
<1> HIDE DEF H
<1>3. Weight(Sizing(g), H) = Weight(Sizing(f), H)
  BY <1>2, WeightAgrees
<1>4. QED
  BY <1>1, <1>3 DEF Total, H

\* The leases of some connections are given back.
LEMMA ReleasedLeases ==
  ASSUME LeasesInv, NEW cs \in SUBSET Conns, NEW next, \A c \in cs : next[c] \in {"idle", "gone"},
         Released(cs, next)
  PROVE  LeasesInv' /\ inFlightBytes' \in Nat /\ inFlightBytes \in Nat /\ inFlightBytes' <= inFlightBytes
         /\ \A c \in Conns : conn'[c].released = (c \in cs \/ conn[c].released)
<1>1. conn \in [Conns -> Leases]
  BY DEF LeasesInv
<1> DEFINE now == {c \in cs : ~conn[c].released}
           rest == Held \ now
<1>2. /\ inFlight' = [r \in Readers |-> IF \E c \in now : conn[c].reader = r THEN 0 ELSE inFlight[r]]
      /\ inFlightBytes' = inFlightBytes - SumSizes(now)
      /\ conn' = [c \in Conns |-> IF c \in cs THEN [conn[c] EXCEPT !.phase = next[c], !.released = TRUE] ELSE conn[c]]
  BY DEF Released
<1>3. ASSUME NEW c \in Conns
      PROVE  /\ conn'[c] \in Leases /\ conn'[c].size = conn[c].size /\ conn'[c].reader = conn[c].reader
             /\ conn'[c].released = (c \in cs \/ conn[c].released)
             /\ conn'[c].phase = IF c \in cs THEN next[c] ELSE conn[c].phase
  <2>1. CASE c \in cs
    <3>1. conn'[c] = [conn[c] EXCEPT !.phase = next[c], !.released = TRUE] /\ conn[c] \in Leases
      BY <1>1, <1>2, <2>1
    <3>2. PICK n \in {"idle", "gone"} : n = next[c]
      BY <2>1
    <3>3. conn'[c] = [conn[c] EXCEPT !.phase = n, !.released = TRUE]
      BY <3>1, <3>2
    <3>4. QED
      BY <2>1, <3>1, <3>2, <3>3 DEF Leases
  <2>2. CASE c \notin cs
    <3>1. conn'[c] = conn[c] /\ conn[c] \in Leases
      BY <1>1, <1>2, <2>2
    <3>2. conn[c].released \in BOOLEAN
      BY <3>1 DEF Leases
    <3>3. QED
      BY <2>2, <3>1, <3>2
  <2>3. QED
    BY <2>1, <2>2
<1>4. conn' \in [Conns -> Leases]
  <2>1. conn' = [c \in Conns |-> conn'[c]]
    BY <1>2
  <2>2. QED
    BY <1>3, <2>1
<1>5. Held' = rest /\ now \subseteq Held
  BY <1>3 DEF Held
<1>6. Total(conn') = Total(conn) - SumSizes(now) /\ Total(conn) \in Nat /\ SumSizes(now) \in Nat
      /\ Total(conn') \in Nat
  <2>1. PICK w \in [Conns -> Nat] : w = Sizing(conn)
    BY <1>1, SizingType
  <2>2. now \in SUBSET Conns /\ rest \in SUBSET Conns /\ now \cup rest = Held /\ now \cap rest = {}
    BY <1>5 DEF Held
  <2> HIDE DEF now, rest
  <2>3. Weight(w, now \cup rest) = Weight(w, now) + Weight(w, rest) /\ Weight(w, now) \in Nat /\ Weight(w, rest) \in Nat
    BY <1>1, <2>2, SizingType, WeightUnion
  <2>4. Weight(w, now) = SumSizes(now)
    BY <1>1, <2>1, <2>2, SumSizesIs
  <2>5. PICK x : x = Sizing(conn')
    OBVIOUS
  <2>6. \A c \in rest : x[c] = w[c]
    BY <1>1, <1>3, <1>4, <2>1, <2>2, <2>5, SizingType
  <2>7. Weight(x, rest) = Weight(w, rest)
    BY <2>6, WeightAgrees
  <2>8. Total(conn') = Weight(x, rest)
    BY <1>5, <2>5 DEF Total, Held
  <2>9. Total(conn) = Weight(w, now \cup rest)
    BY <2>1, <2>2 DEF Total, Held
  <2>10. QED
    BY <2>3, <2>4, <2>7, <2>8, <2>9
<1>7. inFlightBytes' = Total(conn') /\ inFlightBytes = Total(conn)
  BY <1>2, <1>6 DEF LeasesInv
<1>8. inFlight' \in [Readers -> Nat]
  BY <1>2 DEF LeasesInv
<1>9. \A c \in Conns : conn'[c].released <=> conn'[c].phase \notin {"reading", "writing"}
  <2> SUFFICES ASSUME NEW c \in Conns PROVE conn'[c].released <=> conn'[c].phase \notin {"reading", "writing"}
    OBVIOUS
  <2>1. CASE c \in cs
    BY <1>3, <2>1
  <2>2. CASE c \notin cs
    BY <1>3, <2>2 DEF LeasesInv
  <2>3. QED
    BY <2>1, <2>2
<1>10. /\ \A c \in rest : conn'[c].reader \in Readers /\ conn'[c].size # 0
       /\ \A c, d \in rest : conn'[c].reader = conn'[d].reader => c = d
  BY <1>3 DEF LeasesInv, Held
<1>11. \A c \in rest : inFlight'[conn'[c].reader] = conn'[c].size
  <2> SUFFICES ASSUME NEW c \in rest PROVE inFlight'[conn'[c].reader] = conn'[c].size
    OBVIOUS
  <2>1. conn[c].reader \in Readers /\ inFlight[conn[c].reader] = conn[c].size
    BY DEF LeasesInv
  <2>2. ~ \E d \in now : conn[d].reader = conn[c].reader
    BY <1>5 DEF LeasesInv
  <2>3. inFlight'[conn[c].reader] = inFlight[conn[c].reader]
    BY <1>2, <2>1, <2>2
  <2>4. QED
    BY <1>3, <2>1, <2>3 DEF Held
<1>12. \A r \in Readers : (\A c \in rest : conn'[c].reader # r) => inFlight'[r] = 0
  <2> SUFFICES ASSUME NEW r \in Readers, \A c \in rest : conn'[c].reader # r PROVE inFlight'[r] = 0
    OBVIOUS
  <2>1. CASE \E c \in now : conn[c].reader = r
    BY <1>2, <2>1
  <2>2. CASE ~ \E c \in now : conn[c].reader = r
    <3>1. \A c \in Held : conn[c].reader # r
      BY <1>3, <2>2 DEF Held
    <3>2. inFlight[r] = 0
      BY <3>1 DEF LeasesInv
    <3>3. QED
      BY <1>2, <2>2, <3>2
  <2>3. QED
    BY <2>1, <2>2
<1>13. LeasesInv'
  <2> HIDE DEF now, rest
  <2>1. QED
    BY <1>4, <1>5, <1>7, <1>8, <1>9, <1>10, <1>11, <1>12 DEF LeasesInv
<1>14. QED
  BY <1>3, <1>6, <1>7, <1>13

\* A connection without a lease changes.
LEMMA UnleasedStep ==
  ASSUME LeasesInv, NEW c \in Conns, conn[c].released,
         NEW rec \in Leases, rec.released, rec.phase \notin {"reading", "writing"},
         conn' = [conn EXCEPT ![c] = rec], UNCHANGED <<inFlight, inFlightBytes>>
  PROVE  LeasesInv' /\ \A d \in Conns : conn'[d].released = conn[d].released
<1>1. conn \in [Conns -> Leases] /\ conn' \in [Conns -> Leases]
  BY DEF LeasesInv
<1>2. \A d \in Conns : conn'[d] = IF d = c THEN rec ELSE conn[d]
  BY <1>1
<1>3. \A d \in Conns : /\ conn'[d].released = conn[d].released
                       /\ ~conn[d].released => conn'[d] = conn[d]
  <2> SUFFICES ASSUME NEW d \in Conns
               PROVE  conn'[d].released = conn[d].released /\ (~conn[d].released => conn'[d] = conn[d])
    OBVIOUS
  <2>1. CASE d = c
    <3>1. rec.released = TRUE /\ conn[c].released = TRUE
      BY <1>1 DEF Leases
    <3>2. QED
      BY <1>2, <2>1, <3>1
  <2>2. CASE d # c
    BY <1>2, <2>2
  <2>3. QED
    BY <2>1, <2>2
<1>4. Held' = Held
  BY <1>3 DEF Held
<1>5. Total(conn') = Total(conn)
  BY <1>1, <1>3, TotalAgrees
<1>6. \A d \in Conns : conn'[d].released <=> conn'[d].phase \notin {"reading", "writing"}
  BY <1>2 DEF LeasesInv
<1>7. \A d \in Held : conn'[d] = conn[d]
  BY <1>3 DEF Held
<1>8. LeasesInv'
  BY <1>1, <1>4, <1>5, <1>6, <1>7 DEF LeasesInv
<1>9. QED
  BY <1>3, <1>8

\* The response to a request is written.
LEMMA WritingStep ==
  ASSUME LeasesInv, NEW c \in Conns, conn[c].phase = "reading", conn' = [conn EXCEPT ![c].phase = "writing"],
         UNCHANGED <<inFlight, inFlightBytes>>
  PROVE  LeasesInv' /\ \A d \in Conns : conn'[d].released = conn[d].released
<1>1. conn \in [Conns -> Leases]
  BY DEF LeasesInv
<1>2. \A d \in Conns : /\ conn'[d] \in Leases /\ conn'[d].size = conn[d].size /\ conn'[d].reader = conn[d].reader
                       /\ conn'[d].released = conn[d].released
                       /\ conn'[d].phase = IF d = c THEN "writing" ELSE conn[d].phase
  BY <1>1 DEF Leases
<1>3. conn' \in [Conns -> Leases]
  BY <1>1, <1>2
<1>4. Held' = Held
  BY <1>2 DEF Held
<1>5. Total(conn') = Total(conn)
  BY <1>1, <1>2, <1>3, TotalAgrees
<1>6. \A d \in Conns : conn'[d].released <=> conn'[d].phase \notin {"reading", "writing"}
  BY <1>2 DEF LeasesInv
<1>7. \A d \in Held : conn'[d].size = conn[d].size /\ conn'[d].reader = conn[d].reader
  BY <1>2 DEF Held
<1>8. LeasesInv'
  BY <1>3, <1>4, <1>5, <1>6, <1>7 DEF LeasesInv
<1>9. QED
  BY <1>2, <1>8

\* A snapshot is lent to a reader that has none.
LEMMA AcquiredStep ==
  ASSUME LeasesInv, NEW c \in Conns, NEW r \in Readers, NEW n \in Nat, n # 0, conn[c].phase = "idle", inFlight[r] = 0,
         inFlight' = [inFlight EXCEPT ![r] = n], inFlightBytes' = inFlightBytes + n,
         conn' = [conn EXCEPT ![c] = [phase |-> "reading", reader |-> r, size |-> n, released |-> FALSE]]
  PROVE  LeasesInv'
<1>1. conn \in [Conns -> Leases] /\ conn[c].released /\ c \notin Held /\ \A d \in Held : conn[d].reader # r
  BY DEF LeasesInv, Held
<1>2. PICK rec \in Leases : rec = [phase |-> "reading", reader |-> r, size |-> n, released |-> FALSE]
  BY DEF Leases
<1>3. rec.phase = "reading" /\ rec.reader = r /\ rec.size = n /\ ~rec.released
  BY <1>2
<1>4. conn' \in [Conns -> Leases] /\ \A d \in Conns : conn'[d] = IF d = c THEN rec ELSE conn[d]
  BY <1>1, <1>2
<1>5. Held' = Held \cup {c} /\ (\A d \in Held : d # c /\ conn'[d] = conn[d]) /\ conn'[c] = rec
  BY <1>1, <1>3, <1>4 DEF Held
<1>6. Total(conn') = Total(conn) + n
  <2>1. PICK x \in [Conns -> Nat] : x = Sizing(conn')
    BY <1>4, SizingType
  <2>2. x[c] = n /\ \A d \in Held : x[d] = Sizing(conn)[d]
    <3>1. \A d \in Conns : x[d] = conn'[d].size
      BY <1>4, <2>1, SizingType
    <3>2. \A d \in Conns : Sizing(conn)[d] = conn[d].size
      BY <1>1, SizingType
    <3>3. QED
      BY <1>3, <1>5, <3>1, <3>2 DEF Held
  <2>3. Weight(x, Held') = x[c] + Weight(x, Held' \ {c})
    <3>1. Held' \in SUBSET Conns /\ c \in Held' /\ IsFiniteSet(Conns)
      BY <1>5, AdapterAssumption DEF Held
    <3>2. QED
      BY <3>1, WeightStep
  <2>4. Held' \ {c} = Held
    BY <1>1, <1>5
  <2>5. Weight(x, Held) = Weight(Sizing(conn), Held)
    BY <2>2, WeightAgrees
  <2>6. Total(conn') = Weight(x, Held') /\ Total(conn) = Weight(Sizing(conn), Held)
    BY <2>1 DEF Total, Held
  <2>7. Total(conn) \in Nat
    BY <1>1, SizingType
  <2>8. Weight(x, Held') = n + Weight(x, Held)
    <3>1. x[c] = n
      BY <2>2
    <3>2. QED
      BY <2>3, <2>4, <3>1
  <2>9. Total(conn') = n + Total(conn)
    BY <2>5, <2>6, <2>8
  <2>10. QED
    BY <2>7, <2>9
<1>7. inFlight' \in [Readers -> Nat] /\ \A q \in Readers : inFlight'[q] = IF q = r THEN n ELSE inFlight[q]
  BY DEF LeasesInv
<1>8. \A d \in Conns : conn'[d].released <=> conn'[d].phase \notin {"reading", "writing"}
  BY <1>3, <1>4 DEF LeasesInv
<1>9. \A d \in Held' : conn'[d].reader \in Readers /\ conn'[d].size # 0 /\ inFlight'[conn'[d].reader] = conn'[d].size
  BY <1>1, <1>3, <1>5, <1>7 DEF LeasesInv
<1>10. \A d, e \in Held' : conn'[d].reader = conn'[e].reader => d = e
  BY <1>1, <1>3, <1>5 DEF LeasesInv
<1>11. \A q \in Readers : (\A d \in Held' : conn'[d].reader # q) => inFlight'[q] = 0
  BY <1>1, <1>3, <1>5, <1>7 DEF LeasesInv
<1>12. QED
  BY <1>4, <1>6, <1>7, <1>8, <1>9, <1>10, <1>11 DEF LeasesInv

-----------------------------------------------------------------------------
\* A worker in use, and the phase of the caller that uses it.
Fitting(s, v, ph) ==
  /\ Sound(v) /\ Running(v) /\ ph \in Phases(s) /\ ph # "idle"
  /\ v.hello = "wait" => ph = "hello"
  /\ v.live => ph \in {"reply", "next"} /\ v.pending = IF ph = "reply" THEN s ELSE "next"

LEMMA InUse ==
  ASSUME CallersInv, NEW s \in Callers, Running(worker[s])
  PROVE  /\ Sound(worker[s]) /\ s \in active /\ phase[s] # "idle" /\ phase[s] \in Phases(s)
         /\ \A o \in Callers : o # s => o \notin active /\ phase[o] = "idle"
         /\ Fitting(s, worker[s], phase[s])
<1>1. Sound(worker[s]) /\ s \in active /\ phase[s] # "idle" /\ phase[s] \in Phases(s)
  BY DEF CallersInv, Tracked, Running
<1>2. \A o \in Callers : o # s => o \notin active
  BY <1>1 DEF CallersInv, Callers
<1>3. \A o \in Callers : o # s => phase[o] = "idle"
  BY <1>2 DEF CallersInv, Tracked
<1>4. QED
  BY <1>1, <1>2, <1>3 DEF CallersInv, Tracked, Fitting

LEMMA CallersStep ==
  ASSUME CallersInv, NEW s \in Callers, Running(worker[s]), NEW v, NEW ph, Fitting(s, v, ph),
         worker' = [worker EXCEPT ![s] = v], phase' = [phase EXCEPT ![s] = ph], active' = active
  PROVE  CallersInv'
<1>1. Sound(worker[s]) /\ s \in active
  BY InUse
<1>2. worker' \in [Callers -> Workers] /\ worker'[s] = v /\ \A o \in Callers : o # s => worker'[o] = worker[o]
  BY DEF CallersInv, Fitting, Sound
<1>3. phase' \in [Callers -> UNION {Phases(o) : o \in Callers}]
      /\ phase'[s] = ph /\ \A o \in Callers : o # s => phase'[o] = phase[o]
  BY DEF CallersInv, Fitting
<1>4. Tracked(s)'
  BY <1>1, <1>2, <1>3 DEF Fitting, Running, Tracked
<1>5. ASSUME NEW o \in Callers, o # s PROVE Tracked(o)'
  <2>1. worker'[o] = worker[o] /\ phase'[o] = phase[o] /\ Tracked(o)
    BY <1>2, <1>3, <1>5 DEF CallersInv
  <2>2. QED
    BY <2>1 DEF Tracked
<1>6. \A o \in Callers : Tracked(o)'
  BY <1>4, <1>5
<1>7. QED
  BY <1>2, <1>3, <1>6 DEF CallersInv

\* The cache after a step of a caller.
CacheKept(s, ph) ==
  \/ cache' = NoFrame
  \/ cache' = cache /\ (s = "open" => cache = NoFrame \/ ph = "next")
  \/ /\ s = "open" /\ ph = "next"
     /\ \E z \in Sizes : z + inFlightBytes <= MaxQueuedBytes /\ cache' = [size |-> z, mode |-> mode, fresh |-> TRUE]

LEMMA BytesNat ==
  ASSUME LeasesInv
  PROVE  inFlightBytes \in Nat
  BY SizingType DEF LeasesInv

LEMMA SizesNat == Sizes \subseteq Nat \ {0} /\ MaxQueuedBytes \in Nat
  BY CaptureAssumption, AdapterAssumption

\* A step of a caller whose worker runs: its worker, its phase, and what it
\* leaves of the session.
LEMMA WorkerStep ==
  ASSUME AdapterInv, NEW s \in Callers, Running(worker[s]), NEW v, NEW ph, Fitting(s, v, ph),
         worker' = [worker EXCEPT ![s] = v], phase' = [phase EXCEPT ![s] = ph],
         UNCHANGED <<active, config, evidence, outcome, mode, leases, server>>,
         s = "describe" => UNCHANGED <<fault, closeReason, main>>,
         main' = main \/ main' \in {"opening", "serving", "stopping"},
         aborted' = aborted \/ aborted',
         CacheKept(s, ph)
  PROVE  AdapterInv'
<1>1. CallersInv'
  BY CallersStep DEF AdapterInv
<1>2. s \in active /\ phase[s] # "idle" /\ worker[s].child # None
  BY InUse DEF AdapterInv, Running
<1>3. phase'["open"] = (IF s = "open" THEN ph ELSE phase["open"])
      /\ (s # "open" => worker'["open"] = worker["open"])
  BY DEF AdapterInv, CallersInv, Callers
<1>4. Granted'
  BY DEF AdapterInv, Granted
<1>5. RunInv'
  <2>1. CASE s = "open"
    <3>1. main \notin {"init", "starting", "stopped"} /\ outcome # "closed"
      BY <1>2, <2>1 DEF AdapterInv, RunInv
    <3>2. main' \notin {"init", "starting", "stopped"} /\ outcome' # "closed"
      BY <3>1
    <3>3. QED
      BY <3>2 DEF RunInv
  <2>2. CASE s = "describe"
    <3>1. /\ worker'["open"] = worker["open"] /\ phase'["open"] = phase["open"] /\ main' = main
          /\ fault' = fault /\ closeReason' = closeReason /\ server' = server /\ conn' = conn /\ outcome' = outcome
          /\ aborted => aborted'
      BY <1>3, <2>2 DEF leases
    <3>2. QED
      BY <3>1 DEF AdapterInv, RunInv
  <2>3. QED
    BY <2>1, <2>2 DEF Callers
<1>6. LeasesInv'
  BY DEF AdapterInv, LeasesInv, leases, Held
<1>7. CacheInv'
  <2>1. inFlightBytes' = inFlightBytes /\ mode' = mode /\ inFlightBytes \in Nat /\ Sizes \subseteq Nat \ {0} /\ MaxQueuedBytes \in Nat
    BY BytesNat, SizesNat DEF AdapterInv, leases
  <2>2. /\ mode \in {"session", "other"}
        /\ cache \in [size : Nat, mode : {None, "session", "other"}, fresh : BOOLEAN]
        /\ cache # NoFrame => cache.size \in Sizes /\ cache.mode = mode /\ phase["open"] = "next"
        /\ cache.size + inFlightBytes <= MaxQueuedBytes
    BY DEF AdapterInv, CacheInv
  <2>3. CASE cache' = NoFrame
    BY <2>1, <2>2, <2>3 DEF CacheInv, NoFrame
  <2>4. CASE cache' = cache /\ (s = "open" => cache = NoFrame \/ ph = "next")
    BY <1>3, <2>1, <2>2, <2>4 DEF CacheInv
  <2>5. CASE /\ s = "open" /\ ph = "next"
             /\ \E z \in Sizes : z + inFlightBytes <= MaxQueuedBytes /\ cache' = [size |-> z, mode |-> mode, fresh |-> TRUE]
    <3>1. PICK z \in Sizes : z + inFlightBytes <= MaxQueuedBytes /\ cache' = [size |-> z, mode |-> mode, fresh |-> TRUE]
      BY <2>5
    <3>2. cache' \in [size : Nat, mode : {None, "session", "other"}, fresh : BOOLEAN] /\ cache'.size = z /\ cache'.mode = mode
      BY <2>1, <2>2, <3>1
    <3>3. QED
      BY <1>3, <2>1, <2>2, <2>5, <3>1, <3>2 DEF CacheInv
  <2>6. QED
    BY <2>3, <2>4, <2>5 DEF CacheKept
<1>8. QED
  BY <1>1, <1>4, <1>5, <1>6, <1>7 DEF AdapterInv

LEMMA RejectedStep ==
  ASSUME AdapterInv, NEW s \in Callers, Running(worker[s]), NEW w, Sound(w), Running(w), ~w.live, w.hello # "wait",
         NEW code, Rejected(s, w, code), UNCHANGED <<mode, leases, server, aborted>>
  PROVE  AdapterInv'
<1>1. PICK u : u = Shutdown(w)
  OBVIOUS
<1>2. Sound(u) /\ Running(u) /\ ~u.live /\ u.hello = w.hello
  BY <1>1, ShutdownSound
<1>3. PICK v : v = IF phase[s] \in {"hello", "reply", "next"} THEN u ELSE w
  OBVIOUS
<1>4. Sound(v) /\ Running(v) /\ ~v.live /\ v.hello # "wait"
  BY <1>2, <1>3
<1>5. PICK ph : ph = CASE phase[s] = "next" -> "draining"
                       [] phase[s] \in {"hello", "reply"} -> "failing"
                       [] OTHER -> phase[s]
  OBVIOUS
<1>6. phase[s] \in Phases(s) /\ phase[s] # "idle"
  BY InUse DEF AdapterInv
<1>7. ph \in Phases(s) /\ ph # "idle" /\ (s = "describe" => phase[s] # "next") /\ ph # "next"
  BY <1>5, <1>6 DEF Phases, Callers
<1>8. Fitting(s, v, ph)
  BY <1>4, <1>7 DEF Fitting
<1>9. worker' = [worker EXCEPT ![s] = v] /\ phase' = [phase EXCEPT ![s] = ph]
  BY <1>1, <1>3, <1>5 DEF Rejected, Set, Await
<1>10. CacheKept(s, ph)
  <2>1. CASE phase[s] = "next"
    BY <2>1 DEF Rejected, CacheKept
  <2>2. CASE phase[s] # "next"
    <3>1. cache' = cache
      BY <2>2 DEF Rejected
    <3>2. s = "open" => cache = NoFrame
      BY <2>2 DEF AdapterInv, CacheInv
    <3>3. QED
      BY <3>1, <3>2 DEF CacheKept
  <2>3. QED
    BY <2>1, <2>2
<1>11. UNCHANGED <<active, config, evidence, outcome, mode, leases, server>> /\ main' = main
  BY DEF Rejected
<1>12. s = "describe" => UNCHANGED <<fault, closeReason, main>>
  BY <1>7 DEF Rejected
<1>13. QED
  BY <1>8, <1>9, <1>10, <1>11, <1>12, WorkerStep

\* A step that only changes the worker.
LEMMA QuietStep ==
  ASSUME AdapterInv, NEW s \in Callers, Running(worker[s]), NEW v, Fitting(s, v, phase[s]),
         Set(s, v), UNCHANGED <<backend, pumpVars, mode, cache, leases, server, main, aborted>>
  PROVE  AdapterInv'
<1>1. phase' = [phase EXCEPT ![s] = phase[s]]
  <2>1. phase = [phase EXCEPT ![s] = phase[s]]
    BY DEF AdapterInv, CallersInv
  <2>2. QED
    BY <2>1 DEF backend
<1>2. CacheKept(s, phase[s])
  <2>1. cache' = cache
    OBVIOUS
  <2>2. s = "open" => cache = NoFrame \/ phase[s] = "next"
    BY DEF AdapterInv, CacheInv
  <2>3. QED
    BY <2>1, <2>2 DEF CacheKept
<1>3. worker' = [worker EXCEPT ![s] = v]
  BY DEF Set
<1>4. UNCHANGED <<active, config, evidence, outcome, mode, leases, server, fault, closeReason, main, aborted>>
  BY DEF backend, pumpVars
<1>5. PICK ph : ph = phase[s]
  OBVIOUS
<1>6. QED
  BY <1>1, <1>2, <1>3, <1>4, <1>5, WorkerStep

LEMMA KeptFits ==
  ASSUME CallersInv, NEW s \in Callers, Running(worker[s]), NEW v, Kept(worker[s], v)
  PROVE  Fitting(s, v, phase[s])
  BY InUse DEF Kept, Fitting

LEMMA ProcessStep ==
  ASSUME AdapterInv, NEW s \in Callers, Process(s) \/ Killed(s)
  PROVE  AdapterInv'
<1>1. SUFFICES \E v : Running(worker[s]) /\ Kept(worker[s], v) /\ Set(s, v)
  <2>1. UNCHANGED <<backend, pumpVars, mode, cache, leases, server, main, aborted>>
    BY DEF Process, Killed
  <2>2. SUFFICES ASSUME NEW v, Running(worker[s]), Kept(worker[s], v), Set(s, v) PROVE AdapterInv'
    BY <1>1
  <2>3. Fitting(s, v, phase[s])
    BY <2>2, KeptFits DEF AdapterInv
  <2>4. QED
    BY <2>1, <2>2, <2>3, QuietStep
<1>2. PICK w : w = worker[s]
  OBVIOUS
<1>3. Sound(w) /\ w \in Workers /\ worker \in [Callers -> Workers]
  BY <1>2 DEF AdapterInv, CallersInv, Tracked, Sound
<1>4. \A v : worker' = [worker EXCEPT ![s] = v] => Set(s, v)
  BY DEF Set
<1>5. (w.child = "idle" => Running(w)) /\ (w.child = "starting" => Running(w)) /\ (Alive(w) => Running(w))
  BY <1>3 DEF Sound, Receipted, Running, Alive, None
<1>6. CASE ProcessHello(s)
  <2>1. PICK v : v = [w EXCEPT !.child = "idle", !.out = Append(@, Packet("hello"))]
    OBVIOUS
  <2>2. w.child = "starting" /\ worker' = [worker EXCEPT ![s] = v]
    BY <1>2, <1>3, <1>6, <2>1 DEF ProcessHello
  <2>3. Kept(w, v)
    BY <1>3, <2>1, <2>2, StartedSound
  <2>4. QED
    BY <1>2, <1>4, <1>5, <2>2, <2>3
<1>7. ASSUME NEW op \in Ops, Reads(s, op), NEW q, Fits(w, q), worker' = [worker EXCEPT ![s] = Answered(w, q)]
      PROVE  \E v : Running(worker[s]) /\ Kept(worker[s], v) /\ Set(s, v)
  <2>1. PICK v : v = Answered(w, q)
    OBVIOUS
  <2>2. w.child = "idle" /\ w.in # << >> /\ Head(w.in) \in Ops
    BY <1>2, <1>7 DEF Reads
  <2>3. Kept(w, v)
    BY <1>3, <1>7, <2>1, <2>2, AnsweredSound
  <2>4. QED
    BY <1>2, <1>4, <1>5, <1>7, <2>1, <2>2, <2>3
<1>8. ASSUME w.child = "idle", NEW r \in Receipts, NEW code \in Int, NEW ps,
             \/ ps = << >>
             \/ /\ w.in # << >> /\ Head(w.in) \in Ops
                /\ \E q : ps = <<q>> /\ Fits(w, q),
             worker' = [worker EXCEPT ![s] = Ended(w, ps, r, code)]
      PROVE  \E v : Running(worker[s]) /\ Kept(worker[s], v) /\ Set(s, v)
  <2>1. PICK v : v = Ended(w, ps, r, code)
    OBVIOUS
  <2>2. Kept(w, v)
    BY <1>3, <1>8, <2>1, EndedSound
  <2>3. QED
    BY <1>2, <1>4, <1>5, <1>8, <2>1, <2>2
<1>9. Reported \subseteq Receipts /\ Faults \subseteq Receipts /\ \A r \in Receipts : ExitCode(r) \in Int
  BY DEF Reported, Faults, Receipts, ExitCode
<1>10. ASSUME NEW op \in Ops, Reads(s, op)
       PROVE  /\ w.child = "idle" /\ w.in # << >> /\ Head(w.in) = op /\ w.pending = op
              /\ Fits(w, Packet("fault"))
  <2>1. w.child = "idle" /\ w.in # << >> /\ Head(w.in) = op
    BY <1>2, <1>10 DEF Reads
  <2>2. w.pending = op
    BY <1>3, <2>1, ReadingSound
  <2>3. Packet("fault") \in Packets /\ Packet("fault").kind = "fault"
    BY DEF Packet, Packets
  <2>4. QED
    BY <2>1, <2>2, <2>3 DEF Fits
<1>11. ASSUME NEW op \in Ops, Reads(s, op), NEW r \in Faults, worker' = [worker EXCEPT ![s] = Faulted(w, r)]
       PROVE  \E v : Running(worker[s]) /\ Kept(worker[s], v) /\ Set(s, v)
  <2>1. worker' = [worker EXCEPT ![s] = Ended(w, <<Packet("fault")>>, r, 1)]
    BY <1>11 DEF Faulted
  <2>2. w.in # << >> /\ Head(w.in) \in Ops /\ w.child = "idle" /\ Fits(w, Packet("fault"))
    BY <1>10, <1>11
  <2>3. r \in Receipts /\ 1 \in Int
    BY <1>9
  <2>4. PICK ps : ps = <<Packet("fault")>>
    OBVIOUS
  <2>5. \E q : ps = <<q>> /\ Fits(w, q)
    BY <2>2, <2>4
  <2>6. QED
    BY <1>8, <2>1, <2>2, <2>3, <2>4, <2>5
<1>12. CASE ProcessDescribe(s)
  <2>1. Reads(s, "describe") /\ "describe" \in Ops
    BY <1>12 DEF ProcessDescribe, Ops
  <2>2. PICK q : q = Packet("evidence")
    OBVIOUS
  <2>3. Fits(w, q)
    <3>1. w.pending = "describe"
      BY <1>10, <2>1
    <3>2. Packet("evidence") \in Packets /\ Packet("evidence").kind = "evidence"
      BY DEF Packet, Packets, Answers
    <3>3. QED
      BY <2>2, <3>1, <3>2 DEF Fits, Kinds
  <2>4. CASE worker' = [worker EXCEPT ![s] = Answered(@, Packet("evidence"))]
    <3>1. worker' = [worker EXCEPT ![s] = Answered(w, q)]
      BY <1>2, <1>3, <2>2, <2>4
    <3>2. QED
      BY <1>7, <2>1, <2>3, <3>1
  <2>5. CASE \E r \in Reported \ {"clean"} : worker' = [worker EXCEPT ![s] = Ended(@, <<Packet("evidence")>>, r, 1)]
    <3>1. PICK r \in Receipts : worker' = [worker EXCEPT ![s] = Ended(@, <<Packet("evidence")>>, r, 1)]
      BY <1>9, <2>5
    <3>2. PICK ps : ps = <<q>>
      OBVIOUS
    <3>3. worker' = [worker EXCEPT ![s] = Ended(w, ps, r, 1)]
      BY <1>2, <1>3, <2>2, <3>1, <3>2
    <3>4. w.in # << >> /\ Head(w.in) \in Ops /\ w.child = "idle" /\ 1 \in Int /\ \E x : ps = <<x>> /\ Fits(w, x)
      BY <1>10, <2>1, <2>3, <3>2
    <3>5. QED
      BY <1>8, <3>3, <3>4
  <2>6. CASE \E r \in Faults : worker' = [worker EXCEPT ![s] = Faulted(@, r)]
    <3>1. PICK r \in Faults : worker' = [worker EXCEPT ![s] = Faulted(w, r)]
      BY <1>2, <1>3, <2>6
    <3>2. QED
      BY <1>11, <2>1, <3>1
  <2>7. QED
    BY <1>12, <2>4, <2>5, <2>6 DEF ProcessDescribe
<1>13. CASE ProcessOpen(s)
  <2>1. Reads(s, "open") /\ "open" \in Ops
    BY <1>13 DEF ProcessOpen, Ops
  <2>2. PICK q : q = Packet("opened")
    OBVIOUS
  <2>3. Fits(w, q)
    <3>1. w.pending = "open"
      BY <1>10, <2>1
    <3>2. Packet("opened") \in Packets /\ Packet("opened").kind = "opened"
      BY DEF Packet, Packets, Answers
    <3>3. QED
      BY <2>2, <3>1, <3>2 DEF Fits, Kinds
  <2>4. CASE worker' = [worker EXCEPT ![s] = Answered(@, Packet("opened"))]
    <3>1. worker' = [worker EXCEPT ![s] = Answered(w, q)]
      BY <1>2, <1>3, <2>2, <2>4
    <3>2. QED
      BY <1>7, <2>1, <2>3, <3>1
  <2>6. CASE \E r \in Faults : worker' = [worker EXCEPT ![s] = Faulted(@, r)]
    <3>1. PICK r \in Faults : worker' = [worker EXCEPT ![s] = Faulted(w, r)]
      BY <1>2, <1>3, <2>6
    <3>2. QED
      BY <1>11, <2>1, <3>1
  <2>7. QED
    BY <1>13, <2>4, <2>6 DEF ProcessOpen
<1>14. CASE ProcessNext(s)
  <2>1. Reads(s, "next") /\ "next" \in Ops
    BY <1>14 DEF ProcessNext, Ops
  <2>2. w.pending = "next" /\ w.child = "idle" /\ w.in # << >> /\ Head(w.in) \in Ops
    BY <1>10, <2>1
  <2> DEFINE ps == {FramePacket(worker[s].sent + 1, z, j) : z \in Payloads, j \in Jpegs} \cup Gaps
  <2>3. CASE \E p \in ps : worker' = [worker EXCEPT ![s] = Supplied(@, p)]
    <3>0. PICK p \in ps : worker' = [worker EXCEPT ![s] = Supplied(@, p)]
      <4> HIDE DEF ps
      <4>1. QED
        BY <2>3
    <3>1. p \in {FramePacket(w.sent + 1, z, j) : z \in Payloads, j \in Jpegs} \cup Gaps
      BY <1>2, <3>0
    <3>2. Fits(w, p)
      <4>1. CASE p \in Gaps
        <5>1. p = Packet("gap")
          BY <4>1 DEF Gaps
        <5>2. Packet("gap") \in Packets /\ Packet("gap").kind = "gap"
          BY DEF Packet, Packets, Answers
        <5>3. QED
          BY <2>2, <5>1, <5>2 DEF Fits, Kinds
      <4>2. CASE \E z \in Payloads, j \in Jpegs : p = FramePacket(w.sent + 1, z, j)
        <5>1. PICK z \in Payloads, j \in Jpegs : p = FramePacket(w.sent + 1, z, j)
          BY <4>2
        <5>2. Payloads \subseteq Sizes /\ Sizes \subseteq Nat /\ Jpegs \subseteq {"mode", "other"}
          BY CaptureAssumption DEF Payloads, Jpegs
        <5>3. w.sent + 1 \in Nat
          BY <1>3 DEF Workers
        <5>4. p.kind = "frame" /\ p.size = z /\ p \in Packets
          BY <5>1, <5>2, <5>3 DEF FramePacket, Packets, Answers
        <5>5. QED
          BY <2>2, <5>2, <5>4 DEF Fits, Kinds
      <4>3. QED
        BY <3>1, <4>1, <4>2
    <3>3. PICK x : x = Answered(w, p)
      OBVIOUS
    <3>4. Kept(w, x)
      BY <1>3, <2>2, <3>2, <3>3, AnsweredSound
    <3>5. PICK v : v = Supplied(w, p)
      OBVIOUS
    <3>6. Kept(w, v)
      BY <1>3, <3>3, <3>4, <3>5, CountedSound
    <3>7. worker' = [worker EXCEPT ![s] = v]
      BY <1>2, <1>3, <3>0, <3>5
    <3>8. Running(worker[s]) /\ Kept(worker[s], v) /\ Set(s, v)
      <4> HIDE DEF ps
      <4>1. Running(worker[s])
        BY <1>2, <1>5, <2>2
      <4>2. Kept(worker[s], v)
        BY <1>2, <3>6
      <4>3. Set(s, v)
        BY <3>7 DEF Set
      <4>4. QED
        BY <4>1, <4>2, <4>3
    <3>9. QED
      BY <3>8
  <2>4. CASE \E r \in Reported : worker' = [worker EXCEPT ![s] = Ended(@, <<Packet("end")>>, r, ExitCode(r))]
    <3>1. PICK r \in Receipts : worker' = [worker EXCEPT ![s] = Ended(@, <<Packet("end")>>, r, ExitCode(r))]
      BY <1>9, <2>4
    <3>2. PICK pk : pk = <<Packet("end")>>
      OBVIOUS
    <3>3. PICK code \in Int : code = ExitCode(r)
      BY <1>9
    <3>4. worker' = [worker EXCEPT ![s] = Ended(w, pk, r, code)]
      BY <1>2, <1>3, <3>1, <3>2, <3>3
    <3>5. Fits(w, Packet("end"))
      <4>1. Packet("end") \in Packets /\ Packet("end").kind = "end"
        BY DEF Packet, Packets, Answers
      <4>2. QED
        BY <2>2, <4>1 DEF Fits, Kinds
    <3>6. QED
      BY <1>8, <2>2, <3>2, <3>4, <3>5
  <2>5. CASE \E r \in Faults : worker' = [worker EXCEPT ![s] = Faulted(@, r)]
    <3>1. PICK r \in Faults : worker' = [worker EXCEPT ![s] = Faulted(w, r)]
      BY <1>2, <1>3, <2>5
    <3>2. QED
      BY <1>11, <2>1, <3>1
  <2>6. QED
    BY <1>14, <2>3, <2>4, <2>5 DEF ProcessNext
<1>15. CASE ProcessClose(s)
  <2>1. PICK r \in Receipts : worker' = [worker EXCEPT ![s] = Ended(@, <<>>, r, ExitCode(r))]
    BY <1>9, <1>15 DEF ProcessClose
  <2>2. PICK code \in Int : code = ExitCode(r)
    BY <1>9
  <2>3. PICK ps : ps = << >>
    OBVIOUS
  <2>4. worker' = [worker EXCEPT ![s] = Ended(w, ps, r, code)] /\ w.child = "idle"
    BY <1>2, <1>3, <1>15, <2>1, <2>2, <2>3 DEF ProcessClose
  <2>5. QED
    BY <1>8, <2>3, <2>4
<1>16. CASE ProcessDies(s)
  <2>1. PICK cut \in BOOLEAN : worker' = [worker EXCEPT ![s].child = "exited", ![s].code = 2, ![s].torn = cut]
    BY <1>16 DEF ProcessDies
  <2>2. PICK v : v = [w EXCEPT !.child = "exited", !.code = 2, !.torn = cut]
    OBVIOUS
  <2>3. worker' = [worker EXCEPT ![s] = v]
    BY <1>2, <1>3, <2>1, <2>2 DEF Workers
  <2>4. Alive(w)
    BY <1>2, <1>16 DEF ProcessDies, Alive
  <2>5. Kept(w, v)
    BY <1>3, <2>2, <2>4, DiedSound
  <2>6. QED
    BY <1>2, <1>4, <1>5, <2>3, <2>4, <2>5
<1>17. QED
  BY <1>6, <1>12, <1>13, <1>14, <1>15, <1>16 DEF Process, Killed

LEMMA ReceiveHelloStep ==
  ASSUME AdapterInv, NEW s \in Callers, ReceiveHello(s)
  PROVE  AdapterInv'
<1>1. worker[s].out # << >> /\ ~worker[s].killed /\ Head(worker[s].out).kind = "hello"
  BY DEF ReceiveHello, Delivers
<1>2. Sound(worker[s]) /\ Running(worker[s])
  BY <1>1 DEF AdapterInv, CallersInv, Tracked, Sound, Receipted, Running
<1>3. PICK w : w = Receive([worker[s] EXCEPT !.out = Tail(@)], Packet("hello"))
  OBVIOUS
<1>4. Sound(w) /\ Running(w) /\ w.hello = "ok" /\ w.pending = None /\ ~w.live /\ worker[s].hello = "wait"
      /\ w.closing = worker[s].closing
  BY <1>1, <1>2, <1>3, HelloSound
<1>5. phase[s] = "hello" /\ s \in Ops
  BY <1>2, <1>4, InUse DEF AdapterInv, Fitting, Ops, Callers
<1>6. UNCHANGED <<mode, leases, server, aborted>>
  BY DEF ReceiveHello
<1>7. CASE /\ ~Busy(w) /\ Set(s, Enqueue(w, s, FALSE)) /\ Await(s, "reply")
           /\ UNCHANGED <<active, evidence, config, pumpVars, cache, main>>
  <2>1. PICK v : v = Enqueue(w, s, FALSE)
    OBVIOUS
  <2>2. Sound(v) /\ Running(v) /\ v.hello = "ok" /\ v.pending = s
    <3>1. PICK op \in Ops : op = s
      BY <1>5
    <3>2. ~w.closing
      BY <1>7 DEF Busy
    <3>3. v = Enqueue(w, op, FALSE)
      BY <2>1, <3>1
    <3>4. Sound(v) /\ Running(v) /\ v.hello = "ok" /\ v.pending = op
      <4>1. Sound(w) /\ Running(w) /\ w.hello = "ok" /\ w.pending = None
        BY <1>4
      <4>2. QED
        BY <3>2, <3>3, <4>1, EnqueueSound
    <3>5. QED
      BY <3>1, <3>4
  <2>3. Fitting(s, v, "reply")
    BY <2>2 DEF Fitting, Phases
  <2>4. worker' = [worker EXCEPT ![s] = v] /\ phase' = [phase EXCEPT ![s] = "reply"]
    BY <1>7, <2>1 DEF Set, Await
  <2>5. CacheKept(s, "reply")
    <3>1. s = "open" => cache = NoFrame
      BY <1>5 DEF AdapterInv, CacheInv
    <3>2. QED
      BY <1>7, <3>1 DEF CacheKept
  <2>6. UNCHANGED <<active, config, evidence, outcome, mode, leases, server, fault, closeReason, main, aborted>>
    BY <1>6, <1>7 DEF pumpVars
  <2>7. PICK ph : ph = "reply"
    OBVIOUS
  <2>8. QED
    BY <1>2, <2>3, <2>4, <2>5, <2>6, <2>7, WorkerStep
<1>8. CASE s = "open" /\ aborted /\ Rejected(s, Enqueue(w, s, TRUE), "cancelled")
  <2>1. PICK v : v = Enqueue(w, s, TRUE)
    OBVIOUS
  <2>2. Sound(v) /\ Running(v) /\ v.hello = "ok" /\ ~v.live
    BY <1>4, <1>5, <2>1, CancelSound
  <2>3. Rejected(s, v, "cancelled")
    BY <1>8, <2>1
  <2>4. QED
    BY <1>2, <1>6, <2>2, <2>3, RejectedStep
<1>9. CASE Rejected(s, Fail(w), "fault")
  <2>1. PICK v : v = Fail(w)
    OBVIOUS
  <2>2. Sound(v) /\ Running(v) /\ ~v.live /\ v.hello # "wait"
    BY <1>4, <2>1, FailSound
  <2>3. Rejected(s, v, "fault")
    BY <1>9, <2>1
  <2>4. QED
    BY <1>2, <1>6, <2>2, <2>3, RejectedStep
<1>10. QED
  <2>1. \/ /\ ~Busy(w) /\ Set(s, Enqueue(w, s, FALSE)) /\ Await(s, "reply")
           /\ UNCHANGED <<active, evidence, config, pumpVars, cache, main>>
        \/ s = "open" /\ aborted /\ Rejected(s, Enqueue(w, s, TRUE), "cancelled")
        \/ Rejected(s, Fail(w), "fault")
    BY <1>3 DEF ReceiveHello
  <2>2. QED
    BY <1>7, <1>8, <1>9, <2>1

\* The caller asks for the next answer.
LEMMA NextAsked ==
  ASSUME NEW w, Sound(w), Running(w), w.hello = "ok", w.pending = None, ~w.closing,
         NEW v, v = Enqueue(w, "next", FALSE)
  PROVE  Fitting("open", v, "next")
<1>1. PICK op \in Ops : op = "next"
  BY DEF Ops
<1>2. v = Enqueue(w, op, FALSE)
  BY <1>1
<1>3. Sound(v) /\ Running(v) /\ v.hello = "ok" /\ v.pending = op
  BY <1>2, EnqueueSound
<1>4. QED
  BY <1>1, <1>3 DEF Fitting, Phases

\* An answer resumes the caller that waits for it.
Resumes(s, w, p) ==
  CASE p.kind = "fault"    -> Rejected(s, w, "fault")
    [] p.kind = "evidence" ->
         /\ Set(s, Shutdown(w)) /\ Await(s, "closing")
         /\ UNCHANGED <<active, evidence, config, pumpVars, cache, main>>
    [] p.kind = "opened"   -> Opened(w)
    [] OTHER               -> Pumped(w, p)
LEMMA AnswerStep ==
  ASSUME AdapterInv, NEW s \in Callers, Running(worker[s]), worker[s].live, NEW p, p.kind \notin Receipts,
         NEW w, Handled(worker[s], p, w), UNCHANGED <<mode, leases, server, aborted>>,
         Resumes(s, w, p)
  PROVE  AdapterInv'
<1>1. /\ Sound(w) /\ Running(w) /\ ~w.live /\ w.hello = "ok" /\ w.pending = None /\ ~w.closing
      /\ p.kind = "fault" \/ p.kind \in Kinds(worker[s].pending)
      /\ p.kind = "frame" => p.size \in Sizes
  BY DEF Handled, Settles
<1>2. phase[s] \in {"reply", "next"} /\ phase[s] \in Phases(s)
      /\ worker[s].pending = IF phase[s] = "reply" THEN s ELSE "next"
  BY InUse DEF AdapterInv, Fitting
<1>3. \/ p.kind = "fault"
      \/ p.kind = "evidence" /\ s = "describe" /\ phase[s] = "reply"
      \/ p.kind = "opened" /\ s = "open" /\ phase[s] = "reply"
      \/ p.kind \in {"frame", "gap", "end"} /\ s = "open" /\ phase[s] = "next"
  BY <1>1, <1>2 DEF Kinds, Callers, Phases
<1>4. CASE p.kind = "fault"
  <2>1. Rejected(s, w, "fault")
    BY <1>4 DEF Resumes
  <2>2. QED
    BY <1>1, <2>1, RejectedStep
<1>5. CASE p.kind = "evidence" /\ s = "describe" /\ phase[s] = "reply"
  <2>0. Set(s, Shutdown(w)) /\ Await(s, "closing") /\ UNCHANGED <<active, evidence, config, pumpVars, cache, main>>
    BY <1>5 DEF Resumes
  <2>1. PICK v : v = Shutdown(w)
    OBVIOUS
  <2>2. Sound(v) /\ Running(v) /\ ~v.live /\ v.hello = w.hello
    BY <1>1, <2>1, ShutdownSound
  <2>3. PICK ph : ph = "closing"
    OBVIOUS
  <2>4. Fitting(s, v, ph)
    BY <1>1, <1>5, <2>2, <2>3 DEF Fitting, Phases
  <2>5. worker' = [worker EXCEPT ![s] = v] /\ phase' = [phase EXCEPT ![s] = ph]
    BY <2>0, <2>1, <2>3 DEF Set, Await
  <2>6. CacheKept(s, ph)
    BY <1>5, <2>0 DEF CacheKept
  <2>7. UNCHANGED <<active, config, evidence, outcome, mode, leases, server, fault, closeReason, main, aborted>>
    BY <2>0 DEF pumpVars
  <2>8. QED
    BY <2>4, <2>5, <2>6, <2>7, WorkerStep
<1>6. CASE p.kind = "opened" /\ s = "open" /\ phase[s] = "reply"
  <2>0. Opened(w)
    BY <1>6 DEF Resumes
  <2>1. CASE Rejected("open", w, "fault")
    <3>1. Rejected(s, w, "fault")
      BY <1>6, <2>1
    <3>2. QED
      BY <1>1, <3>1, RejectedStep
  <2>2. CASE /\ Set("open", Enqueue(w, "next", FALSE)) /\ Await("open", "next")
             /\ main' = "serving"
             /\ UNCHANGED <<active, evidence, config, pumpVars, cache>>
    <3>1. PICK v : v = Enqueue(w, "next", FALSE)
      OBVIOUS
    <3>2. PICK ph : ph = "next"
      OBVIOUS
    <3>3. Fitting(s, v, ph)
      BY <1>1, <1>6, <3>1, <3>2, NextAsked
    <3>4. worker' = [worker EXCEPT ![s] = v] /\ phase' = [phase EXCEPT ![s] = ph]
      BY <1>6, <2>2, <3>1, <3>2 DEF Set, Await
    <3>5. CacheKept(s, ph)
      BY <2>2, <3>2 DEF CacheKept
    <3>6. UNCHANGED <<active, config, evidence, outcome, mode, leases, server, aborted>> /\ s # "describe"
      BY <1>6, <2>2 DEF pumpVars
    <3>7. QED
      BY <2>2, <3>3, <3>4, <3>5, <3>6, WorkerStep
  <2>3. QED
    BY <2>0, <2>1, <2>2 DEF Opened
<1>7. CASE p.kind \in {"frame", "gap", "end"} /\ s = "open" /\ phase[s] = "next"
  <2>0. Pumped(w, p)
    BY <1>7 DEF Resumes
  <2>1. CASE p.kind = "end" \/ (p.kind = "frame" /\ (~ValidFrame(p) \/ mode # "session"))
    <3>0. /\ Set("open", Shutdown(w)) /\ Await("open", "draining") /\ cache' = NoFrame
          /\ UNCHANGED <<active, evidence, config, sequence, outcome, main>>
      BY <2>0, <2>1 DEF Pumped
    <3>1. PICK v : v = Shutdown(w)
      OBVIOUS
    <3>2. Sound(v) /\ Running(v) /\ ~v.live /\ v.hello = w.hello
      BY <1>1, <3>1, ShutdownSound
    <3>3. PICK ph : ph = "draining"
      OBVIOUS
    <3>4. Fitting(s, v, ph)
      BY <1>1, <1>7, <3>2, <3>3 DEF Fitting, Phases
    <3>5. worker' = [worker EXCEPT ![s] = v] /\ phase' = [phase EXCEPT ![s] = ph]
      BY <1>7, <3>0, <3>1, <3>3 DEF Set, Await
    <3>6. CacheKept(s, ph)
      BY <3>0 DEF CacheKept
    <3>7. QED
      BY <1>7, <3>0, <3>4, <3>5, <3>6, WorkerStep
  <2>2. CASE ~(p.kind = "end" \/ (p.kind = "frame" /\ (~ValidFrame(p) \/ mode # "session")))
    <3>0. /\ Set("open", Enqueue(w, "next", FALSE))
          /\ cache' = IF p.kind = "frame" THEN Accepted(p) ELSE cache
          /\ UNCHANGED <<phase, active, evidence, config, fault, closeReason, outcome, main>>
      BY <2>0, <2>2 DEF Pumped
    <3>1. PICK v : v = Enqueue(w, "next", FALSE)
      OBVIOUS
    <3>2. PICK ph : ph = "next"
      OBVIOUS
    <3>3. Fitting(s, v, ph)
      BY <1>1, <1>7, <3>1, <3>2, NextAsked
    <3>4. worker' = [worker EXCEPT ![s] = v] /\ phase' = [phase EXCEPT ![s] = ph]
      BY <1>7, <3>0, <3>1, <3>2 DEF Set, AdapterInv, CallersInv
    <3>5. CacheKept(s, ph)
      <4>1. CASE cache' = cache
        BY <3>2, <4>1 DEF CacheKept
      <4>2. CASE cache' # cache
        <5>1. p.kind = "frame" /\ p.size \in Sizes /\ p.size + inFlightBytes <= MaxQueuedBytes
              /\ cache' = [size |-> p.size, mode |-> mode, fresh |-> TRUE]
          BY <1>1, <3>0, <4>2 DEF Accepted
        <5>2. QED
          BY <1>7, <3>2, <5>1 DEF CacheKept
      <4>3. QED
        BY <4>1, <4>2
    <3>6. QED
      BY <1>7, <3>0, <3>3, <3>4, <3>5, WorkerStep
  <2>3. QED
    BY <2>1, <2>2
<1>8. QED
  BY <1>3, <1>4, <1>5, <1>6, <1>7

LEMMA ReceivePacketStep ==
  ASSUME AdapterInv, NEW s \in Callers, ReceivePacket(s)
  PROVE  AdapterInv'
<1>1. worker[s].out # << >> /\ ~worker[s].killed /\ Head(worker[s].out).kind # "hello"
  BY DEF ReceivePacket, Delivers
<1>2. Sound(worker[s]) /\ Running(worker[s])
  BY <1>1 DEF AdapterInv, CallersInv, Tracked, Sound, Receipted, Running
<1>3. PICK p : p = Head(worker[s].out)
  OBVIOUS
<1>4. PICK w : w = Receive([worker[s] EXCEPT !.out = Tail(@)], p)
  OBVIOUS
<1>5. Handled(worker[s], p, w)
  BY <1>1, <1>2, <1>3, <1>4, ReceiveSound
<1>6. UNCHANGED <<mode, leases, server, aborted>>
  BY DEF ReceivePacket
<1>7. CASE p.kind \in Receipts \/ ~worker[s].live
  <2>1. Set(s, w) /\ UNCHANGED <<backend, pumpVars, cache, main>>
    BY <1>3, <1>4, <1>7 DEF ReceivePacket
  <2>2. Fitting(s, w, phase[s])
    <3>1. Sound(w) /\ Running(w) /\ w.hello \in {worker[s].hello, "ok", "failed"}
          /\ (w.live => worker[s].live /\ w.pending = worker[s].pending)
      BY <1>5 DEF Handled
    <3>2. Fitting(s, worker[s], phase[s])
      BY <1>2, InUse DEF AdapterInv
    <3>3. QED
      BY <3>1, <3>2 DEF Fitting
  <2>3. QED
    BY <1>2, <1>6, <2>1, <2>2, QuietStep
<1>8. CASE p.kind \notin Receipts /\ worker[s].live
  <2>1. Resumes(s, w, p)
    BY <1>3, <1>4, <1>8 DEF ReceivePacket, Resumes
  <2>2. QED
    BY <1>2, <1>5, <1>6, <1>8, <2>1, AnswerStep
<1>9. QED
  BY <1>7, <1>8

LEMMA FailureStep ==
  ASSUME AdapterInv, NEW s \in Callers, WorkerFails(s) \/ RequestTimer(s)
  PROVE  AdapterInv'
<1>1. Sound(worker[s]) /\ ~worker[s].killed /\ ~worker[s].finished
  BY DEF AdapterInv, CallersInv, Tracked, WorkerFails, RequestTimer
<1>2. Running(worker[s])
  <2>1. CASE WorkerFails(s)
    BY <1>1, <2>1 DEF WorkerFails, Alive, Running, None
  <2>2. CASE RequestTimer(s)
    <3>1. worker[s].live \/ phase[s] # "idle"
      BY <2>2 DEF RequestTimer
    <3>2. worker[s].live => worker[s].child # None
      BY <1>1 DEF Sound, Receipted
    <3>3. phase[s] # "idle" => worker[s].child # None
      BY DEF AdapterInv, CallersInv, Tracked
    <3>4. QED
      BY <1>1, <3>1, <3>2, <3>3 DEF Running
  <2>3. QED
    BY <2>1, <2>2
<1>3. PICK v : v = Fail(worker[s])
  OBVIOUS
<1>4. Sound(v) /\ Running(v) /\ ~v.live /\ v.hello # "wait"
  BY <1>1, <1>2, <1>3, FailSound
<1>5. Rejected(s, v, "fault") /\ UNCHANGED <<mode, leases, server, aborted>>
  BY <1>3 DEF WorkerFails, RequestTimer
<1>6. QED
  BY <1>2, <1>4, <1>5, RejectedStep

LEMMA CloseTimerStep ==
  ASSUME AdapterInv, NEW s \in Callers, CloseTimer(s)
  PROVE  AdapterInv'
<1>1. Sound(worker[s]) /\ worker[s].timer
  BY DEF AdapterInv, CallersInv, Tracked, CloseTimer
<1>2. Running(worker[s]) /\ ~worker[s].live
  BY <1>1 DEF Sound, Receipted, Closes, Running
<1>3. PICK v : v = Kill(worker[s])
  OBVIOUS
<1>4. Sound(v) /\ Running(v) /\ ~v.live /\ v.hello = worker[s].hello
  BY <1>1, <1>2, <1>3, KillSound
<1>5. Fitting(s, v, phase[s])
  BY <1>2, <1>4, InUse DEF AdapterInv, Fitting
<1>6. Set(s, v) /\ UNCHANGED <<backend, pumpVars, mode, cache, leases, server, main, aborted>>
  BY <1>3 DEF CloseTimer
<1>7. QED
  BY <1>2, <1>5, <1>6, QuietStep

LEMMA ExpireStep ==
  ASSUME AdapterInv, Expire
  PROVE  AdapterInv'
<1>1. PICK s \in Callers : s = "open"
  BY DEF Callers
<1>2. Running(worker[s]) /\ Sound(worker[s]) /\ worker[s].hello # "wait"
  BY <1>1 DEF AdapterInv, CallersInv, Tracked, Running, Expire
<1>3. PICK v : v = Shutdown(worker[s])
  OBVIOUS
<1>4. Sound(v) /\ Running(v) /\ ~v.live /\ v.hello # "wait"
  BY <1>2, <1>3, ShutdownSound
<1>5. PICK ph : ph = "draining"
  OBVIOUS
<1>6. Fitting(s, v, ph)
  BY <1>1, <1>4, <1>5 DEF Fitting, Phases
<1>7. worker' = [worker EXCEPT ![s] = v] /\ phase' = [phase EXCEPT ![s] = ph]
  BY <1>1, <1>3, <1>5 DEF Expire, Set, Await
<1>8. CacheKept(s, ph)
  BY DEF Expire, CacheKept
<1>9. UNCHANGED <<active, config, evidence, outcome, mode, leases, server, main, aborted>> /\ s # "describe"
  BY <1>1 DEF Expire
<1>10. QED
  BY <1>2, <1>6, <1>7, <1>8, <1>9, WorkerStep

LEMMA AbortStep ==
  ASSUME AdapterInv, Abort
  PROVE  AdapterInv'
<1>1. PICK s \in Callers : s = "open"
  BY DEF Callers
<1>2. /\ aborted' /\ main \in {"starting", "opening", "serving"} /\ main' = (IF main = "serving" THEN "stopping" ELSE main)
      /\ UNCHANGED <<active, evidence, config, sequence, outcome, mode, leases, server>>
  BY DEF Abort
<1>3. CASE worker["open"].live /\ phase["open"] \in {"reply", "next"}
  <2>1. PICK w : w = Reject(worker[s])
    OBVIOUS
  <2>2. Sound(worker[s]) /\ worker[s].live /\ worker[s].hello = "ok"
    BY <1>1, <1>3 DEF AdapterInv, CallersInv, Tracked, Sound, Closes, Greeted
  <2>3. Running(worker[s])
    BY <2>2 DEF Sound, Receipted, Running
  <2>4. Sound(w) /\ Running(w) /\ w.hello = "ok"
    BY <2>1, <2>2, <2>3, RejectSound
  <2>5. PICK v : v = Shutdown(w)
    OBVIOUS
  <2>6. Sound(v) /\ Running(v) /\ ~v.live /\ v.hello = "ok"
    BY <2>4, <2>5, ShutdownSound
  <2>7. PICK ph : ph = IF phase["open"] = "next" THEN "draining" ELSE "failing"
    OBVIOUS
  <2>8. Fitting(s, v, ph)
    BY <1>1, <2>6, <2>7 DEF Fitting, Phases
  <2>9. worker' = [worker EXCEPT ![s] = v] /\ phase' = [phase EXCEPT ![s] = ph]
    BY <1>1, <1>3, <2>1, <2>5, <2>7 DEF Abort, Set, Await
  <2>10. CacheKept(s, ph)
    <3>1. phase["open"] = "next" => cache' = NoFrame
      BY <1>3 DEF Abort
    <3>2. phase["open"] # "next" => cache' = cache /\ cache = NoFrame
      BY <1>3 DEF Abort, AdapterInv, CacheInv
    <3>3. QED
      BY <3>1, <3>2 DEF CacheKept
  <2>11. QED
    BY <1>1, <1>2, <2>3, <2>8, <2>9, <2>10, WorkerStep
<1>4. CASE ~(worker["open"].live /\ phase["open"] \in {"reply", "next"})
  <2>1. UNCHANGED <<worker, phase, fault, cache, closeReason>>
    BY <1>4 DEF Abort
  <2>2. CallersInv' /\ Granted' /\ LeasesInv' /\ CacheInv'
    BY <1>2, <2>1 DEF AdapterInv, CallersInv, Tracked, Granted, LeasesInv, CacheInv, Held, leases
  <2>3. RunInv'
    BY <1>2, <2>1 DEF AdapterInv, RunInv, leases
  <2>4. QED
    BY <2>2, <2>3 DEF AdapterInv
<1>5. QED
  BY <1>3, <1>4

\* A worker is spawned for a caller.
LEMMA SpawnStep ==
  ASSUME AdapterInv, NEW s \in Callers, active = {}, active' = {s},
         worker' = [worker EXCEPT ![s] = Spawned], phase' = [phase EXCEPT ![s] = "hello"],
         UNCHANGED <<config, evidence, pumpVars, mode, cache, leases, aborted>>,
         server' = server \/ main' # "stopped",
         s = "open" => main' = "opening" /\ MayOpen(config.granted, config.request, config.permission, evidence, Maxima),
         s = "describe" => main' = main,
         s = "open" => outcome # "closed"
  PROVE  AdapterInv'
<1>1. Sound(Spawned) /\ Running(Spawned) /\ ~Spawned.live /\ Spawned.child # None
  BY NewSound DEF Running
<1>2. PICK v : v = Spawned
  OBVIOUS
<1>3. v \in Workers
  BY <1>1, <1>2 DEF Sound
<1>4. worker' \in [Callers -> Workers] /\ worker'[s] = v /\ \A o \in Callers : o # s => worker'[o] = worker[o]
  BY <1>2, <1>3 DEF AdapterInv, CallersInv
<1>5. "hello" \in Phases(s)
  BY DEF Phases
<1>6. phase' \in [Callers -> UNION {Phases(o) : o \in Callers}]
      /\ phase'[s] = "hello" /\ \A o \in Callers : o # s => phase'[o] = phase[o]
  BY <1>5 DEF AdapterInv, CallersInv
<1>7. Tracked(s)'
  BY <1>1, <1>2, <1>4, <1>5, <1>6 DEF Running, Tracked
<1>8. ASSUME NEW o \in Callers, o # s PROVE Tracked(o)'
  <2>1. worker'[o] = worker[o] /\ phase'[o] = phase[o] /\ Tracked(o)
    BY <1>4, <1>6, <1>8 DEF AdapterInv, CallersInv
  <2>2. o \notin active /\ o \notin active'
    BY <1>8
  <2>3. QED
    BY <2>1, <2>2 DEF Tracked
<1>9. CallersInv'
  <2>1. active' \in {{}, {"describe"}, {"open"}}
    BY DEF Callers
  <2>2. \A o \in Callers : Tracked(o)'
    BY <1>7, <1>8
  <2>3. QED
    BY <1>4, <1>6, <2>1, <2>2 DEF CallersInv
<1>10. Granted'
  <2>1. CASE s = "open"
    <3>1. MayOpen(config.granted, config.request, config.permission, evidence, Maxima)
      BY <2>1
    <3>2. "acquisition" \in config.granted /\ evidence.digest = config.request.digest
      BY <3>1 DEF MayOpen, Permits
    <3>3. QED
      BY <3>2 DEF Granted
  <2>2. CASE s = "describe"
    BY <2>2 DEF Granted
  <2>3. QED
    BY <2>1, <2>2 DEF Callers
<1>11. phase["open"] = "idle" /\ \A o \in Callers : o # s => worker'[o] = worker[o] /\ phase'[o] = phase[o]
  BY <1>4, <1>6 DEF AdapterInv, CallersInv, Tracked, Callers
<1>12. LeasesInv'
  BY DEF AdapterInv, LeasesInv, leases, Held
<1>13. CacheInv'
  BY <1>11 DEF AdapterInv, CacheInv, leases
<1>14. RunInv'
  <2>1. CASE s = "open"
    BY <2>1 DEF RunInv, pumpVars
  <2>2. CASE s = "describe"
    <3>1. worker'["open"] = worker["open"] /\ phase'["open"] = phase["open"] /\ main' = main /\ conn' = conn
          /\ fault' = fault /\ closeReason' = closeReason /\ outcome' = outcome /\ aborted' = aborted
          /\ (main = "stopped" => server' = server)
      BY <1>11, <2>2 DEF leases, pumpVars, Callers
    <3>2. QED
      BY <3>1 DEF AdapterInv, RunInv
  <2>3. QED
    BY <2>1, <2>2 DEF Callers
<1>15. QED
  BY <1>9, <1>10, <1>12, <1>13, <1>14 DEF AdapterInv

LEMMA DescribeStep ==
  ASSUME AdapterInv, Describe
  PROVE  AdapterInv'
<1>1. PICK s \in Callers : s = "describe"
  BY DEF Callers
<1>2. /\ active = {} /\ active' = {s}
      /\ worker' = [worker EXCEPT ![s] = Spawned] /\ phase' = [phase EXCEPT ![s] = "hello"]
      /\ UNCHANGED <<config, evidence, pumpVars, mode, cache, leases, aborted>> /\ server' = server /\ main' = main
      /\ s # "open"
  BY <1>1 DEF Describe, Free, Set, Await
<1>3. QED
  BY <1>2, SpawnStep

LEMMA ServerStartsStep ==
  ASSUME AdapterInv, ServerStarts
  PROVE  AdapterInv'
<1>1. /\ main = "starting" /\ main' # "stopped" /\ main' \notin {"init", "starting"}
      /\ UNCHANGED <<evidence, config, pumpVars, mode, cache, leases, aborted>>
  BY DEF ServerStarts, Open
<1>2. outcome # "closed"
  BY <1>1 DEF AdapterInv, RunInv
<1>3. CASE UNCHANGED <<worker, phase, active>>
  <2>1. CallersInv' /\ Granted' /\ LeasesInv' /\ CacheInv'
    BY <1>1, <1>3 DEF AdapterInv, CallersInv, Tracked, Granted, LeasesInv, CacheInv, Held, leases
  <2>2. RunInv'
    BY <1>1, <1>2 DEF RunInv, pumpVars
  <2>3. QED
    BY <2>1, <2>2 DEF AdapterInv
<1>4. CASE ~UNCHANGED <<worker, phase, active>>
  <2>1. PICK s \in Callers : s = "open"
    BY DEF Callers
  <2>2. /\ active = {} /\ active' = {s}
        /\ worker' = [worker EXCEPT ![s] = Spawned] /\ phase' = [phase EXCEPT ![s] = "hello"]
        /\ main' = "opening" /\ MayOpen(config.granted, config.request, config.permission, evidence, Maxima)
    BY <1>4, <2>1 DEF ServerStarts, Open, Free, Set, Await
  <2>3. s # "describe"
    BY <2>1
  <2>4. QED
    BY <1>1, <1>2, <2>2, <2>3, SpawnStep
<1>5. QED
  BY <1>3, <1>4

LEMMA RunStep ==
  ASSUME AdapterInv, Run
  PROVE  AdapterInv'
<1>1. main = "init" /\ main' = "starting" /\ UNCHANGED <<worker, backend, pumpVars, mode, cache, leases, aborted>>
  BY DEF Run
<1>2. CallersInv' /\ Granted' /\ LeasesInv' /\ CacheInv'
  BY <1>1 DEF AdapterInv, CallersInv, Tracked, Granted, LeasesInv, CacheInv, Held, leases, backend
<1>3. RunInv'
  BY <1>1 DEF AdapterInv, RunInv, pumpVars
<1>4. QED
  BY <1>2, <1>3 DEF AdapterInv

\* The exit of the child is reported: its caller leaves the backend.
LEMMA ClosedStep ==
  ASSUME AdapterInv, NEW s \in Callers, Closed(s)
  PROVE  AdapterInv'
<1>1. worker[s].child = "exited" /\ ~worker[s].finished /\ Sound(worker[s])
  BY DEF AdapterInv, CallersInv, Tracked, Closed
<1>2. Running(worker[s])
  BY <1>1 DEF Running, None
<1>3. PICK v : v = Finish(worker[s])
  OBVIOUS
<1>4. /\ Sound(v) /\ v.finished /\ ~v.live /\ v.child # None /\ v.code = worker[s].code
      /\ v.status = "closed" => v.code = 0
  BY <1>1, <1>3, FinishSound
<1>5. /\ s \in active /\ phase[s] # "idle" /\ phase[s] \in Phases(s)
      /\ \A o \in Callers : o # s => o \notin active /\ phase[o] = "idle"
  BY <1>2, InUse DEF AdapterInv
<1>6. /\ worker' = [worker EXCEPT ![s] = v] /\ phase' = [phase EXCEPT ![s] = "idle"] /\ active' = active \ {s}
      /\ UNCHANGED <<config, mode, leases, server, aborted>>
  BY <1>3 DEF Closed, Set, Await
<1>7. worker' \in [Callers -> Workers] /\ worker'[s] = v /\ \A o \in Callers : o # s => worker'[o] = worker[o]
  BY <1>4, <1>6 DEF AdapterInv, CallersInv, Sound
<1>8. "idle" \in Phases(s)
  BY DEF Phases
<1>9. phase' \in [Callers -> UNION {Phases(o) : o \in Callers}]
      /\ phase'[s] = "idle" /\ \A o \in Callers : o # s => phase'[o] = phase[o]
  BY <1>6, <1>8 DEF AdapterInv, CallersInv
<1>10. active' = {}
  BY <1>5, <1>6 DEF AdapterInv, CallersInv, Callers
<1>11. CallersInv'
  <2>1. Tracked(s)'
    BY <1>4, <1>7, <1>8, <1>9, <1>10 DEF Tracked
  <2>2. ASSUME NEW o \in Callers, o # s PROVE Tracked(o)'
    <3>1. worker'[o] = worker[o] /\ phase'[o] = phase[o] /\ Tracked(o) /\ o \notin active
      BY <1>5, <1>7, <1>9, <2>2 DEF AdapterInv, CallersInv
    <3>2. QED
      BY <1>10, <3>1 DEF Tracked
  <2>3. \A o \in Callers : Tracked(o)'
    BY <2>1, <2>2
  <2>4. QED
    BY <1>7, <1>9, <1>10, <2>3 DEF CallersInv
<1>12. Granted'
  BY <1>10 DEF Granted
<1>13. LeasesInv'
  BY <1>6 DEF AdapterInv, LeasesInv, leases, Held
<1>14. inFlightBytes' = inFlightBytes /\ inFlightBytes \in Nat /\ MaxQueuedBytes \in Nat
  BY <1>6, BytesNat, SizesNat DEF AdapterInv, leases
<1>15. phase["open"] # "next" => cache = NoFrame
  BY DEF AdapterInv, CacheInv
<1>16. CASE s = "describe"
  <2>1. UNCHANGED <<pumpVars, cache, main>>
    BY <1>16 DEF Closed
  <2>2. worker'["open"] = worker["open"] /\ phase'["open"] = phase["open"]
    BY <1>7, <1>9, <1>16 DEF Callers
  <2>3. RunInv'
    BY <1>6, <2>1, <2>2 DEF AdapterInv, RunInv, pumpVars, leases
  <2>4. CacheInv'
    BY <1>6, <1>14, <2>1, <2>2 DEF AdapterInv, CacheInv
  <2>5. QED
    BY <1>11, <1>12, <1>13, <2>3, <2>4 DEF AdapterInv
<1>17. CASE s = "open"
  <2>1. main \notin {"init", "starting", "stopped"} /\ outcome # "closed"
    BY <1>1, <1>5, <1>17 DEF AdapterInv, RunInv, None
  <2>2. CASE phase[s] \in {"hello", "reply", "failing"}
    <3>1. main' = "stopping" /\ UNCHANGED <<pumpVars, cache>> /\ cache = NoFrame
      BY <1>15, <1>17, <2>2 DEF Closed
    <3>2. RunInv'
      BY <2>1, <3>1 DEF RunInv, pumpVars
    <3>3. CacheInv'
      BY <1>6, <1>14, <3>1 DEF AdapterInv, CacheInv
    <3>4. QED
      BY <1>11, <1>12, <1>13, <3>2, <3>3 DEF AdapterInv
  <2>3. CASE phase[s] \notin {"hello", "reply", "failing"}
    <3>1. PICK f : f = IF phase[s] = "next" THEN "fault" ELSE fault
      OBVIOUS
    <3>2. /\ fault' = f /\ cache' = NoFrame /\ main' = main
          /\ closeReason' = (IF closeReason = None THEN "source-fault" ELSE closeReason)
          /\ outcome' = PumpStatus(v.status = "closed", f)
      BY <1>3, <1>17, <2>3, <3>1 DEF Closed
    <3>3. outcome' = "closed" => v.code = 0 /\ (f = None \/ aborted \/ closeReason = "duration-expired")
      BY <1>4, <3>2 DEF PumpStatus
    <3>4. closeReason = "duration-expired" => closeReason' = "duration-expired"
      BY <3>2 DEF None
    <3>5. RunInv'
      <4>1. main' \notin {"init", "starting", "stopped"}
        BY <2>1, <3>2
      <4>2. phase'["open"] = "idle" /\ worker'["open"].code = v.code
        BY <1>7, <1>9, <1>17
      <4>3. aborted' = aborted /\ fault' = f
        BY <1>6, <3>2
      <4>4. outcome' = "closed" => worker'["open"].code = 0 /\ (fault' = None \/ aborted' \/ closeReason' = "duration-expired")
        BY <3>3, <3>4, <4>2, <4>3
      <4>5. QED
        BY <4>1, <4>2, <4>4 DEF RunInv
    <3>6. CacheInv'
      BY <1>6, <1>14, <3>2 DEF AdapterInv, CacheInv, NoFrame
    <3>7. QED
      BY <1>11, <1>12, <1>13, <3>5, <3>6 DEF AdapterInv
  <2>4. QED
    BY <2>2, <2>3
<1>18. QED
  BY <1>16, <1>17 DEF Callers

-----------------------------------------------------------------------------
\* The HTTP server and the cached frame.
LEMMA CacheStep ==
  ASSUME AdapterInv, ConfigureProfile \/ FrameAges
  PROVE  AdapterInv'
<1>1. UNCHANGED <<worker, backend, pumpVars, leases, server, main, aborted>>
  BY DEF ConfigureProfile, FrameAges
<1>2. CallersInv' /\ Granted' /\ LeasesInv' /\ RunInv'
  BY <1>1 DEF AdapterInv, CallersInv, Tracked, Granted, LeasesInv, RunInv, Held, leases, backend, pumpVars
<1>3. inFlightBytes' = inFlightBytes /\ inFlightBytes \in Nat /\ MaxQueuedBytes \in Nat /\ phase' = phase
  BY <1>1, BytesNat, SizesNat DEF AdapterInv, leases, backend
<1>4. CASE ConfigureProfile
  <2>1. cache' = NoFrame /\ mode' \in {"session", "other"}
    BY <1>4 DEF ConfigureProfile
  <2>2. CacheInv'
    BY <1>3, <2>1 DEF AdapterInv, CacheInv, NoFrame
  <2>3. QED
    BY <1>2, <2>2 DEF AdapterInv
<1>5. CASE FrameAges
  <2>1. cache' = [cache EXCEPT !.fresh = FALSE] /\ mode' = mode /\ cache.fresh
        /\ cache \in [size : Nat, mode : {None, "session", "other"}, fresh : BOOLEAN]
    BY <1>5 DEF FrameAges, AdapterInv, CacheInv
  <2>2. cache' \in [size : Nat, mode : {None, "session", "other"}, fresh : BOOLEAN]
        /\ cache'.size = cache.size /\ cache'.mode = cache.mode
    BY <2>1
  <2>3. cache # NoFrame
    BY <2>1 DEF NoFrame
  <2>4. CacheInv'
    BY <1>3, <2>1, <2>2, <2>3 DEF AdapterInv, CacheInv
  <2>5. QED
    BY <1>2, <2>4 DEF AdapterInv
<1>6. QED
  BY <1>4, <1>5

\* What the connections do leaves the callers alone.
LEMMA HttpStep ==
  ASSUME AdapterInv, UNCHANGED <<worker, backend, pumpVars, mode, cache, server, main, aborted>>,
         LeasesInv', cache.size + inFlightBytes' <= MaxQueuedBytes,
         main = "stopped" => \A c \in Conns : conn'[c].released
  PROVE  AdapterInv'
<1>1. CallersInv' /\ Granted'
  BY DEF AdapterInv, CallersInv, Tracked, Granted, backend
<1>2. RunInv'
  BY DEF AdapterInv, RunInv, backend, pumpVars
<1>3. CacheInv'
  BY DEF AdapterInv, CacheInv, backend
<1>4. QED
  BY <1>1, <1>2, <1>3 DEF AdapterInv

LEMMA AcquireStep ==
  ASSUME AdapterInv, NEW c \in Conns, NEW r \in Readers, Acquire(c, r)
  PROVE  AdapterInv'
<1>1. PICK n : n = cache.size
  OBVIOUS
<1>2. /\ cache # NoFrame /\ conn[c].phase = "idle" /\ inFlight[r] = 0 /\ server = "ready"
      /\ inFlightBytes + 2 * n <= MaxQueuedBytes
      /\ inFlight' = [inFlight EXCEPT ![r] = n] /\ inFlightBytes' = inFlightBytes + n
      /\ conn' = [conn EXCEPT ![c] = [phase |-> "reading", reader |-> r, size |-> n, released |-> FALSE]]
      /\ UNCHANGED <<worker, backend, pumpVars, mode, cache, server, main, aborted>>
  BY <1>1 DEF Acquire, Ready
<1>3. n \in Sizes /\ n \in Nat /\ n # 0 /\ inFlightBytes \in Nat /\ MaxQueuedBytes \in Nat
  BY <1>1, <1>2, BytesNat, SizesNat DEF AdapterInv, CacheInv
<1>4. LeasesInv'
  BY <1>2, <1>3, AcquiredStep DEF AdapterInv
<1>5. cache.size + inFlightBytes' <= MaxQueuedBytes
  BY <1>1, <1>2, <1>3
<1>6. main # "stopped"
  BY <1>2 DEF AdapterInv, RunInv
<1>7. QED
  BY <1>2, <1>4, <1>5, <1>6, HttpStep

\* A step that gives back leases, or none.
LEMMA ReleasingStep ==
  ASSUME AdapterInv, NEW cs \in SUBSET Conns, NEW next, \A c \in cs : next[c] \in {"idle", "gone"}, Released(cs, next),
         UNCHANGED <<worker, backend, pumpVars, mode, cache, server, main, aborted>>
  PROVE  AdapterInv'
<1>1. /\ LeasesInv' /\ inFlightBytes' \in Nat /\ inFlightBytes \in Nat /\ inFlightBytes' <= inFlightBytes
      /\ \A c \in Conns : conn'[c].released = (c \in cs \/ conn[c].released)
  BY ReleasedLeases DEF AdapterInv
<1>2. cache.size \in Nat /\ cache.size + inFlightBytes <= MaxQueuedBytes /\ MaxQueuedBytes \in Nat
  BY SizesNat DEF AdapterInv, CacheInv
<1>3. cache.size + inFlightBytes' <= MaxQueuedBytes
  BY <1>1, <1>2
<1>4. main = "stopped" => \A c \in Conns : conn'[c].released
  BY <1>1 DEF AdapterInv, RunInv
<1>5. QED
  BY <1>1, <1>3, <1>4, HttpStep

LEMMA ConnectionStep ==
  ASSUME AdapterInv, NEW c \in Conns,
         PropertyRead(c) \/ ResponseEnds(c) \/ PeerGone(c) \/ ControlRequest(c) \/ BodyEnds(c)
  PROVE  AdapterInv'
<1>1. UNCHANGED <<worker, backend, pumpVars, mode, cache, server, main, aborted>>
  BY DEF PropertyRead, ResponseEnds, PeerGone, ControlRequest, BodyEnds
<1>2. LeasesInv /\ conn \in [Conns -> Leases] /\ cache.size + inFlightBytes <= MaxQueuedBytes
      /\ (main = "stopped" => \A d \in Conns : conn[d].released)
  BY DEF AdapterInv, LeasesInv, CacheInv, RunInv
<1>3. ASSUME NEW p \in {"idle", "gone"}, Released({c}, Becomes(c, p)) PROVE AdapterInv'
  <2>1. PICK next : next = Becomes(c, p)
    OBVIOUS
  <2>2. PICK cs \in SUBSET Conns : cs = {c}
    OBVIOUS
  <2>3. \A d \in cs : next[d] \in {"idle", "gone"}
    BY <2>1, <2>2 DEF Becomes
  <2>4. Released(cs, next)
    BY <1>3, <2>1, <2>2
  <2>5. QED
    BY <1>1, <2>3, <2>4, ReleasingStep
<1>4. ASSUME UNCHANGED <<inFlight, inFlightBytes>>, LeasesInv', \A d \in Conns : conn'[d].released = conn[d].released
      PROVE  AdapterInv'
  <2>1. cache.size + inFlightBytes' <= MaxQueuedBytes
    BY <1>2, <1>4
  <2>2. main = "stopped" => \A d \in Conns : conn'[d].released
    BY <1>2, <1>4
  <2>3. QED
    BY <1>1, <1>4, <2>1, <2>2, HttpStep
<1>5. CASE PropertyRead(c)
  <2>1. CASE conn[c].phase = "reading" /\ conn' = [conn EXCEPT ![c].phase = "writing"] /\ UNCHANGED <<inFlight, inFlightBytes>>
    <3>1. LeasesInv' /\ \A d \in Conns : conn'[d].released = conn[d].released
      BY <1>2, <2>1, WritingStep
    <3>2. QED
      BY <1>4, <2>1, <3>1
  <2>2. CASE Released({c}, Becomes(c, "idle"))
    BY <1>3, <2>2
  <2>3. QED
    BY <1>5, <2>1, <2>2 DEF PropertyRead
<1>6. CASE ResponseEnds(c)
  BY <1>3, <1>6 DEF ResponseEnds
<1>7. CASE PeerGone(c)
  BY <1>3, <1>7 DEF PeerGone
<1>8. CASE ControlRequest(c) \/ BodyEnds(c)
  <2>1. PICK rec : rec = IF ControlRequest(c) THEN [NoLease EXCEPT !.phase = "body"] ELSE NoLease
    OBVIOUS
  <2>2. rec \in Leases /\ rec.released /\ rec.phase \notin {"reading", "writing"}
    <3>1. NoLease \in Leases
      BY DEF NoLease, Leases
    <3>2. [NoLease EXCEPT !.phase = "body"] \in Leases
      BY DEF NoLease, Leases
    <3>3. CASE ControlRequest(c)
      BY <2>1, <3>2, <3>3 DEF NoLease
    <3>4. CASE ~ControlRequest(c)
      BY <2>1, <3>1, <3>4 DEF NoLease
    <3>5. QED
      BY <3>3, <3>4
  <2>3. conn' = [conn EXCEPT ![c] = rec] /\ UNCHANGED <<inFlight, inFlightBytes>>
    <3>1. CASE ControlRequest(c)
      BY <2>1, <3>1 DEF ControlRequest
    <3>2. CASE ~ControlRequest(c)
      BY <1>8, <2>1, <3>2 DEF BodyEnds
    <3>3. QED
      BY <3>1, <3>2
  <2>4. conn[c].released
    BY <1>2, <1>8 DEF ControlRequest, BodyEnds, Ready, LeasesInv
  <2>5. LeasesInv' /\ \A d \in Conns : conn'[d].released = conn[d].released
    BY <1>2, <2>2, <2>3, <2>4, UnleasedStep
  <2>6. QED
    BY <1>4, <2>3, <2>5
<1>9. QED
  BY <1>5, <1>6, <1>7, <1>8

LEMMA RunEndsStep ==
  ASSUME AdapterInv, RunEnds
  PROVE  AdapterInv'
<1>1. /\ main = "stopping" /\ phase["open"] = "idle" /\ main' = "stopped" /\ aborted' /\ server' = "closed"
      /\ UNCHANGED <<worker, backend, pumpVars, mode, cache>>
  BY DEF RunEnds
<1>2. PICK next : next = [c \in Conns |-> IF conn[c].phase \in {"reading", "gone"} THEN "gone" ELSE "idle"]
  OBVIOUS
<1>3. PICK cs \in SUBSET Conns : cs = {c \in Conns : conn[c].phase # "idle"}
  OBVIOUS
<1>4. Released(cs, next) /\ \A c \in cs : next[c] \in {"idle", "gone"}
  BY <1>2, <1>3 DEF RunEnds
<1>5. /\ LeasesInv' /\ inFlightBytes' \in Nat /\ inFlightBytes \in Nat /\ inFlightBytes' <= inFlightBytes
      /\ \A c \in Conns : conn'[c].released = (c \in cs \/ conn[c].released)
  BY <1>4, ReleasedLeases DEF AdapterInv
<1>6. \A c \in Conns : conn'[c].released
  <2> SUFFICES ASSUME NEW c \in Conns PROVE conn'[c].released
    OBVIOUS
  <2>1. conn[c].phase = "idle" => conn[c].released
    BY DEF AdapterInv, LeasesInv
  <2>2. QED
    BY <1>3, <1>5, <2>1
<1>7. cache.size \in Nat /\ cache.size + inFlightBytes <= MaxQueuedBytes /\ MaxQueuedBytes \in Nat
  BY SizesNat DEF AdapterInv, CacheInv
<1>8. cache.size + inFlightBytes' <= MaxQueuedBytes
  BY <1>5, <1>7
<1>9. CallersInv' /\ Granted'
  BY <1>1 DEF AdapterInv, CallersInv, Tracked, Granted, backend
<1>10. RunInv'
  BY <1>1, <1>6 DEF AdapterInv, RunInv, backend, pumpVars
<1>11. CacheInv'
  BY <1>1, <1>8 DEF AdapterInv, CacheInv, backend
<1>12. QED
  BY <1>5, <1>9, <1>10, <1>11 DEF AdapterInv

-----------------------------------------------------------------------------
\* The initial states.
LEMMA InitInv == Init => AdapterInv
<1>1. SUFFICES ASSUME Init PROVE AdapterInv
  OBVIOUS
<1>2. \A s \in Callers : worker[s] = NoWorker /\ phase[s] = "idle"
  BY <1>1 DEF Init
<1>3. worker = [s \in Callers |-> NoWorker] /\ phase = [s \in Callers |-> "idle"] /\ active = {}
  BY <1>1 DEF Init
<1>4. CallersInv
  <2>1. Sound(NoWorker) /\ NoWorker.child = None /\ ~NoWorker.live
    BY NewSound DEF NoWorker
  <2>2. \A s \in Callers : "idle" \in Phases(s)
    BY DEF Phases
  <2>3. ASSUME NEW s \in Callers PROVE Tracked(s)
    <3>1. worker[s] = NoWorker /\ phase[s] = "idle" /\ s \notin active
      BY <1>2, <1>3
    <3>2. QED
      BY <2>1, <2>2, <3>1 DEF Tracked
  <2>4. worker \in [Callers -> Workers]
    BY <1>3, <2>1 DEF Sound
  <2>5. phase \in [Callers -> UNION {Phases(s) : s \in Callers}]
    BY <1>3, <2>2
  <2>6. QED
    BY <1>3, <2>3, <2>4, <2>5 DEF CallersInv
<1>5. Granted
  BY <1>3 DEF Granted
<1>6. RunInv
  <2>1. worker["open"].child = None /\ main = "init" /\ outcome # "closed"
    BY <1>1, <1>2 DEF Init, Callers, NoWorker, None
  <2>2. QED
    BY <2>1 DEF RunInv
<1>7. conn = [c \in Conns |-> NoLease] /\ inFlight = [r \in Readers |-> 0] /\ inFlightBytes = 0
  BY <1>1 DEF Init
<1>8. LeasesInv
  <2>1. conn \in [Conns -> Leases] /\ \A c \in Conns : conn[c].released /\ conn[c].phase = "idle"
    BY <1>7 DEF NoLease, Leases
  <2>2. Held = {}
    BY <2>1 DEF Held
  <2>3. Total(conn) = 0
    <3>1. {c \in Conns : ~conn[c].released} = {}
      BY <2>1
    <3>2. Units(Sizing(conn), {}) = {}
      BY DEF Units
    <3>3. QED
      BY <3>1, <3>2, FS_EmptySet DEF Total, Weight
  <2>4. \A c \in Conns : conn[c].released <=> conn[c].phase \notin {"reading", "writing"}
    BY <2>1
  <2>5. QED
    BY <1>7, <2>1, <2>2, <2>3, <2>4 DEF LeasesInv
<1>9. CacheInv
  BY <1>1, SizesNat DEF Init, CacheInv, NoFrame
<1>10. QED
  BY <1>4, <1>5, <1>6, <1>8, <1>9 DEF AdapterInv

\* Every step keeps the invariant.
LEMMA NextInv == AdapterInv /\ [Next]_vars => AdapterInv'
<1>1. SUFFICES ASSUME AdapterInv, [Next]_vars PROVE AdapterInv'
  OBVIOUS
<1>2. CASE UNCHANGED vars
  BY <1>1, <1>2 DEF AdapterInv, CallersInv, Tracked, Granted, LeasesInv, RunInv, CacheInv, Held,
     leases, backend, pumpVars, vars
<1>3. CASE Next
  <2>1. ASSUME NEW s \in Callers, Process(s) \/ Killed(s) PROVE AdapterInv'
    BY <1>1, <2>1, ProcessStep
  <2>2. ASSUME NEW s \in Callers, ReceiveHello(s) PROVE AdapterInv'
    BY <1>1, <2>2, ReceiveHelloStep
  <2>3. ASSUME NEW s \in Callers, ReceivePacket(s) PROVE AdapterInv'
    BY <1>1, <2>3, ReceivePacketStep
  <2>4. ASSUME NEW s \in Callers, WorkerFails(s) \/ RequestTimer(s) PROVE AdapterInv'
    BY <1>1, <2>4, FailureStep
  <2>5. ASSUME NEW s \in Callers, CloseTimer(s) PROVE AdapterInv'
    BY <1>1, <2>5, CloseTimerStep
  <2>6. ASSUME NEW s \in Callers, Closed(s) PROVE AdapterInv'
    BY <1>1, <2>6, ClosedStep
  <2>7. CASE Describe
    BY <1>1, <2>7, DescribeStep
  <2>8. CASE Expire
    BY <1>1, <2>8, ExpireStep
  <2>9. CASE ConfigureProfile \/ FrameAges
    BY <1>1, <2>9, CacheStep
  <2>10. ASSUME NEW c \in Conns, NEW r \in Readers, Acquire(c, r) PROVE AdapterInv'
    BY <1>1, <2>10, AcquireStep
  <2>11. ASSUME NEW c \in Conns,
                PropertyRead(c) \/ ResponseEnds(c) \/ PeerGone(c) \/ ControlRequest(c) \/ BodyEnds(c)
         PROVE  AdapterInv'
    BY <1>1, <2>11, ConnectionStep
  <2>12. CASE Run
    BY <1>1, <2>12, RunStep
  <2>13. CASE ServerStarts
    BY <1>1, <2>13, ServerStartsStep
  <2>14. CASE Abort
    BY <1>1, <2>14, AbortStep
  <2>15. CASE RunEnds
    BY <1>1, <2>15, RunEndsStep
  <2>16. QED
    BY <1>3, <2>1, <2>2, <2>3, <2>4, <2>5, <2>6, <2>7, <2>8, <2>9, <2>10, <2>11, <2>12, <2>13, <2>14, <2>15
       DEF Next
<1>4. QED
  BY <1>1, <1>2, <1>3

\* The state of the adapter is sound: each caller of the backend is counted in
\* CaptureBackend.active from the start of its worker to the end of it, and the
\* books of SemanticAdapter are those of the connections.
THEOREM AdapterInvariant == Spec => []AdapterInv
<1>1. Init => AdapterInv
  BY InitInv
<1>2. AdapterInv /\ [Next]_vars => AdapterInv'
  BY NextInv
<1>3. QED
  BY <1>1, <1>2, PTL DEF Spec

-----------------------------------------------------------------------------
\* What the invariant says of the camera.
LEMMA OneProcess == AdapterInv => OneCamera
<1>1. SUFFICES ASSUME AdapterInv PROVE OneCamera
  OBVIOUS
<1>2. ASSUME NEW s \in Callers, Alive(worker[s]) PROVE s \in active
  <2>1. Tracked(s)
    BY <1>1 DEF AdapterInv, CallersInv
  <2>2. worker[s].child # None /\ worker[s].child # "exited"
    BY <1>2 DEF Alive, None
  <2>3. ~worker[s].finished
    BY <2>1, <2>2 DEF Tracked, Sound, Receipted
  <2>4. QED
    BY <2>1, <2>2, <2>3 DEF Tracked
<1>3. PICK t \in Callers : {s \in Callers : Alive(worker[s])} \subseteq {t}
  BY <1>1, <1>2 DEF AdapterInv, CallersInv, Callers
<1>4. Cardinality({s \in Callers : Alive(worker[s])}) <= 1
  <2>1. {s \in Callers : Alive(worker[s])} = {} \/ {s \in Callers : Alive(worker[s])} = {t}
    BY <1>3
  <2>2. Cardinality({}) = 0 /\ Cardinality({t}) = 1
    BY FS_EmptySet, FS_Singleton
  <2>3. QED
    BY <2>1, <2>2
<1>5. Alive(worker["open"]) => "acquisition" \in config.granted /\ evidence.digest = config.request.digest
  BY <1>1, <1>2 DEF AdapterInv, Granted, Callers
<1>6. ASSUME main = "stopped" PROVE ~Alive(worker["open"]) /\ inFlightBytes = 0
  <2>1. phase["open"] = "idle" /\ \A c \in Conns : conn[c].released
    BY <1>1, <1>6 DEF AdapterInv, RunInv
  <2>2. "open" \notin active
    BY <1>1, <2>1 DEF AdapterInv, CallersInv, Tracked, Callers
  <2>3. {c \in Conns : ~conn[c].released} = {} /\ inFlightBytes = Total(conn)
    BY <1>1, <2>1 DEF AdapterInv, LeasesInv
  <2>4. Units(Sizing(conn), {}) = {}
    BY DEF Units
  <2>5. inFlightBytes = 0
    BY <2>3, <2>4, FS_EmptySet DEF Total, Weight
  <2>6. QED
    BY <1>2, <2>2, <2>5 DEF Callers
<1>7. QED
  BY <1>2, <1>4, <1>5, <1>6 DEF OneCamera

\* The camera is one process's at a time, its evidence stays that of the
\* acquisition and a stopped run keeps nothing (CaptureBackend.active, the
\* finally block of run), and a close result says no more than the process did
\* (NativeWorker.finish, CaptureSession.pump).
THEOREM CameraAlwaysReleased == Spec => []CameraReleased
<1>1. AdapterInv => CameraReleased
  <2>1. SUFFICES ASSUME AdapterInv PROVE CameraReleased
    OBVIOUS
  <2>2. OneCamera
    BY <2>1, OneProcess
  <2>3. ASSUME NEW s \in Callers PROVE Receipted(worker[s])
    BY <2>1 DEF AdapterInv, CallersInv, Tracked, Sound
  <2>4. outcome = "closed" =>
          worker["open"].code = 0 /\ (fault = None \/ aborted \/ closeReason = "duration-expired")
    BY <2>1 DEF AdapterInv, RunInv
  <2>5. ReceiptHonest
    BY <2>3, <2>4 DEF ReceiptHonest, Receipted
  <2>6. QED
    BY <2>2, <2>5 DEF CameraReleased
<1>2. QED
  BY <1>1, AdapterInvariant, PTL

\* The leases that acquireSnapshot() grants and release() gives back are those
\* that inFlight and inFlightBytes count, one for each reader, and they fit the
\* limits together with the cached frame.
THEOREM SnapshotsAlwaysAccounted == Spec => []SnapshotsAccounted
<1>1. AdapterInv => SnapshotsAccounted
  <2>1. SUFFICES ASSUME AdapterInv PROVE SnapshotsAccounted
    OBVIOUS
  <2>2. LeasesInv /\ CacheInv /\ conn \in [Conns -> Leases]
    BY <2>1 DEF AdapterInv, LeasesInv
  <2>3. ASSUME NEW r \in Readers, NEW held, held = {c \in Conns : ~conn[c].released /\ conn[c].reader = r}
        PROVE  Cardinality(held) <= 1 /\ inFlight[r] = SumSizes(held)
    <3>1. CASE held = {}
      <4>1. inFlight[r] = 0
        BY <2>2, <2>3, <3>1 DEF LeasesInv, Held
      <4>2. SumSizes({}) = Weight(Sizing(conn), {})
        BY <2>2, SumSizesIs
      <4>3. Units(Sizing(conn), {}) = {}
        BY DEF Units
      <4>4. SumSizes({}) = 0 /\ Cardinality({}) = 0
        BY <4>2, <4>3, FS_EmptySet DEF Weight
      <4>5. QED
        BY <3>1, <4>1, <4>4
    <3>2. CASE held # {}
      <4>1. PICK c \in Held : conn[c].reader = r
        BY <2>3, <3>2 DEF Held
      <4>2. held = {c} /\ inFlight[r] = conn[c].size /\ c \in Conns
        BY <2>2, <2>3, <4>1 DEF LeasesInv, Held
      <4>3. PICK w \in [Conns -> Nat] : w = Sizing(conn) /\ w[c] = conn[c].size
        BY <2>2, <4>2, SizingType
      <4>4. SumSizes({c}) = Weight(w, {c})
        BY <2>2, <4>2, <4>3, SumSizesIs
      <4>5. Weight(w, {c}) = w[c]
        <5>1. Weight(w, {c}) = w[c] + Weight(w, {c} \ {c})
          BY <4>2, AdapterAssumption, WeightStep
        <5>2. {c} \ {c} = {} /\ Units(w, {}) = {}
          BY DEF Units
        <5>3. Weight(w, {c} \ {c}) = 0
          BY <5>2, FS_EmptySet DEF Weight
        <5>4. QED
          BY <4>2, <4>3, <5>1, <5>3
      <4>6. Cardinality({c}) = 1
        BY FS_Singleton
      <4>7. QED
        BY <4>2, <4>3, <4>4, <4>5, <4>6
    <3>3. QED
      BY <3>1, <3>2
  <2>4. inFlightBytes = SumSizes({c \in Conns : ~conn[c].released})
    <3>1. inFlightBytes = Total(conn) /\ Held \in SUBSET Conns /\ Held = {c \in Conns : ~conn[c].released}
      BY <2>2 DEF LeasesInv, Held
    <3>2. SumSizes(Held) = Weight(Sizing(conn), Held)
      BY <2>2, <3>1, SumSizesIs
    <3>3. QED
      BY <3>1, <3>2 DEF Total
  <2>5. cache.size + inFlightBytes <= MaxQueuedBytes
        /\ (cache # NoFrame => cache.mode = mode /\ phase["open"] = "next")
    BY <2>2 DEF CacheInv
  <2>6. QED
    BY <2>3, <2>4, <2>5 DEF SnapshotsAccounted
<1>2. QED
  BY <1>1, AdapterInvariant, PTL

=============================================================================
