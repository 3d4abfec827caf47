------------------------------ MODULE Discovery ------------------------------
(***************************************************************************)
(* The discovery engine (discovery/engine.ts) and its inventory            *)
(* (discovery/inventory.ts) for one device identity and one provisioned    *)
(* seed: WS-Discovery announcements that may be delayed, repeated and      *)
(* reordered, the bounded queue of native inspections, the state of the    *)
(* device, and the durable snapshot, with crashes and restarts.            *)
(*                                                                         *)
(* A report of an inspection is abstracted to what it establishes and to   *)
(* the change of the device it has seen (reboots and reconfigurations are  *)
(* numbered).  epoch and inspectionGeneration are only ever compared with  *)
(* the token of the running inspection, so the token keeps one bit: a      *)
(* change has fenced it.  Likewise revision is kept as unsaved (it differs *)
(* from savedRevision) and moved (from the snapshot being written); the    *)
(* diagnostics, which also advance it, are left out.  The timers and the   *)
(* liveness rounds are abstracted to their verdicts: a verified device may *)
(* be due for a refresh, become stale or depart at any reconciliation.     *)
(* The device has an approved endpoint on an open segment.                 *)
(***************************************************************************)
EXTENDS Integers, SequencesExt

CONSTANTS Sids,                       \* SequenceIds the device uses
          MaxSequenceIds, MaxConcurrent, MaxQueued,   \* bounds
          Scenarios,                  \* sets of Features, of which a behaviour has one
          PerPoint,                   \* messages per sequence between two changes
          MaxChanges, MaxCrashes

\* What a behaviour may meet: a configured seed, parallel inspections, a second
\* SequenceId, messages without an AppSequence, a reboot or change of the device,
\* close() or a crash; reports that are lost, contradict the identity or deny the
\* information; an inventory out of bytes, a failing disk or socket.
Features == {"seed", "parallel", "sequences", "unsequenced", "change", "close", "restart",
             "lost", "conflict", "denied", "bytes", "disk", "open",
             "datagrams"}                 \* only what Reception models

ASSUME DiscoveryAssumption ==
  /\ IsFiniteSet(Sids)
  /\ {MaxSequenceIds, MaxConcurrent, MaxQueued} \subseteq Nat \ {0}
  /\ {PerPoint, MaxChanges, MaxCrashes} \subseteq Nat
  /\ Scenarios \subseteq SUBSET Features

VARIABLES
  life, boot,                      \* the engine's state; how far initialize() is
  dev, seed,                       \* the inventory: the device, and whether the seed is resolved
  jobs, queue,                     \* inspections by key, and the keys that wait
  unsaved, saving, snap, moved,    \* persist()
  durable,                         \* the snapshot file
  scenario, points,                \* the scenario; what the device was, change after change
  crashes

inventory == <<dev, seed>>
work == <<jobs, queue>>
store == <<unsaved, saving, snap, moved, durable>>
world == <<scenario, points>>
discoveryVars == <<life, boot, inventory, work, store, world, crashes>>

Key == {"device", "seed"}
NoMark == [number |-> 0, bye |-> FALSE]
NoDevice == [state |-> "none"]
NewDevice == [state |-> "candidate", identityConflict |-> FALSE, instance |-> 0,
              seqs |-> [s \in Sids |-> NoMark], version |-> 0, info |-> 0, by |-> "none"]
NoReport == [kind |-> "none", change |-> 0]
NoJob == [stage |-> "none", fenced |-> "no", requeue |-> FALSE, report |-> NoReport]
NoContent == [dev |-> NoDevice, seed |-> FALSE]
Content == [dev |-> dev, seed |-> seed]

DiscoveryInit ==
  /\ life = "starting" /\ boot = "loading"
  /\ dev = NoDevice /\ seed = FALSE
  /\ jobs = [k \in Key |-> NoJob] /\ queue = << >>
  /\ unsaved = TRUE /\ saving = "none" /\ moved = FALSE
  /\ durable = NoContent /\ snap = NoContent
  /\ scenario \in Scenarios /\ points = <<[instance |-> 1, version |-> 1]>> /\ crashes = 0

-----------------------------------------------------------------------------
\* A change of the inventory advances the revision.
Moved(bumped) == /\ unsaved' = (unsaved \/ bumped)
                 /\ moved' = (moved \/ (bumped /\ saving = "writing"))

\* persist(): joins the save under way, also one that has settled and is not
\* yet cleared; otherwise saves until the revision stands still.  The flag says
\* whether the revision has moved in this step.
Persist(bumped) ==
  IF saving = "none" /\ (unsaved \/ bumped)
  THEN /\ saving' = "writing" /\ snap' = Content' /\ moved' = FALSE /\ unsaved' = TRUE
       /\ UNCHANGED durable
  ELSE /\ saving' = IF saving = "none" THEN "settled" ELSE saving
       /\ Moved(bumped) /\ UNCHANGED <<snap, durable>>

Bump(bumped) == Moved(bumped) /\ UNCHANGED <<saving, snap, durable>>

-----------------------------------------------------------------------------
\* The jobs and the queue together, as the functions below pass them on.
Work == [jobs |-> jobs, queue |-> queue]
InFlight(w, k) == w.jobs[k].stage \in {"inspecting", "reported", "persisting"}
Workers(w) == Cardinality({k \in Key : InFlight(w, k)})

\* inspectionGeneration++ or epoch++: the token of a running inspection is void.
\* The reason is kept: news of the device, its departure, or a seed's report.
Fence(w, why, cond) ==
  IF cond /\ InFlight(w, "device") THEN [w EXCEPT !.jobs["device"].fenced = why] ELSE w

Concurrent == IF "parallel" \in scenario THEN MaxConcurrent ELSE 1

\* pump(): the waiting jobs start, in order, while there are free workers;
\* beginInspection() gives each device job a token of its own.
Pump(w) ==
  LET n == Min({Max({Concurrent - Workers(w), 0}), Len(w.queue)})
      started == {w.queue[i] : i \in 1..n}
  IN [jobs |-> [k \in Key |-> IF k \in started
                              THEN [NoJob EXCEPT !.stage = "inspecting"] ELSE w.jobs[k]],
      queue |-> SubSeq(w.queue, n + 1, Len(w.queue))]

\* enqueue(): a job that exists is run again if it has been superseded.
Enqueue(w, k) ==
  IF w.jobs[k].stage # "none"
  THEN IF InFlight(w, k) /\ w.jobs[k].fenced # "no"
       THEN [w EXCEPT !.jobs[k].requeue = TRUE] ELSE w
  ELSE IF Len(w.queue) >= MaxQueued THEN w
  ELSE Pump([jobs |-> [w.jobs EXCEPT ![k].stage = "queued"], queue |-> Append(w.queue, k)])

EnqueueIf(w, k, cond) == IF cond THEN Enqueue(w, k) ELSE w
SetWork(w) == jobs' = w.jobs /\ queue' = w.queue

-----------------------------------------------------------------------------
\* order(): the message belongs to a newer instance of the device, or is the
\* next of its sequence; the watermark is kept, and contradictory presence in
\* another sequence is a conflict.  A message without an AppSequence (instance 0)
\* only counts before the device has been ordered or verified.
Unsequenced(m) == m.instance = 0
Newer(d, m) == m.instance > d.instance
Epoch(d, m) ==
  IF Newer(d, m)
  THEN [d EXCEPT !.instance = m.instance, !.seqs = [s \in Sids |-> NoMark],
                 !.state = IF @ = "conflict" THEN @ ELSE "candidate"]
  ELSE d
Accepts(d, m) ==
  LET seqs == Epoch(d, m).seqs
  IN \/ Unsequenced(m) /\ d.instance = 0 /\ d.info = 0 /\ m.kind # "Bye"
     \/ /\ ~Unsequenced(m) /\ m.instance >= d.instance
        /\ m.number > seqs[m.sid].number
        /\ seqs[m.sid] = NoMark => Cardinality({s \in Sids : seqs[s] # NoMark}) < MaxSequenceIds
Order(d, m) ==
  LET e == Epoch(d, m)
      bye == m.kind = "Bye"
      contradicted == \E s \in Sids \ {m.sid} : e.seqs[s] # NoMark /\ e.seqs[s].bye # bye
  IN IF Unsequenced(m) THEN d
     ELSE [e EXCEPT !.state = IF contradicted THEN "conflict" ELSE @,
                    !.seqs[m.sid] = [number |-> m.number, bye |-> bye]]

\* mergeMetadata() and the rest of observe(): what the message says is merged,
\* and a verified device that changed has to be inspected again.
Changes(d, m) == m.version > d.version \/ m.kind = "Bye" \/ d.state = "departed"
MergeWith(d, m, version) ==
  LET kept == [d EXCEPT !.version = version]
      merged == IF m.kind = "Bye"
                THEN [kept EXCEPT !.state = IF @ = "conflict" THEN @ ELSE "suspect"]
                ELSE [kept EXCEPT !.state = IF @ = "departed" THEN "candidate" ELSE @]
  IN IF Changes(d, m) /\ merged.state = "verified"
     THEN [merged EXCEPT !.state = "candidate"] ELSE merged
MergeLatest(d, m) == MergeWith(d, m, m.version)   \* variant: the last message is believed
Merge(d, m) == MergeWith(d, m, Max({d.version, m.version}))

\* A device is inspected unless it is verified, and then once refreshMs is over.
Due(d) == IF d.state = "verified" THEN BOOLEAN ELSE {TRUE}

\* What the device may have multicast: it numbers the messages of each sequence
\* and describes itself as it is then.  The network may delay, reorder, repeat and
\* lose them, so that any of them may arrive at any time.
UsedSids == IF "sequences" \in scenario THEN Sids ELSE {Min(Sids)}
Message ==
  {[kind |-> kind, sid |-> sid, number |-> PerPoint * (c - 1) + n,
    instance |-> points[c].instance, version |-> points[c].version] :
     kind \in {"Hello", "Bye"}, sid \in UsedSids, n \in 1..PerPoint, c \in DOMAIN points}
  \cup {[kind |-> kind, sid |-> sid, number |-> 0, instance |-> 0, version |-> points[c].version] :
          kind \in {"Hello", "Bye"}, c \in DOMAIN points,
          sid \in IF "unsequenced" \in scenario THEN {Min(Sids)} ELSE {}}

\* receive() of an announcement; a ProbeMatches or ResolveMatches of an open
\* request is processed as a Hello.  Only the last maxMessageIds MessageIDs are
\* known, so a copy may be processed again.  A message that is not accepted, or
\* does not fit into the inventory's bytes, changes nothing.
Receive(m) ==
  LET known == dev # NoDevice
      d == IF known THEN dev ELSE NewDevice
      e == Order(d, m)
      fences == Newer(d, m) \/ Changes(e, m)
      next == Merge(e, m)
      w == Fence(Work, "news", fences)
  IN /\ life \in {"starting", "running"} /\ boot # "loading"
     /\ known \/ m.kind # "Bye"
     /\ Accepts(d, m)
     /\ dev' = next
     /\ \E due \in Due(next) : SetWork(EnqueueIf(w, "device", due /\ life = "running"))
     /\ Bump(TRUE)
     /\ UNCHANGED <<life, boot, seed, world, crashes>>

-----------------------------------------------------------------------------
\* The inspector's report: what the device answered, if it did.
Reports ==
  {[kind |-> t, change |-> Len(points)] : t \in {"full"} \cup ({"denied", "conflict"} \cap scenario)}
  \cup {[kind |-> t, change |-> 0] : t \in IF "lost" \in scenario THEN {"timeout"} ELSE {}}
Inspect(k) ==
  /\ jobs[k].stage = "inspecting"
  /\ \E r \in IF life = "running" THEN Reports ELSE {NoReport} :
       jobs' = [jobs EXCEPT ![k].stage = "reported", ![k].report = r]
  /\ UNCHANGED <<life, boot, inventory, queue, store, world, crashes>>

\* commitInspection(): nothing of a superseded token or a quarantined identity;
\* a contradiction quarantines it.
CommitsAnyway(d, fenced) == ~d.identityConflict            \* variant: no fencing
Commits(d, fenced) == fenced = "no" /\ ~d.identityConflict
CommitInspection(d, report, k) ==
  CASE report.kind = "conflict" -> [d EXCEPT !.state = "conflict", !.identityConflict = TRUE]
    [] report.kind = "full" ->
         [d EXCEPT !.info = report.change, !.by = k, !.state = "verified"]
    [] OTHER -> d

\* liveness() and reconcile() of the inventory: what is overdue is stale; what
\* stayed silent for two rounds and the grace time has departed.
Reconciled(d) ==
  IF d = NoDevice \/ d.state \in {"conflict", "departed"} THEN {d}
  ELSE {[d EXCEPT !.state = s] :
          s \in {d.state} \cup (IF d.state = "suspect" THEN {} ELSE {"stale"})
                          \cup (IF "lost" \in scenario THEN {"departed"} ELSE {})}
Departs == dev'.state = "departed" /\ dev.state # "departed"

\* runInspection() of the device once its report is there.
CompleteDevice ==
  LET job == jobs["device"]
      commits == Commits(dev, job.fenced)
  IN /\ job.stage = "reported" /\ life = "running"
     /\ \/ commits /\ dev' \in Reconciled(CommitInspection(dev, job.report, "device"))
        \/ (~commits \/ "bytes" \in scenario) /\ dev' \in Reconciled(dev)
     /\ SetWork(Fence([Work EXCEPT !.jobs["device"].stage = "persisting",
                                   !.jobs["device"].report = NoReport], "departure", Departs))
     /\ UNCHANGED seed /\ Persist(dev' # dev)
     /\ UNCHANGED <<life, boot, world, crashes>>

\* inspectSeed(): the token is only taken when the report is there.  A report
\* of another identity than the provisioned one says nothing of this device.  The
\* seed's address also becomes an endpoint of the device (Reception.InspectSeed);
\* that voids no token, and here the device has an endpoint anyway.
CompleteSeed ==
  LET job == jobs["seed"]
      d == IF dev = NoDevice THEN NewDevice ELSE dev
      commits == Commits(d, "no")
      committed == CommitInspection(d, job.report, "seed")
      identified(fits) ==
        /\ dev' = IF commits /\ fits THEN committed ELSE d
        /\ seed' = (seed \/ (commits /\ fits /\ job.report.kind # "conflict"))
      begun(w) == SetWork(Fence(w, "seed", TRUE))
      done == [Work EXCEPT !.jobs["seed"].stage = "persisting", !.jobs["seed"].report = NoReport]
  IN /\ job.stage = "reported" /\ life = "running"
     /\ \/ /\ job.report.kind # "timeout" /\ begun(done)
           /\ \E fits \in {TRUE, "bytes" \notin scenario} : identified(fits)
        \/ /\ job.report.kind \in {"timeout", "conflict"}
           /\ UNCHANGED <<dev, seed>> /\ SetWork(done)
     /\ Persist(TRUE)
     /\ UNCHANGED <<life, boot, world, crashes>>

\* The end of a job in pump(): a superseded one is queued again.  A report that
\* comes after close() is dropped.
Finish(k) ==
  /\ \/ jobs[k].stage = "persisting" /\ saving # "writing"
     \/ jobs[k].stage = "reported" /\ life # "running"
  /\ LET w == [Work EXCEPT !.jobs[k] = NoJob]
     IN IF life = "running"
        THEN SetWork(Pump(EnqueueIf(w, k, jobs[k].requeue)))
        ELSE SetWork(w)
  /\ Bump(jobs'["device"] # jobs["device"])
  /\ UNCHANGED <<life, boot, inventory, world, crashes>>

-----------------------------------------------------------------------------
\* shutdown(), first part: the waiting jobs are resolved.
Shutdown ==
  /\ life' = "closing" /\ queue' = << >>
  /\ jobs' = [k \in Key |-> IF InFlight(Work, k) THEN jobs[k] ELSE NoJob]

\* The write of a snapshot ends, or fails with either content on the disk.  A
\* file that could not be read is never written (JsonFilePersistence).
SaveForgetful ==   \* variant: the revision is read again after the write
  /\ saving = "writing" /\ durable' = snap
  /\ saving' = "settled" /\ unsaved' = FALSE /\ snap' = NoContent /\ moved' = FALSE
  /\ UNCHANGED <<life, boot, inventory, work, world, crashes>>
Save ==
  /\ saving = "writing" /\ boot # "unread" /\ durable' = snap
  /\ IF moved THEN snap' = Content /\ moved' = FALSE /\ UNCHANGED <<saving, unsaved>>
              ELSE saving' = "settled" /\ unsaved' = FALSE /\ snap' = NoContent /\ UNCHANGED moved
  /\ UNCHANGED <<life, boot, inventory, work, world, crashes>>
SaveFails ==
  /\ "disk" \in scenario /\ saving = "writing"
  /\ durable' \in (IF boot = "unread" THEN {durable} ELSE {durable, snap}) /\ saving' = "settled"
  /\ boot' = IF boot = "saving" THEN "failed" ELSE boot
  /\ IF boot = "saving" /\ life = "running" THEN Shutdown
     ELSE life' = (IF life = "flushing" THEN "unflushed" ELSE life) /\ UNCHANGED work
  /\ snap' = NoContent /\ moved' = FALSE
  /\ UNCHANGED <<unsaved, inventory, world, crashes>>
SaveCleared ==
  /\ saving = "settled" /\ saving' = "none"
  /\ UNCHANGED <<life, boot, inventory, work, unsaved, snap, moved, durable, world, crashes>>

-----------------------------------------------------------------------------
\* reconcile() of the engine.
Reconcile ==
  /\ life = "running" /\ dev' \in Reconciled(dev)
  /\ \E due \in Due(dev') :
       LET w == Fence(Work, "departure", Departs)
           inspect == dev' # NoDevice /\ dev'.state # "departed" /\ due
       IN SetWork(EnqueueIf(EnqueueIf(w, "device", inspect), "seed", "seed" \in scenario /\ ~seed))
  /\ UNCHANGED seed /\ Persist(dev' # dev \/ jobs' # jobs)
  /\ UNCHANGED <<life, boot, world, crashes>>

\* initialize(): restore the snapshot; open the segments; save; then inspect
\* what is known.
Load ==
  /\ boot = "loading"
  /\ boot' = "opening" /\ dev' = durable.dev /\ seed' = durable.seed
  /\ UNCHANGED <<life, jobs, queue, store, world, crashes>>
LoadFails ==
  /\ "disk" \in scenario /\ boot = "loading" /\ boot' = "unread" /\ Shutdown
  /\ UNCHANGED <<inventory, store, world, crashes>>
Open ==
  /\ boot = "opening"
  /\ \/ life = "starting" /\ life' = "running" /\ boot' = "saving" /\ UNCHANGED <<inventory, work>>
        /\ Persist("seed" \in scenario)
     \/ "open" \in scenario /\ Shutdown /\ boot' = "failed" /\ UNCHANGED <<inventory, store>>
  /\ UNCHANGED <<world, crashes>>
Started ==
  /\ boot = "saving" /\ saving # "writing" /\ life = "running"
  /\ boot' = "done"
  /\ LET known == dev # NoDevice /\ dev.state # "departed"
     IN SetWork(EnqueueIf(EnqueueIf(Work, "device", known), "seed", "seed" \in scenario))
  /\ Bump(jobs' # jobs)
  /\ UNCHANGED <<life, inventory, world, crashes>>
StartCancelled ==
  /\ life = "closing" /\ boot \in {"opening", "saving"}
  /\ boot = "saving" => saving # "writing"
  /\ boot' = "failed"
  /\ UNCHANGED <<life, inventory, work, store, world, crashes>>

\* close() and shutdown(): the waiting jobs are resolved at once, the running
\* ones awaited, then the inventory is saved.
Close ==
  /\ "close" \in scenario /\ life \in {"starting", "running"} /\ Shutdown
  /\ UNCHANGED <<boot, inventory, store, world, crashes>>
Drained == /\ life = "closing" /\ boot \in {"done", "failed", "unread"} /\ saving # "settled"
           /\ \A k \in Key : jobs[k].stage = "none"
Flush ==
  /\ Drained
  /\ life' = "flushing" /\ UNCHANGED inventory /\ Persist(FALSE)
  /\ UNCHANGED <<boot, work, world, crashes>>
Closed ==
  /\ life \in {"flushing", "unflushed"} /\ saving # "writing"
  /\ life' = IF life = "flushing" THEN "closed" ELSE "failed"
  /\ UNCHANGED <<boot, inventory, work, store, world, crashes>>

\* The process dies and is started again on the same file.
Crash ==
  /\ "restart" \in scenario /\ crashes < MaxCrashes
  /\ crashes' = crashes + 1 /\ life' = "starting" /\ boot' = "loading"
  /\ dev' = NoDevice /\ seed' = FALSE
  /\ jobs' = [k \in Key |-> NoJob] /\ queue' = << >>
  /\ durable' \in IF saving = "writing" /\ boot # "unread" THEN {durable, snap} ELSE {durable}
  /\ unsaved' = TRUE /\ saving' = "none" /\ moved' = FALSE /\ snap' = NoContent
  /\ UNCHANGED world

-----------------------------------------------------------------------------
\* The device reboots, or changes its metadata.
Change ==
  /\ "change" \in scenario /\ Len(points) < MaxChanges
  /\ \E p \in {[instance |-> 1, version |-> 0], [instance |-> 0, version |-> 1]} :
       points' = Append(points, [instance |-> Last(points).instance + p.instance,
                                 version |-> Last(points).version + p.version])
  /\ UNCHANGED <<life, boot, inventory, work, store, scenario, crashes>>

DiscoveryNext ==
  \/ \E m \in Message : Receive(m)
  \/ \E k \in Key : Inspect(k) \/ Finish(k)
  \/ CompleteDevice \/ CompleteSeed
  \/ Save \/ SaveFails \/ SaveCleared
  \/ Reconcile \/ Load \/ LoadFails \/ Open \/ Started \/ StartCancelled
  \/ Close \/ Flush \/ Closed \/ Crash
  \/ Change

-----------------------------------------------------------------------------
\* What the inventory has been told of the device, as the number of its change:
\* every change raises InstanceId or MetadataVersion by one.  Without an
\* AppSequence only the MetadataVersion is known.
Told(d) == (IF d.instance = 0 THEN 1 ELSE d.instance) + d.version - 1

\* A device verified by its own inspection is described as of the newest
\* announcement accepted, or later: commitInspection() drops what an inspection
\* begun before a reboot or a new MetadataVersion reports, also when the report
\* arrives after the announcement, and after a restart from the snapshot.
VerifiedCurrent ==
  dev # NoDevice /\ dev.state = "verified" /\ dev.by = "device" => dev.info >= Told(dev)

\* An inspection that news of the device has superseded is run again (enqueue()
\* marks it), unless the engine is closing.
SupersededRequeued ==
  life = "running" /\ InFlight(Work, "device") /\ jobs["device"].fenced = "news"
  => jobs["device"].requeue

\* Inspections are current: what they verify, and what is inspected again.
InspectionsCurrent == VerifiedCurrent /\ SupersededRequeued

\* A quarantined identity stays in conflict whatever is announced or inspected
\* later, and the quarantine once saved is never lost from the snapshot.
Quarantined(d) == d # NoDevice /\ d.identityConflict
QuarantineLatched ==
  [][/\ (Quarantined(dev) /\ crashes' = crashes) => Quarantined(dev') /\ dev'.state = "conflict"
     /\ Quarantined(durable.dev) => Quarantined(durable'.dev)]_discoveryVars

\* The snapshot on disk never goes back: the device stays in it, InstanceId and
\* MetadataVersion never decrease, nor the message numbers of one instance, over
\* failed saves, crashes and restarts.
WatermarksDurable ==
  [][LET a == durable.dev
         b == durable'.dev
     IN a # NoDevice =>
          /\ b # NoDevice /\ a.instance <= b.instance /\ a.version <= b.version
          /\ a.instance = b.instance => \A s \in Sids : a.seqs[s].number <= b.seqs[s].number]_discoveryVars

\* Neither memory nor the snapshot forgets what protects the inventory from old
\* messages and from identities that contradicted themselves.
NothingForgotten == QuarantineLatched /\ WatermarksDurable

\* A revision counted as saved is the one on the disk, and an engine that closed
\* without an error has its whole inventory there.
Durable == ~unsaved \/ life = "closed" => durable = Content
=============================================================================
