------------------------------- MODULE Gateway -------------------------------
(***************************************************************************)
(* OnvifBridge (bridge.ts): start, refresh and close over a discovery      *)
(* engine and a publisher, and in file mode what they leave on disk:       *)
(* FilePublication and StaticModelPublisher (models.ts) write two          *)
(* OwnedDocumentBundles (files.ts), each guarded by the manifest and the   *)
(* lock file of an OwnedJsonFile.  The process may crash between any two   *)
(* awaits, a write may fail before or after its rename, and somebody else  *)
(* may edit a document.  In directory mode starting the publisher is the   *)
(* preflight of DirectoryClient, and a reconciliation is Publisher seen    *)
(* from outside.                                                           *)
(*                                                                         *)
(* A publication is its inventory revision; a hash is the revision that    *)
(* first had the content, 0 stands for no file and Edited for a content    *)
(* the gateway did not write.                                              *)
(***************************************************************************)
EXTENDS DirectoryClient

CONSTANTS Modes,             \* pairs of an input and an output mode to consider
          MaxRevision, MaxLaunches, MaxFaults   \* bounds

ASSUME GatewayAssumption ==
  /\ {MaxRevision, MaxLaunches, MaxFaults} \subseteq Nat
  /\ Modes \subseteq SUBSET {"fixture", "discover", "file", "directory"}

VARIABLES
  mode,         \* {input.mode, output.mode}
  life,         \* OnvifBridge.lifecycle
  starting,     \* start(): "none", "publisher", "engine", "publishing", "cleaning", "done", "failed"
  closing,      \* close(): "none", "engine", "publisher", "bundles", "closed"
  engine,       \* "none", "running", "closed"
  job,          \* the publications in flight: the initial one and a refresh
  published,    \* the newest inventory revision handed to publish()
  disk,         \* the documents
  manifest,     \* onvif-bundle-manifest.json of each bundle
  locked,       \* the bundles with a lock file
  entries,      \* OwnedDocumentBundle.current of each bundle
  known,        \* the manifest on disk is the one this process wrote or read
  opened,       \* OwnedJsonFile.opening: "none", "open", "failed"
  orphaned,     \* documents whose write was cut off before their manifest entry
  launches, faults

bridge == <<mode, life, starting, closing, engine>>
files == <<disk, manifest, locked, orphaned>>
memory == <<entries, known, opened>>
counts == <<launches, faults>>
gatewayVars == <<bridge, job, published, files, memory, counts>>
vars == <<directoryVars, gatewayVars>>

Docs == {"m1", "m2", "t1", "t2", "index"}
Owned == {"models", "things", "state"}     \* the files with a lock
BundleOf(d) == IF d \in {"m1", "m2"} THEN "models" ELSE "things"
Edited == -1
Things(v) == IF v = 1 THEN <<"t1", "t2">> ELSE <<"t1">>
ModelOf(v) == IF v = 1 THEN "m1" ELSE "m2"
\* What publishOwned() writes: the models of the publication, then its Things and
\* last the index that names them.
Documents(b, v) == IF b = "models" THEN <<ModelOf(v)>> ELSE Append(Things(v), "index")
Hash(d, v) == IF d \in {"t1", "index"} THEN v ELSE 1

NoFiles == [d \in Docs |-> 0]
NoJob == [stage |-> "idle", bundle |-> "models", rev |-> 0, left |-> <<>>]
Slots == {"initial", "refresh"}

Init ==
  /\ mode \in Modes
  /\ IF "directory" \in mode THEN DirectoryInit
     ELSE /\ agreed = {} /\ flaws = {} /\ collection = {} /\ revision = 0 /\ probe = Nothing
          /\ at = "idle" /\ list = NoList /\ attempt = 0 /\ current = Nothing /\ stale = 0
          /\ created = FALSE /\ changes = 0 /\ losses = 0
  /\ life = "new" /\ starting = "none" /\ closing = "none" /\ engine = "none"
  /\ job = [s \in Slots |-> NoJob] /\ published = 0
  /\ disk = NoFiles /\ manifest = [b \in Owned |-> NoFiles] /\ locked = {} /\ orphaned = {}
  /\ entries = [b \in Owned |-> NoFiles] /\ known = [b \in Owned |-> FALSE]
  /\ opened = [b \in Owned |-> "none"] /\ launches = 0 /\ faults = 0

-----------------------------------------------------------------------------
\* OwnedJsonFile.initialize(): the lock file is created exclusively; one that a
\* crash left behind fails this file for good.
Lock(b) ==
  IF b \in locked
  THEN opened' = [opened EXCEPT ![b] = "failed"] /\ UNCHANGED <<locked, entries, known>>
  ELSE /\ opened' = [opened EXCEPT ![b] = "open"] /\ locked' = locked \cup {b}
       /\ entries' = [entries EXCEPT ![b] = manifest[b]] /\ known' = [known EXCEPT ![b] = TRUE]

\* The catch of start(): "failed", and then close(), whose body runs at once
\* unless somebody has called it before.
StartFails ==
  /\ starting' = "cleaning"
  /\ life' = IF closing = "none" THEN "closing" ELSE "failed"
  /\ closing' = IF closing = "none" THEN "engine" ELSE closing
  /\ UNCHANGED engine
Cleaned ==
  /\ starting = "cleaning" /\ closing = "closed" /\ starting' = "failed"
  /\ UNCHANGED <<directoryVars, mode, life, closing, engine, job, published, files, memory, counts>>

\* start() up to its first await: the publisher, in directory mode, or the engine.
Engage == engine' = IF "discover" \in mode THEN "running" ELSE engine
Start ==
  /\ life = "new" /\ starting = "none" /\ closing = "none"
  /\ IF "directory" \in mode
     THEN /\ Lock("state")
          /\ IF opened'["state"] = "open"
             THEN starting' = "publisher" /\ life' = "starting" /\ Preflight /\ UNCHANGED <<closing, engine>>
             ELSE StartFails /\ UNCHANGED directoryVars
     ELSE /\ starting' = "engine" /\ life' = "starting" /\ Engage
          /\ UNCHANGED <<directoryVars, closing, locked, memory>>
  /\ UNCHANGED <<mode, job, published, disk, manifest, orphaned, counts>>
OpenUnchecked == TRUE   \* variant: assertOpen() is not called between the awaits
Open == closing = "none"
PublisherStarted ==
  /\ starting = "publisher" /\ at \in Ended
  /\ IF at = "passed" /\ Open THEN starting' = "engine" /\ Engage /\ UNCHANGED <<life, closing>>
     ELSE StartFails
  /\ UNCHANGED <<directoryVars, mode, job, published, files, memory, counts>>

Publication(v) == IF "directory" \in mode THEN [NoJob EXCEPT !.stage = "reconcile", !.rev = v]
                  ELSE [stage |-> "begin", bundle |-> "models", rev |-> v, left |-> Documents("models", v)]
Revisions == (published..MaxRevision) \ {0}
\* engine.start() and whenIdle() end; the first publication is part of start(),
\* but the bridge counts as running already.
EngineStarted ==
  /\ starting = "engine"
  /\ \/ StartFails /\ UNCHANGED <<job, published>>
     \/ /\ Open /\ starting' = "publishing" /\ life' = "running" /\ UNCHANGED <<closing, engine>>
        /\ \E v \in Revisions : published' = v /\ job' = [job EXCEPT !["initial"] = Publication(v)]
  /\ UNCHANGED <<directoryVars, mode, files, memory, counts>>
\* reconcile(), directly or at the end of refresh().
Reconcile ==
  /\ life = "running" /\ job["refresh"] = NoJob
  /\ "directory" \in mode => job["initial"] = NoJob
  /\ \E v \in Revisions : published' = v /\ job' = [job EXCEPT !["refresh"] = Publication(v)]
  /\ UNCHANGED <<directoryVars, bridge, files, memory, counts>>

\* A publication settles; the initial one settles start().
Settle(s, ok) ==
  /\ job' = [job EXCEPT ![s] = NoJob]
  /\ IF s = "refresh" THEN UNCHANGED <<life, starting, closing, engine>>
     ELSE IF ok THEN starting' = "done" /\ UNCHANGED <<life, closing, engine>>
     ELSE StartFails
Reconciled(s) ==
  /\ job[s].stage = "reconcile" /\ \E ok \in BOOLEAN : Settle(s, ok)
  /\ UNCHANGED <<directoryVars, mode, published, files, memory, counts>>

-----------------------------------------------------------------------------
\* OwnedDocumentBundle.write(): one batch at a time.
Busy(s) == \E o \in Slots \ {s} : job[o].stage \in {"check", "write", "save"} /\ job[o].bundle = job[s].bundle
Begin(s) ==
  LET b == job[s].bundle IN
  /\ job[s].stage = "begin"
  /\ IF Busy(s) THEN UNCHANGED <<locked, memory>>
     ELSE IF opened[b] = "none" THEN Lock(b) ELSE UNCHANGED <<locked, memory>>
  /\ IF Busy(s) \/ opened'[b] = "failed" THEN Settle(s, FALSE)
     ELSE job' = [job EXCEPT ![s].stage = "check"] /\ UNCHANGED <<life, starting, closing, engine>>
  /\ UNCHANGED <<directoryVars, mode, published, disk, manifest, orphaned, counts>>
\* writeBatch(): the manifest and the document must be as this bundle left them.
Check(s) ==
  LET b == job[s].bundle  d == Head(job[s].left)  h == Hash(d, job[s].rev) IN
  /\ job[s].stage = "check"
  /\ IF ~known[b] \/ disk[d] \notin {0, entries[b][d]} THEN Settle(s, FALSE) /\ UNCHANGED entries
     ELSE /\ job' = [job EXCEPT ![s].stage = IF disk[d] = h THEN "save" ELSE "write"]
          /\ entries' = IF disk[d] = h THEN [entries EXCEPT ![b][d] = h] ELSE entries
          /\ UNCHANGED <<life, starting, closing, engine>>
  /\ UNCHANGED <<directoryVars, mode, published, files, known, opened, counts>>
\* atomicJson() of the document.
WriteDocument(s) ==
  LET b == job[s].bundle  d == Head(job[s].left)  h == Hash(d, job[s].rev) IN
  /\ job[s].stage = "write"
  /\ disk' = [disk EXCEPT ![d] = h] /\ entries' = [entries EXCEPT ![b][d] = h]
  /\ job' = [job EXCEPT ![s].stage = "save"]
  /\ UNCHANGED <<directoryVars, bridge, published, manifest, locked, orphaned, known, opened, counts>>
\* It fails: before the rename nothing has changed, after it the document has.
WriteFails(s) ==
  LET d == Head(job[s].left) IN
  /\ job[s].stage = "write" /\ faults < MaxFaults /\ faults' = faults + 1
  /\ \/ UNCHANGED <<disk, orphaned>>
     \/ disk' = [disk EXCEPT ![d] = Hash(d, job[s].rev)] /\ orphaned' = orphaned \cup {d}
  /\ Settle(s, FALSE)
  /\ UNCHANGED <<directoryVars, mode, published, manifest, locked, memory, launches>>

\* manifest.save(), which verifies its own file once more; then the next document.
Recorded(b) == orphaned \ {d \in Docs : BundleOf(d) = b /\ manifest'[b][d] = disk[d]}
Advance(s) ==
  LET rest == Tail(job[s].left) IN
  IF rest # <<>> THEN job' = [job EXCEPT ![s].left = rest, ![s].stage = "check"]
                      /\ UNCHANGED <<life, starting, closing, engine>>
  ELSE IF job[s].bundle = "models"
  THEN job' = [job EXCEPT ![s].left = rest, ![s].stage = "hosted"] /\ UNCHANGED <<life, starting, closing, engine>>
  ELSE Settle(s, TRUE)
SaveLast(s) ==   \* variant: one save for the whole batch
  LET b == job[s].bundle IN
  /\ job[s].stage = "save"
  /\ manifest' = IF Tail(job[s].left) = <<>> THEN [manifest EXCEPT ![b] = entries[b]] ELSE manifest
  /\ orphaned' = Recorded(b) /\ Advance(s)
  /\ UNCHANGED <<directoryVars, mode, published, disk, locked, memory, counts>>
Save(s) ==
  LET b == job[s].bundle IN
  /\ job[s].stage = "save"
  /\ manifest' = [manifest EXCEPT ![b] = entries[b]] /\ orphaned' = Recorded(b) /\ Advance(s)
  /\ UNCHANGED <<directoryVars, mode, published, disk, locked, memory, counts>>
SaveFails(s) ==
  LET b == job[s].bundle  d == Head(job[s].left) IN
  /\ job[s].stage = "save" /\ faults < MaxFaults /\ faults' = faults + 1
  /\ \/ UNCHANGED <<manifest, known>> /\ orphaned' = IF manifest[b][d] = disk[d] THEN orphaned ELSE orphaned \cup {d}
     \/ /\ manifest' = [manifest EXCEPT ![b] = entries[b]] /\ known' = [known EXCEPT ![b] = FALSE]
        /\ orphaned' = Recorded(b)
  /\ Settle(s, FALSE)
  /\ UNCHANGED <<directoryVars, mode, published, disk, locked, entries, opened, launches>>
\* publishOwned() of the models: every document the Things need is served with
\* the digest that was written, or the Things are not written.
Hosted(s) ==
  /\ job[s].stage = "hosted"
  /\ \/ Settle(s, FALSE)
     \/ /\ job' = [job EXCEPT ![s] = [stage |-> "begin", bundle |-> "things", rev |-> @.rev,
                                      left |-> Documents("things", @.rev)]]
        /\ UNCHANGED <<life, starting, closing, engine>>
  /\ UNCHANGED <<directoryVars, mode, published, files, memory, counts>>

-----------------------------------------------------------------------------
\* close(): the engine and the refresh, then the publisher, which waits for the
\* publications it has and unlocks its files.
Close ==
  /\ closing = "none" /\ closing' = "engine" /\ life' = "closing"
  /\ UNCHANGED <<directoryVars, mode, starting, engine, job, published, files, memory, counts>>
EngineClosed ==
  /\ closing = "engine" /\ job["refresh"] = NoJob
  /\ closing' = "publisher" /\ engine' = IF engine = "running" THEN "closed" ELSE engine
  /\ UNCHANGED <<directoryVars, mode, life, starting, job, published, files, memory, counts>>
PublisherClosedAfterStart ==   \* variant: close() also waits for start(), which waits for close()
  /\ closing = "publisher" /\ job["initial"] = NoJob /\ starting \in {"none", "done", "failed"}
  /\ closing' = "closed" /\ life' = "closed"
  /\ locked' = {b \in locked : opened[b] # "open"}
  /\ UNCHANGED <<directoryVars, mode, starting, engine, job, published, disk, manifest, orphaned, memory, counts>>
PublisherClosed ==
  /\ closing = "publisher" /\ job["initial"] = NoJob /\ at \in Ended \cup {"idle"}
  /\ closing' = "closed" /\ life' = "closed"
  /\ locked' = {b \in locked : opened[b] # "open"}
  /\ UNCHANGED <<directoryVars, mode, starting, engine, job, published, disk, manifest, orphaned, memory, counts>>

\* The process ends, in the middle of anything or after close(), and is started
\* again; an operator may remove the locks of a process that crashed.
Forgotten ==
  /\ launches < MaxLaunches /\ launches' = launches + 1
  /\ life' = "new" /\ starting' = "none" /\ closing' = "none" /\ engine' = "none"
  /\ job' = [s \in Slots |-> NoJob] /\ opened' = [b \in Owned |-> "none"]
  /\ entries' = [b \in Owned |-> NoFiles] /\ known' = [b \in Owned |-> FALSE]
  /\ at' = "idle" /\ list' = NoList /\ attempt' = 0 /\ current' = Nothing /\ stale' = 0 /\ created' = FALSE
  /\ UNCHANGED <<agreed, flaws, collection, revision, probe, changes, mode, published, disk, manifest, faults>>
Crash ==
  /\ Forgotten
  /\ losses' = IF at \in Ended \cup {"idle"} THEN losses ELSE losses + 1
  /\ orphaned' = orphaned \cup
       {Head(job[s].left) : s \in {x \in Slots : job[x].stage = "save"
           /\ manifest[job[x].bundle][Head(job[x].left)] # disk[Head(job[x].left)]}}
  /\ locked' \in {locked, {}}
Relaunch ==
  /\ closing = "closed" /\ starting \in {"none", "done", "failed"} /\ Forgotten
  /\ UNCHANGED <<locked, orphaned, losses>>
\* Somebody else changes a document.
Edit ==
  /\ faults < MaxFaults /\ faults' = faults + 1
  /\ \E d \in {x \in Docs : disk[x] # 0} : disk' = [disk EXCEPT ![d] = Edited]
  /\ UNCHANGED <<directoryVars, bridge, job, published, manifest, locked, orphaned, memory, launches>>

Batch(s) == \/ Begin(s) \/ Check(s) \/ WriteDocument(s) \/ WriteFails(s) \/ Save(s) \/ SaveFails(s) \/ Hosted(s)
            \/ Reconciled(s)
Lifecycle == PublisherStarted \/ EngineStarted \/ Cleaned \/ EngineClosed \/ PublisherClosed
Directory == Request /\ UNCHANGED gatewayVars
Next == \/ Start \/ Reconcile \/ Close \/ Crash \/ Relaunch \/ Edit
        \/ Lifecycle \/ Directory \/ (\E s \in Slots : Batch(s))
        \/ "directory" \in mode /\ Others /\ UNCHANGED gatewayVars

Spec == Init /\ [][Next]_vars
\* Every await of the bridge, of a publication and of the preflight ends.
FairSpec == Spec /\ WF_vars(Lifecycle) /\ WF_vars(Directory) /\ \A s \in Slots : WF_vars(Batch(s))

-----------------------------------------------------------------------------
\* What inventory-publication.json names exists: each Thing and the model it
\* is typed by were written before the index, through any crash and any failure.
IndexBacked ==
  \A v \in 1..MaxRevision : disk["index"] = v =>
    disk[ModelOf(v)] # 0 /\ \A i \in DOMAIN Things(v) : disk[Things(v)[i]] # 0

\* The manifest on disk describes every document the gateway has written, also
\* when a batch was given up half-way, so that a later process may replace it.
\* Only a write that was cut off between its two renames leaves a document that
\* the gateway will refuse as if it were not its own.
ManifestComplete ==
  \A d \in Docs \ orphaned :
    \/ disk[d] \in {0, Edited, manifest[BundleOf(d)][d]}
    \/ \E s \in Slots : job[s].stage = "save" /\ Head(job[s].left) = d

\* What the gateway leaves on disk is consistent at every moment: the index with
\* the documents it names, the manifest with the documents written (files.ts).
FilesConsistent == IndexBacked /\ ManifestComplete

\* Both targets of publication are what the gateway takes them for.
TargetsBelieved == DirectoryBelieved /\ FilesConsistent

\* Nothing outlives close(): no engine, no publication, no preflight and no lock
\* of this process, also when close() overtakes start() or start() fails.
NothingAfterClose ==
  closing = "closed" =>
    /\ engine # "running" /\ \A s \in Slots : job[s] = NoJob
    /\ at \in Ended \cup {"idle"} /\ \A b \in locked : opened[b] # "open"

\* start() and close() settle although each waits for the other's work.
BridgeSettles ==
  /\ (starting \in {"publisher", "engine", "publishing", "cleaning"}) ~> (starting \in {"none", "done", "failed"})
  /\ (closing # "none") ~> (closing \in {"none", "closed"})
=============================================================================
