------------------------------ MODULE Publisher ------------------------------
(***************************************************************************)
(* DirectoryPublisher (publication/publisher.ts) for one Thing: the        *)
(* registration kept in memory and in the durable state file, and the      *)
(* Directory entry it owns, over a network that may lose a request or its  *)
(* answer and with crashes between any two awaits.  pc is the await        *)
(* reconcileThing() is in.  A producer TD is abstracted to the observation *)
(* it was made from and whether it is marked stale: matchesProducer() and  *)
(* the digests compare exactly that.  Etags are numbers; time counts ticks,*)
(* Second of them to a second, the unit and the tolerance of a TTL.        *)
(***************************************************************************)
EXTENDS Integers, FiniteSetsExt

CONSTANTS Contracts,       \* the Directory contracts to consider
          TtlSeconds,      \* expiry.ttlSeconds
          FreshFor, GraceFor, RenewBefore,   \* the publication policy, in ticks
          Second,          \* ticks per second
          Faults,          \* the faults that may happen
          MaxClock, MaxRounds, MaxCrashes, MaxForeign   \* bounds

ASSUME PublisherAssumption ==
  /\ Contracts \subseteq SUBSET {"etag", "ttl", "patch"}
  /\ {TtlSeconds, FreshFor, GraceFor, RenewBefore, Second} \subseteq Nat \ {0}
  /\ {MaxClock, MaxRounds, MaxCrashes, MaxForeign} \subseteq Nat
  /\ Faults \subseteq {"net", "late", "disk"}

VARIABLES
  contract,               \* what the Directory agreed to; it never changes
  pc, job, seen,          \* the reconciliation: its await, its input, the entry it read
  mem, durable,           \* this.state and the state file
  remote, tag,            \* the Directory entry and the last etag given out
  wire, reply,            \* requests not served yet; the answer to the current one
  overtaken,              \* a request given up is on the wire, or was served since
  expired,                \* the entry expired between two requests of one reconciliation
  clock, latest,          \* time; the newest observation handed to reconcile()
  rounds, crashes, foreigners

work == <<pc, job, seen>>
directory == <<remote, tag>>
network == <<wire, reply, overtaken>>
bounds == <<contract, expired, clock, latest, rounds, crashes, foreigners>>
vars == <<work, mem, durable, directory, network, bounds>>

Etag == "etag" \in contract     \* ownership.mode is "etag", not "single-writer"
Ttl == "ttl" \in contract       \* expiry.mode is "registration-ttl"
Patch == "patch" \in contract   \* expiry.patch

Absent == -1          \* no candidate in the inventory
Unconfirmed == -2     \* a candidate that was not observed
Quarantined == -3     \* a candidate with an identity conflict

NoContent == [o |-> -2, stale |-> FALSE]
Foreign == [o |-> -1, stale |-> FALSE]
Content == [o : 0..MaxClock, stale : BOOLEAN]
NoJob == [candidate |-> Absent, now |-> 0]
NoEntry == [content |-> NoContent, etag |-> 0, expires |-> 0]
NoRegistration == [status |-> "none", producer |-> NoContent, intent |-> NoContent]

freshUntil(o) == o + FreshFor
retainUntil(o) == freshUntil(o) + GraceFor

Init ==
  /\ pc = "idle" /\ job = NoJob /\ seen = NoEntry
  /\ mem = NoRegistration /\ durable = NoRegistration
  /\ remote = NoEntry /\ tag = 0 /\ wire = {} /\ reply = "none"
  /\ contract \in Contracts /\ overtaken = FALSE /\ expired = FALSE
  /\ clock = 0 /\ latest = 0 /\ rounds = 0 /\ crashes = 0 /\ foreigners = 0

-----------------------------------------------------------------------------
\* The catch block of reconcileOwned(): the failure is recorded and persisted
\* when there is a registration.
Fail(kind) ==
  IF mem = NoRegistration
  THEN pc' = "ending" /\ UNCHANGED mem
  ELSE /\ pc' = "failing"
       /\ mem' = [mem EXCEPT !.status = IF kind = "conflict" THEN "conflict" ELSE @]

\* The head of the loop of reconcileOwned(), for a publication whose
\* inventoryRevision is not superseded.
Begin(c) ==
  /\ pc = "idle" /\ rounds < MaxRounds
  /\ rounds' = rounds + 1 /\ latest' = IF c >= 0 THEN c ELSE latest
  /\ job' = [candidate |-> c, now |-> clock]
  /\ pc' = IF \/ c = Quarantined \/ mem.status = "conflict"
              \/ c = Absent /\ mem.status \in {"none", "retired"}
           THEN "ending" ELSE "getting"
  /\ UNCHANGED <<seen, mem, durable, directory, network, contract, expired, clock, crashes,
                 foreigners>>

\* assertOwned()
OwnsAnything(content) == TRUE   \* variant: what is under the ID is taken to be ours
Owns(content) ==
  mem # NoRegistration /\ content \in {mem.producer, mem.intent} \ {NoContent}

\* The expiry the Directory gave respects the observation lease.
LeaseUnchecked(entry, o) == TRUE   \* variant: any acknowledged expiry is accepted
LeaseHonoured(entry, o) ==
  Ttl => entry.expires <= retainUntil(o) + Second /\ entry.expires > job.now

\* reconcileThing() up to the recovery of an intent whose write was applied
\* although its answer was not seen.
Get ==
  /\ pc = "getting"
  /\ seen' = remote
  /\ IF remote # NoEntry /\ ~Owns(remote.content) THEN Fail("conflict")
     ELSE IF remote = NoEntry \/ remote.content # mem.intent
     THEN pc' = "deciding" /\ UNCHANGED mem
     ELSE IF ~LeaseHonoured(remote, mem.intent.o) THEN Fail("failed")
     ELSE /\ pc' = "recovering"
          /\ mem' = [status |-> IF job.now < freshUntil(mem.intent.o) THEN "active" ELSE "stale",
                     producer |-> mem.intent, intent |-> NoContent]
  /\ UNCHANGED <<job, durable, directory, network, bounds>>

\* The ETag condition of a write, or its absence in the single-writer mode.
Create == -1
Condition(entry) == IF entry = NoEntry THEN Create ELSE IF Etag THEN entry.etag ELSE 0

\* retire() sends the DELETE, or has nothing to delete.
Retire ==
  IF seen # NoEntry
  THEN /\ wire' = wire \cup {[n |-> rounds, op |-> "DELETE", content |-> NoContent,
                              condition |-> Condition(seen), ttl |-> 0]}
       /\ pc' = "deleting" /\ UNCHANGED mem
  ELSE /\ IF mem = NoRegistration THEN pc' = "ending" /\ UNCHANGED mem
          ELSE pc' = "retiring" /\ mem' = [mem EXCEPT !.status = "retired", !.intent = NoContent]
       /\ UNCHANGED wire

Observation == IF job.candidate >= 0 THEN job.candidate ELSE mem.producer.o
Desired == [o |-> Observation,
            stale |-> job.candidate < 0 \/ job.now >= freshUntil(Observation)]
Settled == [mem EXCEPT !.status = IF Desired.stale THEN "stale" ELSE "active"]
Lease == Min({TtlSeconds, (retainUntil(Observation) - job.now) \div Second})
Representable == Ttl => Lease >= 1
NeedsContent == \/ seen = NoEntry \/ mem.producer # Desired
                \/ mem.status \in {"none", "pending", "retired"}
NeedsRenewal == Ttl /\ seen # NoEntry /\ seen.expires <= job.now + RenewBefore

\* The rest of reconcileThing() up to the write: retire, leave alone, or record
\* the intent.
Decide ==
  /\ pc = "deciding"
  /\ IF mem = NoRegistration /\ job.candidate < 0
     THEN pc' = "ending" /\ UNCHANGED <<mem, wire>>
     ELSE IF job.now >= retainUntil(Observation) THEN Retire
     ELSE /\ UNCHANGED wire
          /\ IF ~Representable
             THEN IF /\ mem # NoRegistration /\ seen # NoEntry
                     /\ seen.expires \in retainUntil(Observation)..(retainUntil(Observation) + Second)
                  THEN pc' = "ending" /\ mem' = Settled
                  ELSE Fail("failed")
             ELSE IF ~NeedsContent /\ ~NeedsRenewal
             THEN pc' = "ending" /\ mem' = Settled
             ELSE /\ pc' = "intending"
                  /\ mem' = IF mem = NoRegistration
                            THEN [status |-> "pending", producer |-> Desired, intent |-> Desired]
                            ELSE [mem EXCEPT !.intent = Desired]
  /\ UNCHANGED <<job, seen, durable, directory, reply, overtaken, bounds>>

\* put() with the merged TD, or renew() when only the lease has to move.
Send ==
  /\ pc = "sending"
  /\ pc' = "writing"
  /\ wire' = wire \cup
       {[n |-> rounds, op |-> IF NeedsContent \/ ~Ttl \/ ~Patch THEN "PUT" ELSE "PATCH",
         content |-> mem.intent, condition |-> Condition(seen), ttl |-> IF Ttl THEN Lease ELSE 0]}
  /\ UNCHANGED <<job, seen, mem, durable, directory, reply, overtaken, bounds>>

\* The answer to put(), renew() or delete().
AnswerDelete ==
  /\ pc = "deleting" /\ reply = "ok"
  /\ pc' = "retiring" /\ mem' = [mem EXCEPT !.status = "retired", !.intent = NoContent]
Answered ==
  /\ pc \in {"writing", "deleting"} /\ reply # "none"
  /\ reply' = "none"
  /\ \/ pc = "writing" /\ reply = "ok" /\ pc' = "reading" /\ UNCHANGED mem
     \/ AnswerDelete
     \/ reply # "ok" /\ Fail(reply)
  /\ UNCHANGED <<job, seen, durable, directory, wire, overtaken, bounds>>

\* A request that is still on the wire when the publisher goes on: it may be
\* served at any later time.
Overtake == /\ "late" \in Faults \/ wire = {}
            /\ overtaken' = (overtaken \/ wire # {})

\* A transport failure or timeout; the outcome of a write is then unknown.
Loses ==
  /\ "net" \in Faults /\ pc \in {"getting", "reading", "writing", "deleting"}
  /\ Overtake
  /\ Fail("failed") /\ reply' = "none"
  /\ UNCHANGED <<job, seen, durable, directory, wire, bounds>>

\* The read-back after a write, and the confirmation of the intent.
ReadBack ==
  /\ pc = "reading"
  /\ seen' = remote
  /\ IF remote = NoEntry \/ remote.content # mem.intent THEN Fail("conflict")
     ELSE IF ~LeaseHonoured(remote, mem.intent.o) THEN Fail("failed")
     ELSE /\ pc' = "confirming"
          /\ mem' = [status |-> IF mem.intent.stale THEN "stale" ELSE "active",
                     producer |-> mem.intent, intent |-> NoContent]
  /\ UNCHANGED <<job, durable, directory, network, bounds>>

\* persist(), awaited at seven places.
After == [recovering |-> "deciding", intending |-> "sending", confirming |-> "ending",
          retiring |-> "ending", failing |-> "ending", ending |-> "idle"]
Locals ==   \* job and seen are local to the reconciliation
  IF pc' \in {"idle", "down"} THEN job' = NoJob /\ seen' = NoEntry ELSE UNCHANGED <<job, seen>>
PersistIntentSkipped ==   \* variant: the intent is saved with the confirmation only
  /\ pc \in DOMAIN After
  /\ pc' = After[pc] /\ durable' = IF pc = "intending" THEN durable ELSE mem
  /\ Locals
  /\ UNCHANGED <<mem, directory, network, bounds>>
Persist ==
  /\ pc \in DOMAIN After
  /\ pc' = After[pc] /\ durable' = mem
  /\ Locals
  /\ UNCHANGED <<mem, directory, network, bounds>>
PersistFails ==
  /\ "disk" \in Faults /\ pc \in DOMAIN After
  /\ durable' \in {durable, mem}
  /\ IF pc \in {"failing", "ending"} THEN pc' = "idle" /\ UNCHANGED mem ELSE Fail("failed")
  /\ Locals
  /\ UNCHANGED <<directory, network, bounds>>

\* The process dies; start() loads the state file.
Crash ==
  /\ pc # "down" /\ crashes < MaxCrashes
  /\ pc' = "down" /\ mem' = NoRegistration /\ reply' = "none" /\ crashes' = crashes + 1
  /\ Locals
  /\ UNCHANGED <<durable, directory, wire, overtaken, contract, expired, clock, latest, rounds,
                 foreigners>>
Start ==
  /\ pc = "down" /\ Overtake
  /\ pc' = "idle" /\ mem' = durable
  /\ UNCHANGED <<job, seen, durable, directory, wire, reply, bounds>>

-----------------------------------------------------------------------------
\* The Directory serves a request under its condition.
Satisfied(req) == CASE req.condition = Create -> Etag => remote = NoEntry
                    [] req.condition = 0      -> TRUE
                    [] OTHER                  -> remote # NoEntry /\ remote.etag = req.condition

Written(req) ==
  LET expires == IF Ttl THEN clock + req.ttl * Second ELSE 0
  IN /\ tag' = tag + 1
     /\ remote' = [content |-> IF req.op = "PUT" THEN req.content ELSE remote.content,
                   etag |-> tag + 1, expires |-> expires]

Outcome(req) ==
  CASE req.op = "PUT" /\ Satisfied(req) ->
         Written(req)
         /\ reply' = IF (req.condition = Create) = (remote = NoEntry) THEN "ok" ELSE "conflict"
    [] req.op = "PATCH" /\ remote = NoEntry -> reply' = "failed" /\ UNCHANGED directory
    [] req.op = "PATCH" /\ remote # NoEntry /\ Satisfied(req) -> Written(req) /\ reply' = "ok"
    [] req.op = "DELETE" /\ remote = NoEntry ->     \* 404, or 412 for If-Match
         reply' \in {"ok"} \cup (IF Etag THEN {"conflict"} ELSE {}) /\ UNCHANGED directory
    [] req.op = "DELETE" /\ remote # NoEntry /\ Satisfied(req) ->
         remote' = NoEntry /\ UNCHANGED tag /\ reply' = "ok"
    [] OTHER -> reply' = "conflict" /\ UNCHANGED directory

\* A request of an earlier reconciliation, or of a process that died, is served
\* all the same; nobody sees its answer.
Serve(req) ==
  /\ wire' = wire \ {req}
  /\ IF req.n = rounds /\ pc \in {"writing", "deleting"}
     THEN Outcome(req)
     ELSE /\ UNCHANGED reply
          /\ CASE req.op \in {"PUT", "PATCH"} /\ Satisfied(req)
                    /\ (req.op = "PATCH" => remote # NoEntry) -> Written(req)
               [] req.op = "DELETE" /\ Satisfied(req) -> remote' = NoEntry /\ UNCHANGED tag
               [] OTHER -> UNCHANGED directory
  /\ UNCHANGED <<work, mem, durable, overtaken, bounds>>
Drop(req) ==
  /\ "net" \in Faults
  /\ wire' = wire \ {req}
  /\ UNCHANGED <<work, mem, durable, directory, reply, overtaken, bounds>>

\* The entry is what a later request of the same reconciliation relies on: it
\* was read and is to be replaced or deleted, or was written and is to be read.
InUse == \/ pc \in {"writing", "reading"}
         \/ pc \in {"recovering", "deciding", "intending", "sending", "deleting"} /\ seen # NoEntry

\* The Directory purges an expired registration; another client writes or
\* deletes the entry, which the single-writer contract excludes.
Purge ==
  /\ Ttl /\ remote # NoEntry /\ remote.content # Foreign /\ remote.expires <= clock
  /\ remote' = NoEntry /\ expired' = (expired \/ InUse)
  /\ UNCHANGED <<work, mem, durable, tag, network, contract, clock, latest, rounds, crashes,
                 foreigners>>
OtherClient ==
  /\ Etag /\ foreigners < MaxForeign /\ foreigners' = foreigners + 1
  /\ \/ remote # NoEntry /\ remote' = NoEntry /\ UNCHANGED tag
     \/ remote' = [content |-> Foreign, etag |-> tag + 1, expires |-> 0] /\ tag' = tag + 1
  /\ UNCHANGED <<work, mem, durable, network, contract, expired, clock, latest, rounds, crashes>>
Tick ==
  /\ clock < MaxClock /\ clock' = clock + 1
  /\ UNCHANGED <<work, mem, durable, directory, network, contract, expired, latest, rounds,
                 crashes, foreigners>>

Next ==
  \/ \E c \in {Absent, Unconfirmed, Quarantined} \cup latest..clock : Begin(c)
  \/ Get \/ Decide \/ Send \/ Answered \/ Loses \/ ReadBack \/ Persist \/ PersistFails
  \/ Crash \/ Start
  \/ \E req \in wire : Serve(req) \/ Drop(req)
  \/ Purge \/ OtherClient \/ Tick

Spec == Init /\ [][Next]_vars

-----------------------------------------------------------------------------
Ours == remote # NoEntry /\ remote.content # Foreign

\* assertOwned() and the conditions of the writes: a request of the publisher,
\* however late, never replaces or deletes an entry that another client wrote.
ForeignUntouched ==
  [][(remote # NoEntry /\ remote.content = Foreign /\ remote' # remote) => wire' = wire]_vars

\* persist() before put(): whenever the Directory holds an entry the publisher
\* wrote, the state file knows its content, so a crash at any moment leaves an
\* entry that assertOwned() recognises after the restart.  A write that is served
\* after the publisher gave it up is the exception.
DurablyOwned ==
  (Ours /\ ~overtaken) => remote.content \in {durable.producer, durable.intent}

\* retire(): a registration that is retired with no write begun since has left
\* no entry behind, which nothing would ever delete.
RetiredGone ==
  (durable.status = "retired" /\ durable.intent = NoContent /\ ~overtaken) => ~Ours

\* The lease checks: a confirmed registration expires with the observation
\* lease, never later than the tolerance of a second.
ConfirmedLease ==
  (/\ Ttl /\ Ours /\ ~overtaken
   /\ durable.status \in {"active", "stale"} /\ durable.intent = NoContent)
    => remote.expires <= retainUntil(durable.producer.o) + Second

\* What the publisher left in the Directory ends: with retire(), or with the
\* lease of the observation.
EntriesEnd == RetiredGone /\ ConfirmedLease

\* Quarantine, which nothing leaves, is not caused by lost answers, failed saves
\* or crashes: the publisher gives up an ID only after another client changed the
\* entry, a request it had given up was on the wire, or its own registration
\* expired between two requests of one reconciliation.  The last is the
\* publisher's own doing: the conditional write then fails with a 412 (or the
\* unconditional one creates), or the read-back finds nothing, and the code takes
\* each for the change of an unknown producer.  An expiry at any other time is
\* not a reason.
QuarantineJustified ==
  (mem.status = "conflict" \/ durable.status = "conflict")
    => foreigners > 0 \/ overtaken \/ expired

\* assertOwned() tells its own entries from others' in both directions: what the
\* publisher wrote is recognised, and a conflict has one of the three causes above.
OwnershipRecognised == DurablyOwned /\ QuarantineJustified
=============================================================================
