--------------------------- MODULE PublisherProofs ---------------------------
(***************************************************************************)
(* For every contract, policy, bound and set of faults, the publisher      *)
(* never touches an entry that another client wrote, recognises every      *)
(* entry of its own after any crash, quarantines an ID only after another  *)
(* client's change, a request given up or an expiry under a request, and   *)
(* leaves nothing behind that retire() or the lease would not end.         *)
(***************************************************************************)
EXTENDS Publisher, TLAPS

Awaits == {"idle", "getting", "recovering", "deciding", "intending", "sending", "writing",
           "reading", "confirming", "deleting", "retiring", "failing", "ending", "down"}
Registration == {NoRegistration}
  \cup [status : {"pending", "active", "stale", "conflict", "retired"},
        producer : Content, intent : Content \cup {NoContent}]
IsEntry(entry) ==
  entry = NoEntry \/ (entry.content \in Content \cup {Foreign} /\ entry.etag \in 1..tag)

PublisherTypeOK ==
  /\ pc \in Awaits /\ reply \in {"none", "ok", "failed", "conflict"}
  /\ mem \in Registration /\ durable \in Registration
  /\ tag \in Nat /\ foreigners \in Nat /\ expired \in BOOLEAN
  /\ clock \in 0..MaxClock /\ latest \in 0..MaxClock
  /\ job.candidate \in {Absent, Unconfirmed, Quarantined} \cup 0..MaxClock
  /\ IsEntry(seen) /\ IsEntry(remote)
  /\ \A req \in wire : /\ req.op \in {"PUT", "PATCH", "DELETE"}
                       /\ req.op = "PUT" => req.content \in Content

\* Which awaits have a registration, an intent, an entry to act on.
Registered ==
  /\ pc \in {"intending", "sending", "writing", "reading"} =>
       mem # NoRegistration /\ mem.intent \in Content
  /\ pc \in {"recovering", "deciding", "deleting"} /\ seen # NoEntry => mem # NoRegistration
  /\ pc = "deleting" => seen # NoEntry
  /\ pc \notin {"writing", "deleting"} => reply = "none"

\* The etag of an entry the publisher recognised is never the etag of a foreign
\* one, however late a request with that condition is served.
NotForeign(etag) == remote # NoEntry /\ remote.etag = etag => remote.content # Foreign
Conditional ==
  /\ ~Etag \/ foreigners = 0 => remote.content # Foreign
  /\ Etag => \A req \in wire :
       req.condition = Create \/ (req.condition \in 1..tag /\ NotForeign(req.condition))
  /\ Etag /\ pc \in {"recovering", "deciding", "intending", "sending"} /\ seen # NoEntry =>
       NotForeign(seen.etag)

\* While no request is out of sight: at most one request is on the wire, it is
\* the one the publisher awaits, and its intent is in the state file.
InSight ==
  ~overtaken =>
    /\ pc \notin {"writing", "deleting", "down"} => wire = {}
    /\ reply # "none" => wire = {}
    /\ \A a, b \in wire : a = b
    /\ pc \in {"sending", "writing"} => durable = mem
    /\ \A req \in wire :
         /\ req.op = "PUT" => req.content \in {durable.producer, durable.intent}
         /\ pc \in {"writing", "deleting"} => req.n = rounds /\ req.condition = Condition(seen)
         /\ pc = "writing" => req.op \in {"PUT", "PATCH"} /\ req.content = mem.intent
         /\ pc = "deleting" => req.op = "DELETE"

\* What the Directory holds of the publisher is known to the state file and, of
\* a running process, to memory; once the intent of an earlier write has been
\* settled, it is what memory calls confirmed.
Known ==
  ~overtaken /\ Ours =>
    /\ remote.content \in {durable.producer, durable.intent}
    /\ pc # "down" => remote.content \in {mem.producer, mem.intent}
    /\ pc \in {"recovering", "deciding", "deleting"} => remote.content = mem.producer

\* While nobody else changes the entry, it is the one that was read until the
\* write is served, and the written one from then on.
Quiet == ~overtaken /\ ~expired /\ foreigners = 0
Undisturbed ==
  Quiet =>
    /\ pc \in {"recovering", "deciding", "intending", "sending"} => remote = seen
    /\ pc \in {"writing", "deleting"} /\ wire # {} => remote = seen
    /\ pc = "reading" \/ (pc = "writing" /\ reply = "ok") =>
         remote # NoEntry /\ remote.content = mem.intent
    /\ reply # "conflict" /\ mem.status # "conflict" /\ durable.status # "conflict"

\* A renewal without content goes out only while the entry is the one that was
\* read with the document that is wanted, so that it leaves just that document.
Renewal ==
  Quiet =>
    /\ pc \in {"intending", "sending"} =>
         mem.intent = Desired /\ (seen # NoEntry => seen.content = mem.producer)
    /\ pc = "writing" => \A req \in wire :
         req.op = "PATCH" => seen # NoEntry /\ seen.content = mem.intent

\* The inductive invariant, together with Renewal.
IInv == /\ PublisherTypeOK /\ Registered /\ Conditional
        /\ InSight /\ Known /\ Undisturbed

-----------------------------------------------------------------------------
\* A document the publisher made is told from a foreign one and from none.
LEMMA ContentDistinct == NoContent \notin Content /\ Foreign \notin Content /\ Foreign # NoContent
  BY PublisherAssumption DEF Content, NoContent, Foreign

\* A publisher begins with nothing written and nothing known.
LEMMA InitInvariant == Init => IInv
<1> SUFFICES ASSUME Init PROVE IInv
  OBVIOUS
<1>1. PublisherTypeOK
  <2>1. expired \in BOOLEAN
    BY Zenon DEF Init
  <2>2. QED
    BY <2>1, PublisherAssumption
    DEF Init, PublisherTypeOK, Awaits, Registration, IsEntry, NoJob, Absent
<1>2. Registered /\ Conditional /\ InSight
  BY DEF Init, Registered, Conditional, NotForeign, InSight, NoEntry, NoContent, Foreign
<1>3. Known /\ Undisturbed
  BY DEF Init, Known, Ours, Undisturbed, NoRegistration
<1>4. QED
  BY <1>1, <1>2, <1>3 DEF IInv

\* The fields of a registration.
LEMMA RegistrationFields ==
  ASSUME NEW r \in Registration
  PROVE  /\ r.producer \in Content \cup {NoContent} /\ r.intent \in Content \cup {NoContent}
         /\ r # NoRegistration =>
              r.producer \in Content /\ r.status \in {"pending", "active", "stale", "conflict", "retired"}
         /\ r = NoRegistration => r.status = "none" /\ r.producer = NoContent /\ r.intent = NoContent
  BY DEF Registration, NoRegistration

\* A registration whose intent is replaced, whose status is settled, or that is
\* retired.
LEMMA IntendedRegistration ==
  ASSUME NEW r \in Registration, r # NoRegistration, NEW i \in Content
  PROVE  LET intended == [r EXCEPT !.intent = i]
         IN /\ intended \in Registration /\ intended # NoRegistration /\ intended.intent = i
            /\ intended.producer = r.producer /\ intended.status = r.status
<1>1. \A e \in Registration : e.producer \in Content => e # NoRegistration
  BY ContentDistinct DEF NoRegistration
<1>2. QED
  BY <1>1 DEF Registration

LEMMA EditedRegistration ==
  ASSUME NEW r \in Registration, r # NoRegistration
  PROVE  /\ \A x \in {"active", "stale"} :
              LET settled == [r EXCEPT !.status = x]
              IN /\ settled \in Registration /\ settled # NoRegistration /\ settled.status = x
                 /\ settled.producer = r.producer /\ settled.intent = r.intent
         /\ LET retired == [r EXCEPT !.status = "retired", !.intent = NoContent]
            IN /\ retired \in Registration /\ retired # NoRegistration /\ retired.intent = NoContent
               /\ retired.producer = r.producer /\ retired.status = "retired"
<1>1. \A e \in Registration : e.producer \in Content => e # NoRegistration
  BY ContentDistinct DEF NoRegistration
<1>2. ASSUME NEW x \in {"active", "stale"}
      PROVE  LET settled == [r EXCEPT !.status = x]
             IN /\ settled \in Registration /\ settled # NoRegistration /\ settled.status = x
                /\ settled.producer = r.producer /\ settled.intent = r.intent
  BY <1>1 DEF Registration
<1>3. LET retired == [r EXCEPT !.status = "retired", !.intent = NoContent]
      IN /\ retired \in Registration /\ retired # NoRegistration /\ retired.intent = NoContent
         /\ retired.producer = r.producer /\ retired.status = "retired"
  BY <1>1 DEF Registration
<1>4. QED
  BY <1>2, <1>3

\* The catch block changes nothing of a registration but its status.
LEMMA Failing ==
  ASSUME mem \in Registration, NEW kind, Fail(kind)
  PROVE  /\ pc' \in {"ending", "failing"} /\ mem' \in Registration
         /\ mem'.producer = mem.producer /\ mem'.intent = mem.intent
         /\ mem'.status = mem.status \/ (mem'.status = "conflict" /\ kind = "conflict")
         /\ mem'.status = "conflict" => mem.status = "conflict" \/ kind = "conflict"
<1>1. CASE mem = NoRegistration
  BY <1>1 DEF Fail
<1>2. CASE mem # NoRegistration
  <2>1. mem \in [status : {"pending", "active", "stale", "conflict", "retired"},
                 producer : Content, intent : Content \cup {NoContent}]
    BY <1>2 DEF Registration
  <2>2. mem' = [mem EXCEPT !.status = IF kind = "conflict" THEN "conflict" ELSE @] /\ pc' = "failing"
    BY <1>2 DEF Fail
  <2>3. QED
    BY <2>1, <2>2 DEF Registration
<1>3. QED
  BY <1>1, <1>2

\* What the publisher knows it recognises.
LEMMA Recognised ==
  IInv /\ pc # "down" /\ ~overtaken /\ Ours => Owns(remote.content)
<1> SUFFICES ASSUME IInv, pc # "down", ~overtaken, Ours PROVE Owns(remote.content)
  OBVIOUS
<1>1. remote.content \in {mem.producer, mem.intent}
  BY DEF IInv, Known
<1>2. remote.content \in Content
  BY DEF IInv, PublisherTypeOK, IsEntry, Ours
<1>3. mem \in Registration
  BY DEF IInv, PublisherTypeOK
<1>4. QED
  BY <1>1, <1>2, <1>3, ContentDistinct, RegistrationFields DEF Owns

\* Nothing is recognised but the documents of a registration.
LEMMA OwnsContent ==
  ASSUME mem \in Registration, NEW c, Owns(c) PROVE mem # NoRegistration /\ c \in Content
  BY ContentDistinct, RegistrationFields DEF Owns

-----------------------------------------------------------------------------
\* reconcileThing() reads the entry and recovers the intent it shows.
LEMMA GetStep == IInv /\ Get => IInv'
<1> SUFFICES ASSUME IInv, Get PROVE IInv'
  OBVIOUS
<1> USE DEF IInv
<1>1. pc = "getting" /\ seen' = remote
      /\ UNCHANGED <<job, durable, remote, tag, wire, reply, overtaken, expired, contract, clock, latest, rounds, foreigners>>
  BY DEF Get, directory, network, bounds
<1>2. mem \in Registration /\ IsEntry(remote) /\ reply = "none"
  BY <1>1 DEF PublisherTypeOK, Registered
<1>3. \/ remote # NoEntry /\ ~Owns(remote.content) /\ Fail("conflict")
      \/ Fail("failed")
      \/ /\ remote = NoEntry \/ (Owns(remote.content) /\ remote.content # mem.intent)
         /\ pc' = "deciding" /\ mem' = mem
      \/ /\ remote # NoEntry /\ Owns(remote.content) /\ remote.content = mem.intent
         /\ pc' = "recovering" /\ mem' \in Registration /\ mem' # NoRegistration
         /\ mem'.producer = remote.content /\ mem'.intent = NoContent /\ mem'.status # "conflict"
  <2>1. ASSUME remote # NoEntry, Owns(remote.content), remote.content = mem.intent,
               mem' = [status |-> IF job.now < freshUntil(mem.intent.o) THEN "active" ELSE "stale",
                       producer |-> mem.intent, intent |-> NoContent]
        PROVE  /\ mem' \in Registration /\ mem' # NoRegistration
               /\ mem'.producer = remote.content /\ mem'.intent = NoContent /\ mem'.status # "conflict"
    BY <1>2, <2>1, OwnsContent DEF Registration, NoRegistration
  <2>2. QED
    BY <2>1 DEF Get
<1>4. mem' \in Registration /\ pc' \in {"ending", "failing", "deciding", "recovering"}
  BY <1>2, <1>3, Failing
<1>5. pc' \in {"deciding", "recovering"} /\ remote # NoEntry =>
        Owns(remote.content) /\ mem' # NoRegistration /\ remote.content # Foreign
  <2>1. Fail("conflict") \/ Fail("failed") => pc' \notin {"deciding", "recovering"}
    BY <1>2, Failing
  <2>2. pc' \in {"deciding", "recovering"} /\ remote # NoEntry => Owns(remote.content) /\ mem' # NoRegistration
    BY <1>2, <1>3, <2>1, OwnsContent
  <2>3. QED
    BY <1>2, <2>2, OwnsContent, ContentDistinct
<1>6. PublisherTypeOK' /\ Registered'
  BY <1>1, <1>2, <1>4, <1>5 DEF PublisherTypeOK, Registered, Awaits, IsEntry
<1>7. Conditional'
  BY <1>1, <1>4, <1>5 DEF Conditional, NotForeign, Etag
<1>8. InSight'
  BY <1>1, <1>2, <1>4 DEF InSight
<1>9. Known'
  <2>1. SUFFICES ASSUME ~overtaken, Ours PROVE Known'
    BY <1>1 DEF Known, Ours
  <2>2. Owns(remote.content) /\ remote.content \in {durable.producer, durable.intent}
    BY <1>1, <2>1, Recognised DEF Known
  <2>3. remote.content \in {mem.producer, mem.intent}
    BY <2>2 DEF Owns
  <2>4. remote.content \in {mem'.producer, mem'.intent}
        /\ (pc' \in {"recovering", "deciding"} => remote.content = mem'.producer)
    <3>1. CASE Fail("conflict") \/ Fail("failed")
      BY <1>2, <2>3, <3>1, Failing
    <3>2. CASE ~(Fail("conflict") \/ Fail("failed"))
      BY <1>3, <2>1, <2>3, <3>2 DEF Ours
    <3>3. QED
      BY <3>1, <3>2
  <2>5. QED
    BY <1>1, <1>4, <2>2, <2>4 DEF Known
<1>10. Undisturbed'
  <2>1. SUFFICES ASSUME Quiet PROVE Undisturbed'
    BY <1>1 DEF Undisturbed, Quiet
  <2>2. remote # NoEntry => Owns(remote.content)
    BY <1>1, <2>1, Recognised DEF Quiet, Conditional, Ours
  <2>3. mem'.status # "conflict"
    <3>1. CASE Fail("failed")
      BY <1>2, <2>1, <3>1, Failing DEF Undisturbed
    <3>2. CASE ~Fail("failed")
      BY <1>3, <2>1, <2>2, <3>2 DEF Undisturbed
    <3>3. QED
      BY <3>1, <3>2
  <2>4. QED
    BY <1>1, <1>2, <1>4, <2>1, <2>3 DEF Undisturbed
<1>11. QED
  BY <1>6, <1>7, <1>8, <1>9, <1>10

\* The document that the reconciliation wants is one the publisher makes.
LEMMA DesiredContent ==
  ASSUME PublisherTypeOK, mem # NoRegistration \/ job.candidate >= 0
  PROVE  Desired \in Content
<1>1. mem # NoRegistration => mem.producer.o \in 0..MaxClock
  BY RegistrationFields DEF PublisherTypeOK, Content
<1>2. Observation \in 0..MaxClock
  BY <1>1, PublisherAssumption DEF Observation, PublisherTypeOK, Absent, Unconfirmed, Quarantined
<1>3. QED
  BY <1>2 DEF Desired, Content

\* The rest of reconcileThing(), up to the write: an entry is deleted, left as
\* it is, or about to be written with an intent recorded in memory.
LEMMA DecideStep == IInv /\ Decide => IInv'
<1> SUFFICES ASSUME IInv, Decide PROVE IInv'
  OBVIOUS
<1> USE DEF IInv
<1>1. pc = "deciding"
      /\ UNCHANGED <<job, seen, durable, remote, tag, reply, overtaken, expired, contract, clock, latest, rounds, foreigners>>
  BY DEF Decide, directory, bounds
<1>2. mem \in Registration /\ reply = "none"
  BY <1>1 DEF PublisherTypeOK, Registered
<1> DEFINE Deleted ==
      /\ seen # NoEntry /\ pc' = "deleting" /\ mem' = mem
      /\ wire' = wire \cup {[n |-> rounds, op |-> "DELETE", content |-> NoContent,
                             condition |-> Condition(seen), ttl |-> 0]}
    Same ==
      /\ pc' \in {"ending", "failing", "retiring"} /\ wire' = wire /\ mem' \in Registration
      /\ mem'.producer = mem.producer /\ mem'.intent \in {mem.intent, NoContent}
      /\ mem'.status = "conflict" => mem.status = "conflict"
    Intends ==
      /\ pc' = "intending" /\ wire' = wire /\ mem' \in Registration
      /\ mem' # NoRegistration /\ mem'.intent \in Content
      /\ mem # NoRegistration => mem'.producer = mem.producer
      /\ mem'.status = "conflict" => mem.status = "conflict"
<1>4. Deleted \/ Same \/ Intends
  <2>1. CASE mem = NoRegistration /\ job.candidate < 0
    BY <1>2, <2>1 DEF Decide
  <2>2. CASE ~(mem = NoRegistration /\ job.candidate < 0) /\ Retire
    <3>1. CASE seen # NoEntry
      BY <2>2, <3>1 DEF Retire
    <3>2. CASE seen = NoEntry /\ mem = NoRegistration
      BY <1>2, <2>2, <3>2 DEF Retire
    <3>3. CASE seen = NoEntry /\ mem # NoRegistration
      <4>1. mem' = [mem EXCEPT !.status = "retired", !.intent = NoContent]
            /\ pc' = "retiring" /\ wire' = wire
        BY <2>2, <3>3 DEF Retire
      <4>2. QED
        BY <1>2, <3>3, <4>1, EditedRegistration
    <3>4. QED
      BY <3>1, <3>2, <3>3
  <2>3. CASE Fail("failed") /\ wire' = wire
    BY <1>2, <2>3, Failing
  <2>4. CASE mem # NoRegistration /\ pc' = "ending" /\ mem' = Settled /\ wire' = wire
    <3>1. PICK x \in {"active", "stale"} : mem' = [mem EXCEPT !.status = x]
      BY <2>4 DEF Settled
    <3>2. LET settled == [mem EXCEPT !.status = x]
          IN /\ settled \in Registration /\ settled.status = x
             /\ settled.producer = mem.producer /\ settled.intent = mem.intent
      BY <1>2, <2>4, EditedRegistration
    <3>3. mem' \in Registration /\ mem'.status # "conflict"
          /\ mem'.producer = mem.producer /\ mem'.intent = mem.intent
      BY <3>1, <3>2
    <3>4. QED
      BY <2>4, <3>3
  <2>5. CASE /\ ~(mem = NoRegistration /\ job.candidate < 0) /\ wire' = wire
             /\ pc' = "intending"
             /\ mem' = IF mem = NoRegistration
                       THEN [status |-> "pending", producer |-> Desired, intent |-> Desired]
                       ELSE [mem EXCEPT !.intent = Desired]
    <3>1. mem # NoRegistration \/ job.candidate >= 0
      BY <2>5 DEF PublisherTypeOK, Absent, Unconfirmed, Quarantined
    <3>2. Desired \in Content
      BY <3>1, DesiredContent
    <3>3. CASE mem = NoRegistration
      BY <2>5, <3>2, <3>3 DEF Registration, NoRegistration
    <3>4. CASE mem # NoRegistration
      <4>1. mem' = [mem EXCEPT !.intent = Desired]
        BY <2>5, <3>4
      <4>2. LET intended == [mem EXCEPT !.intent = Desired]
            IN /\ intended \in Registration /\ intended # NoRegistration
               /\ intended.intent = Desired
               /\ intended.producer = mem.producer /\ intended.status = mem.status
        BY <1>2, <3>2, <3>4, IntendedRegistration
      <4>3. QED
        BY <2>5, <3>2, <4>1, <4>2
    <3>5. QED
      BY <3>3, <3>4
  <2>6. mem = NoRegistration => NeedsContent
    BY <1>2, RegistrationFields DEF NeedsContent
  <2>7. QED
    BY <2>1, <2>2, <2>3, <2>4, <2>5, <2>6 DEF Decide
<1> HIDE DEF Deleted, Same, Intends
<1>5. PublisherTypeOK'
  BY <1>1, <1>2, <1>4 DEF PublisherTypeOK, Awaits, IsEntry, Deleted, Same, Intends
<1>6. Registered'
  BY <1>1, <1>2, <1>4 DEF Registered, Deleted, Same, Intends
<1>7. Conditional'
  <2>1. Deleted /\ Etag => Condition(seen) = seen.etag /\ seen.etag \in 1..tag /\ NotForeign(seen.etag)
    BY <1>1 DEF Condition, Conditional, PublisherTypeOK, IsEntry, Deleted
  <2>2. CASE Deleted
    BY <1>1, <2>1, <2>2 DEF Conditional, NotForeign, Etag, Deleted
  <2>3. CASE Same \/ Intends
    BY <1>1, <2>3 DEF Conditional, NotForeign, Etag, Same, Intends
  <2>4. QED
    BY <1>4, <2>2, <2>3
<1>8. InSight'
  <2>1. SUFFICES ASSUME ~overtaken PROVE InSight'
    BY <1>1 DEF InSight
  <2>2. wire = {}
    BY <1>1, <2>1 DEF InSight
  <2>3. Condition(seen)' = Condition(seen)
    BY <1>1 DEF Condition, Etag
  <2>4. QED
    BY <1>1, <1>2, <1>4, <2>2, <2>3 DEF InSight, Deleted, Same, Intends
<1>9. Known'
  <2>1. SUFFICES ASSUME ~overtaken, Ours PROVE Known'
    BY <1>1 DEF Known, Ours
  <2>2. remote.content \in {durable.producer, durable.intent} /\ remote.content = mem.producer
    BY <1>1, <2>1 DEF Known
  <2>3. mem # NoRegistration
    BY <1>1, <2>1, Recognised DEF Owns
  <2>4. QED
    BY <1>1, <1>4, <2>2, <2>3 DEF Known, Deleted, Same, Intends
<1>10. Undisturbed'
  BY <1>1, <1>2, <1>4 DEF Undisturbed, Quiet, Deleted, Same, Intends
<1>11. QED
  BY <1>5, <1>6, <1>7, <1>8, <1>9, <1>10

\* put() and renew(): the intent goes out under the etag that was read.
LEMMA SendStep == IInv /\ Send => IInv'
<1> SUFFICES ASSUME IInv, Send PROVE IInv'
  OBVIOUS
<1> USE DEF IInv
<1> DEFINE request ==
      [n |-> rounds, op |-> IF NeedsContent \/ ~Ttl \/ ~Patch THEN "PUT" ELSE "PATCH",
       content |-> mem.intent, condition |-> Condition(seen), ttl |-> IF Ttl THEN Lease ELSE 0]
<1>1. pc = "sending" /\ pc' = "writing" /\ wire' = wire \cup {request}
      /\ UNCHANGED <<job, seen, mem, durable, remote, tag, reply, overtaken, expired, contract, clock, latest, rounds, foreigners>>
  BY DEF Send, directory, bounds
<1>2. /\ request.op \in {"PUT", "PATCH"} /\ request.n = rounds
      /\ request.content = mem.intent /\ request.condition = Condition(seen)
  OBVIOUS
<1>3. reply = "none" /\ mem # NoRegistration /\ mem.intent \in Content
  BY <1>1 DEF Registered
<1> HIDE DEF request
<1>4. PublisherTypeOK' /\ Registered'
  BY <1>1, <1>2, <1>3 DEF PublisherTypeOK, Registered, Awaits, IsEntry
<1>5. Conditional'
  <2>1. Etag => Condition(seen) = Create
                \/ (Condition(seen) = seen.etag /\ seen.etag \in 1..tag /\ NotForeign(seen.etag))
    BY <1>1 DEF Condition, Conditional, PublisherTypeOK, IsEntry
  <2>2. QED
    BY <1>1, <1>2, <2>1 DEF Conditional, NotForeign, Etag
<1>6. InSight'
  <2>1. SUFFICES ASSUME ~overtaken PROVE InSight'
    BY <1>1 DEF InSight
  <2>2. wire' = {request} /\ durable = mem
    BY <1>1, <2>1 DEF InSight
  <2>3. Condition(seen)' = Condition(seen)
    BY <1>1 DEF Condition, Etag
  <2>4. QED
    BY <1>1, <1>2, <1>3, <2>2, <2>3 DEF InSight
<1>7. Known' /\ Undisturbed'
  BY <1>1, <1>3 DEF Known, Ours, Undisturbed, Quiet
<1>8. QED
  BY <1>4, <1>5, <1>6, <1>7

\* The answer to a write or a deletion.
LEMMA AnsweredStep == IInv /\ Answered => IInv'
<1> SUFFICES ASSUME IInv, Answered PROVE IInv'
  OBVIOUS
<1> USE DEF IInv
<1>1. pc \in {"writing", "deleting"} /\ reply # "none" /\ reply' = "none"
      /\ UNCHANGED <<job, seen, durable, remote, tag, wire, overtaken, expired, contract, clock, latest, rounds, foreigners>>
  BY DEF Answered, directory, bounds
<1>2. mem \in Registration
  BY DEF PublisherTypeOK
<1>3. \/ pc = "writing" /\ reply = "ok" /\ pc' = "reading" /\ mem' = mem
      \/ /\ pc = "deleting" /\ pc' = "retiring" /\ mem' \in Registration
         /\ mem'.producer = mem.producer /\ mem'.status # "conflict"
      \/ /\ pc' \in {"ending", "failing"} /\ mem' \in Registration
         /\ mem'.producer = mem.producer /\ mem'.intent = mem.intent
         /\ mem'.status = "conflict" => mem.status = "conflict" \/ reply = "conflict"
  <2>1. CASE AnswerDelete
    <3>1. pc = "deleting" /\ pc' = "retiring" /\ mem # NoRegistration
          /\ mem' = [mem EXCEPT !.status = "retired", !.intent = NoContent]
      BY <2>1 DEF AnswerDelete, Registered
    <3>2. QED
      BY <1>2, <3>1, EditedRegistration
  <2>2. CASE Fail(reply)
    BY <1>2, <2>2, Failing
  <2>3. QED
    BY <1>1, <2>1, <2>2 DEF Answered
<1>4. PublisherTypeOK' /\ Registered'
  BY <1>1, <1>2, <1>3 DEF PublisherTypeOK, Registered, Awaits, IsEntry
<1>5. Conditional'
  BY <1>1, <1>3 DEF Conditional, NotForeign, Etag
<1>6. InSight'
  BY <1>1, <1>3 DEF InSight
<1>7. Known'
  BY <1>1, <1>3 DEF Known, Ours
<1>8. Undisturbed'
  BY <1>1, <1>3 DEF Undisturbed, Quiet
<1>9. QED
  BY <1>4, <1>5, <1>6, <1>7, <1>8

\* A request given up stays on the wire, out of sight.
LEMMA LosesStep == IInv /\ Loses => IInv'
<1> SUFFICES ASSUME IInv, Loses PROVE IInv'
  OBVIOUS
<1> USE DEF IInv
<1>1. pc # "down" /\ reply' = "none" /\ overtaken' = (overtaken \/ wire # {})
      /\ UNCHANGED <<job, seen, durable, remote, tag, wire, expired, contract, clock, latest, rounds, foreigners>>
  BY DEF Loses, Overtake, directory, bounds
<1>2. pc' \in {"ending", "failing"} /\ mem' \in Registration
      /\ mem'.producer = mem.producer /\ mem'.intent = mem.intent
      /\ (mem'.status = "conflict" => mem.status = "conflict")
  BY Failing DEF Loses, PublisherTypeOK
<1>3. PublisherTypeOK' /\ Registered'
  BY <1>1, <1>2 DEF PublisherTypeOK, Registered, Awaits, IsEntry
<1>4. Conditional'
  BY <1>1, <1>2 DEF Conditional, NotForeign, Etag
<1>5. InSight'
  BY <1>1, <1>2 DEF InSight
<1>6. Known'
  BY <1>1, <1>2 DEF Known, Ours
<1>7. Undisturbed'
  BY <1>1, <1>2 DEF Undisturbed, Quiet
<1>8. QED
  BY <1>3, <1>4, <1>5, <1>6, <1>7

\* The read-back confirms the intent, or finds another's change.
LEMMA ReadBackStep == IInv /\ ReadBack => IInv'
<1> SUFFICES ASSUME IInv, ReadBack PROVE IInv'
  OBVIOUS
<1> USE DEF IInv
<1>1. pc = "reading" /\ seen' = remote
      /\ UNCHANGED <<job, durable, remote, tag, wire, reply, overtaken, expired, contract, clock, latest, rounds, foreigners>>
  BY DEF ReadBack, directory, network, bounds
<1>2. mem \in Registration /\ mem # NoRegistration /\ mem.intent \in Content /\ reply = "none"
  BY <1>1 DEF PublisherTypeOK, Registered
<1>3. \/ /\ pc' \in {"ending", "failing"} /\ mem' \in Registration
         /\ mem'.producer = mem.producer /\ mem'.intent = mem.intent
         /\ mem'.status = "conflict" =>
              mem.status = "conflict" \/ remote = NoEntry \/ remote.content # mem.intent
      \/ /\ remote.content = mem.intent /\ pc' = "confirming" /\ mem' \in Registration
         /\ mem'.producer = mem.intent /\ mem'.intent = NoContent /\ mem'.status # "conflict"
  <2>1. CASE remote = NoEntry \/ remote.content # mem.intent
    BY <1>2, <2>1, Failing DEF ReadBack
  <2>2. CASE ~(remote = NoEntry \/ remote.content # mem.intent) /\ Fail("failed")
    BY <1>2, <2>2, Failing
  <2>3. CASE remote.content = mem.intent /\ pc' = "confirming"
             /\ mem' = [status |-> IF mem.intent.stale THEN "stale" ELSE "active",
                        producer |-> mem.intent, intent |-> NoContent]
    BY <1>2, <2>3 DEF Registration
  <2>4. QED
    BY <2>1, <2>2, <2>3 DEF ReadBack
<1>4. PublisherTypeOK' /\ Registered'
  BY <1>1, <1>2, <1>3 DEF PublisherTypeOK, Registered, Awaits, IsEntry
<1>5. Conditional'
  BY <1>1, <1>3 DEF Conditional, NotForeign, Etag
<1>6. InSight'
  BY <1>1, <1>3 DEF InSight
<1>7. Known'
  BY <1>1, <1>3 DEF Known, Ours
<1>8. Undisturbed'
  BY <1>1, <1>2, <1>3 DEF Undisturbed, Quiet
<1>9. QED
  BY <1>4, <1>5, <1>6, <1>7, <1>8

\* The locals of a reconciliation are kept or forgotten.
LEMMA LocalsOK ==
  ASSUME PublisherTypeOK, Locals, tag' = tag
  PROVE  /\ job'.candidate \in {Absent, Unconfirmed, Quarantined} \cup 0..MaxClock
         /\ IsEntry(seen)' /\ (pc' \notin {"idle", "down"} => seen' = seen /\ job' = job)
  BY DEF PublisherTypeOK, Locals, IsEntry, NoJob, Absent

\* persist() makes memory durable while no request is awaited.
LEMMA PersistStep == IInv /\ Persist => IInv'
<1> SUFFICES ASSUME IInv, Persist PROVE IInv'
  OBVIOUS
<1> USE DEF IInv
<1>1. /\ durable' = mem /\ Locals
      /\ UNCHANGED <<mem, remote, tag, wire, reply, overtaken, expired, contract, clock, latest, rounds, foreigners>>
  BY DEF Persist, directory, network, bounds
<1>2. \/ pc = "recovering" /\ pc' = "deciding"
      \/ pc = "intending" /\ pc' = "sending"
      \/ pc \in {"confirming", "retiring", "failing"} /\ pc' = "ending"
      \/ pc = "ending" /\ pc' = "idle"
  BY DEF Persist, After
<1>3. reply = "none"
  BY <1>2 DEF Registered
<1>4. PublisherTypeOK'
  BY <1>1, <1>2, LocalsOK DEF PublisherTypeOK, Awaits, IsEntry
<1>5. Registered'
  BY <1>1, <1>2, <1>3, LocalsOK DEF Registered
<1>6. Conditional'
  BY <1>1, <1>2, LocalsOK DEF Conditional, NotForeign, Etag
<1>7. InSight'
  BY <1>1, <1>2, <1>3 DEF InSight
<1>8. Known'
  BY <1>1, <1>2 DEF Known, Ours
<1>9. Undisturbed'
  BY <1>1, <1>2, <1>3, LocalsOK DEF Undisturbed, Quiet
<1>10. QED
  BY <1>4, <1>5, <1>6, <1>7, <1>8, <1>9

\* A save that fails may have replaced the state file or not.
LEMMA PersistFailsStep == IInv /\ PersistFails => IInv'
<1> SUFFICES ASSUME IInv, PersistFails PROVE IInv'
  OBVIOUS
<1> USE DEF IInv
<1>1. /\ durable' \in {durable, mem} /\ Locals
      /\ UNCHANGED <<remote, tag, wire, reply, overtaken, expired, contract, clock, latest, rounds, foreigners>>
  BY DEF PersistFails, directory, network, bounds
<1>2. pc \in {"recovering", "intending", "confirming", "retiring", "failing", "ending"}
  BY DEF PersistFails, After
<1>3. /\ pc' \in {"idle", "ending", "failing"} /\ mem' \in Registration
      /\ mem'.producer = mem.producer /\ mem'.intent = mem.intent
      /\ mem'.status = "conflict" => mem.status = "conflict"
  BY Failing DEF PersistFails, PublisherTypeOK
<1>4. reply = "none"
  BY <1>2 DEF Registered
<1>5. PublisherTypeOK'
  BY <1>1, <1>3, LocalsOK DEF PublisherTypeOK, Awaits, IsEntry
<1>6. Registered'
  BY <1>1, <1>3, <1>4 DEF Registered
<1>7. Conditional'
  BY <1>1, <1>3 DEF Conditional, NotForeign, Etag
<1>8. InSight'
  BY <1>1, <1>2, <1>3, <1>4 DEF InSight
<1>9. Known'
  BY <1>1, <1>2, <1>3 DEF Known, Ours
<1>10. Undisturbed'
  BY <1>1, <1>3, <1>4 DEF Undisturbed, Quiet
<1>11. QED
  BY <1>5, <1>6, <1>7, <1>8, <1>9, <1>10

\* A crash forgets memory, and leaves what is on the wire.
LEMMA CrashStep == IInv /\ Crash => IInv'
<1> SUFFICES ASSUME IInv, Crash PROVE IInv'
  OBVIOUS
<1> USE DEF IInv
<1>1. /\ pc' = "down" /\ mem' = NoRegistration /\ reply' = "none" /\ Locals
      /\ UNCHANGED <<durable, remote, tag, wire, overtaken, expired, contract, clock, latest, rounds, foreigners>>
  BY DEF Crash, directory
<1>2. mem' \in Registration /\ mem'.status # "conflict"
  BY <1>1 DEF Registration, NoRegistration
<1>3. PublisherTypeOK'
  BY <1>1, <1>2, LocalsOK DEF PublisherTypeOK, Awaits, IsEntry
<1>4. Registered'
  BY <1>1 DEF Registered
<1>5. Conditional'
  BY <1>1 DEF Conditional, NotForeign, Etag
<1>6. InSight'
  BY <1>1 DEF InSight
<1>7. Known'
  BY <1>1 DEF Known, Ours
<1>8. Undisturbed'
  BY <1>1, <1>2 DEF Undisturbed, Quiet
<1>9. QED
  BY <1>3, <1>4, <1>5, <1>6, <1>7, <1>8

\* start() loads the state file; what is on the wire by then is out of sight.
LEMMA StartStep == IInv /\ Start => IInv'
<1> SUFFICES ASSUME IInv, Start PROVE IInv'
  OBVIOUS
<1> USE DEF IInv
<1>1. /\ pc = "down" /\ pc' = "idle" /\ mem' = durable /\ overtaken' = (overtaken \/ wire # {})
      /\ UNCHANGED <<job, seen, durable, remote, tag, wire, reply, expired, contract, clock, latest, rounds, foreigners>>
  BY DEF Start, Overtake, directory, bounds
<1>2. PublisherTypeOK' /\ Registered'
  BY <1>1 DEF PublisherTypeOK, Registered, Awaits, IsEntry
<1>3. Conditional'
  BY <1>1 DEF Conditional, NotForeign, Etag
<1>4. InSight'
  BY <1>1 DEF InSight
<1>5. Known'
  BY <1>1 DEF Known, Ours
<1>6. Undisturbed'
  BY <1>1 DEF Undisturbed, Quiet, Registered
<1>7. QED
  BY <1>2, <1>3, <1>4, <1>5, <1>6

-----------------------------------------------------------------------------
\* The Directory purges what has expired: the entry that a reconciliation relies
\* on, or one that nothing is known of yet.
LEMMA PurgeStep == IInv /\ Purge => IInv'
<1> SUFFICES ASSUME IInv, Purge PROVE IInv'
  OBVIOUS
<1> USE DEF IInv
<1>1. remote # NoEntry /\ remote' = NoEntry /\ expired' = (expired \/ InUse)
      /\ UNCHANGED <<pc, job, seen, mem, durable, tag, wire, reply, overtaken, contract, clock,
                     latest, foreigners, rounds>>
  BY DEF Purge, work, network
<1>2. PublisherTypeOK' /\ Registered'
  <2>1. expired' \in BOOLEAN
    BY <1>1 DEF PublisherTypeOK, InUse
  <2>2. QED
    BY <1>1, <2>1 DEF PublisherTypeOK, Registered, IsEntry
<1>3. Conditional'
  <2>1. remote'.content # Foreign
    BY <1>1 DEF NoEntry, NoContent, Foreign
  <2>2. QED
    BY <1>1, <2>1 DEF Conditional, NotForeign, Etag
<1>4. InSight'
  BY <1>1 DEF InSight, Condition, Etag
<1>5. Known'
  BY <1>1 DEF Known, Ours
<1>6. Undisturbed'
  <2>1. SUFFICES ASSUME Quiet' PROVE Undisturbed'
    BY DEF Undisturbed
  <2>2. Quiet /\ ~InUse
    BY <1>1, <2>1 DEF Quiet
  <2>3. pc \notin {"writing", "reading", "recovering", "deciding", "intending", "sending", "deleting"}
    BY <1>1, <2>2 DEF InUse, Undisturbed, Registered
  <2>4. QED
    BY <1>1, <2>2, <2>3 DEF Undisturbed
<1>7. QED
  BY <1>2, <1>3, <1>4, <1>5, <1>6

\* Another client writes or deletes the entry: its etag is a new one.
LEMMA OtherClientStep == IInv /\ OtherClient => IInv'
<1> SUFFICES ASSUME IInv, OtherClient PROVE IInv'
  OBVIOUS
<1> USE DEF IInv
<1>1. /\ Etag /\ foreigners' = foreigners + 1
      /\ \/ remote' = NoEntry /\ tag' = tag
         \/ remote' = [content |-> Foreign, etag |-> tag + 1, expires |-> 0] /\ tag' = tag + 1
      /\ UNCHANGED <<pc, job, seen, mem, durable, wire, reply, overtaken, expired, contract, clock,
                     latest, rounds>>
  BY DEF OtherClient, work, network
<1>2. PublisherTypeOK'
  <2>1. tag' \in Nat /\ foreigners' \in Nat /\ 1..tag \subseteq 1..tag'
    BY <1>1 DEF PublisherTypeOK
  <2>2. IsEntry(remote)' /\ IsEntry(seen)'
    BY <1>1, <2>1 DEF IsEntry, PublisherTypeOK
  <2>3. QED
    BY <1>1, <2>1, <2>2 DEF PublisherTypeOK
<1>3. Registered'
  BY <1>1 DEF Registered
<1>4. Conditional'
  BY <1>1, ContentDistinct DEF Conditional, NotForeign, Etag, PublisherTypeOK, IsEntry
<1>5. InSight'
  BY <1>1 DEF InSight, Condition, Etag
<1>6. Known' /\ Undisturbed'
  BY <1>1 DEF Known, Ours, Undisturbed, Quiet, NoEntry, PublisherTypeOK
<1>7. QED
  BY <1>2, <1>3, <1>4, <1>5, <1>6

\* Time passes.
LEMMA TickStep == IInv /\ Tick => IInv'
<1> SUFFICES ASSUME IInv, Tick PROVE IInv'
  OBVIOUS
<1> USE DEF IInv
<1>1. clock < MaxClock /\ clock' = clock + 1
      /\ UNCHANGED <<pc, job, seen, mem, durable, remote, tag, wire, reply, overtaken, expired, contract,
                     latest, foreigners, rounds>>
  BY DEF Tick, work, directory, network
<1>2. PublisherTypeOK'
  BY <1>1, PublisherAssumption DEF PublisherTypeOK, IsEntry
<1>3. Registered' /\ Conditional'
  BY <1>1 DEF Registered, Conditional, NotForeign, Etag
<1>4. InSight'
  BY <1>1 DEF InSight, Condition, Etag
<1>5. Known' /\ Undisturbed'
  BY <1>1 DEF Known, Ours, Undisturbed, Quiet
<1>6. QED
  BY <1>2, <1>3, <1>4, <1>5

\* A reconciliation begins, with nothing on the wire but what was given up.
LEMMA BeginStep ==
  ASSUME IInv, NEW c \in {Absent, Unconfirmed, Quarantined} \cup latest..clock, Begin(c)
  PROVE  IInv'
<1> USE DEF IInv
<1>1. /\ pc = "idle" /\ pc' \in {"ending", "getting"} /\ job' = [candidate |-> c, now |-> clock]
      /\ latest' = IF c >= 0 THEN c ELSE latest
      /\ UNCHANGED <<seen, mem, durable, remote, tag, wire, reply, overtaken, expired, contract, clock,
                     foreigners>>
  BY DEF Begin, directory, network
<1>2. c \in {Absent, Unconfirmed, Quarantined} \cup 0..MaxClock
  BY PublisherAssumption DEF PublisherTypeOK
<1>3. PublisherTypeOK'
  BY <1>1, <1>2, PublisherAssumption
  DEF PublisherTypeOK, Awaits, IsEntry, Absent, Unconfirmed, Quarantined
<1>4. Registered' /\ Conditional'
  BY <1>1 DEF Registered, Conditional, NotForeign, Etag
<1>5. InSight'
  BY <1>1 DEF InSight
<1>6. Known' /\ Undisturbed'
  BY <1>1 DEF Known, Ours, Undisturbed, Quiet
<1>7. QED
  BY <1>3, <1>4, <1>5, <1>6

\* The network loses a request.
LEMMA DropStep == ASSUME IInv, NEW req \in wire, Drop(req) PROVE IInv'
<1> USE DEF IInv
<1>1. wire' = wire \ {req}
      /\ UNCHANGED <<pc, job, seen, mem, durable, remote, tag, reply, overtaken, expired, contract, clock,
                     latest, rounds, foreigners>>
  BY DEF Drop, work, directory, bounds
<1>2. PublisherTypeOK' /\ Registered' /\ Conditional'
  BY <1>1 DEF PublisherTypeOK, IsEntry, Registered, Conditional, NotForeign, Etag
<1>3. InSight'
  BY <1>1 DEF InSight, Condition, Etag
<1>4. Known' /\ Undisturbed'
  BY <1>1 DEF Known, Ours, Undisturbed, Quiet
<1>5. QED
  BY <1>2, <1>3, <1>4

\* What serving a request does: nothing, a write with a new etag, or a deletion.
Awaited(req) == req.n = rounds /\ pc \in {"writing", "deleting"}
Writes(req) ==
  /\ req.op \in {"PUT", "PATCH"} /\ Satisfied(req) /\ (req.op = "PATCH" => remote # NoEntry)
  /\ tag' = tag + 1 /\ remote' # NoEntry /\ remote'.etag = tag + 1
  /\ remote'.content = IF req.op = "PUT" THEN req.content ELSE remote.content
Deletes(req) ==
  req.op = "DELETE" /\ Satisfied(req) /\ remote' = NoEntry /\ tag' = tag

LEMMA ServeEffect ==
  ASSUME IInv, NEW req \in wire, Serve(req)
  PROVE  /\ wire' = wire \ {req}
         /\ UNCHANGED <<pc, job, seen, mem, durable, overtaken, expired, contract, clock, latest, rounds,
                        foreigners>>
         /\ (remote' = remote /\ tag' = tag) \/ Writes(req) \/ Deletes(req)
         /\ Awaited(req) => reply' \in {"ok", "failed", "conflict"}
         /\ ~Awaited(req) => reply' = reply
         /\ Awaited(req) /\ req.op = "DELETE" /\ reply' = "ok" => remote' = NoEntry
<1>1. tag \in Nat /\ req.op \in {"PUT", "PATCH", "DELETE"}
  BY DEF IInv, PublisherTypeOK
<1>2. Written(req) => /\ tag' = tag + 1 /\ remote' # NoEntry /\ remote'.etag = tag + 1
                      /\ remote'.content = IF req.op = "PUT" THEN req.content ELSE remote.content
  BY <1>1 DEF Written, NoEntry
<1>3. ASSUME Outcome(req)
      PROVE  /\ (remote' = remote /\ tag' = tag) \/ Writes(req) \/ Deletes(req)
             /\ reply' \in {"ok", "failed", "conflict"}
             /\ req.op = "DELETE" /\ reply' = "ok" => remote' = NoEntry
  <2>1. CASE req.op = "PUT"
    BY <1>2, <1>3, <2>1 DEF Outcome, Writes, directory
  <2>2. CASE req.op = "PATCH"
    <3>1. CASE remote # NoEntry /\ Satisfied(req)
      <4>1. Written(req) /\ reply' = "ok"
        BY <1>3, <2>2, <3>1 DEF Outcome
      <4>2. QED
        BY <1>2, <2>2, <3>1, <4>1 DEF Writes
    <3>2. CASE remote = NoEntry
      BY <1>3, <2>2, <3>2 DEF Outcome, directory
    <3>3. CASE remote # NoEntry /\ ~Satisfied(req)
      <4>1. reply' = "conflict" /\ UNCHANGED directory
        BY <1>3, <2>2, <3>3 DEF Outcome
      <4>2. QED
        BY <4>1 DEF directory
    <3>4. QED
      BY <3>1, <3>2, <3>3
  <2>3. CASE req.op = "DELETE"
    BY <1>3, <2>3 DEF Outcome, Deletes, directory
  <2>4. QED
    BY <1>1, <2>1, <2>2, <2>3
<1>4. ASSUME ~Awaited(req)
      PROVE  ((remote' = remote /\ tag' = tag) \/ Writes(req) \/ Deletes(req)) /\ reply' = reply
  BY <1>1, <1>2, <1>4 DEF Serve, Awaited, Writes, Deletes, directory
<1>5. QED
  BY <1>3, <1>4 DEF Serve, Awaited, work, bounds

\* In quiet times the request finds the entry that was read, and does its work.
LEMMA QuietOutcome ==
  ASSUME IInv, Renewal, Quiet, NEW req \in wire, pc \in {"writing", "deleting"}, Serve(req)
  PROVE  /\ reply' = "ok"
         /\ pc = "writing" => remote' # NoEntry /\ remote'.content = mem.intent
<1> USE DEF IInv
<1>1. /\ remote = seen /\ IsEntry(remote) /\ tag \in Nat
      /\ req.condition = Condition(seen) /\ Outcome(req)
  BY DEF Quiet, Undisturbed, PublisherTypeOK, InSight, Serve
<1>2. Satisfied(req)
  BY <1>1 DEF Satisfied, Condition, Create, IsEntry
<1>3. (req.condition = Create) <=> (remote = NoEntry)
  BY <1>1 DEF Condition, Create, IsEntry
<1>4. CASE pc = "writing"
  <2>1. req.op \in {"PUT", "PATCH"} /\ req.content = mem.intent
    BY <1>4 DEF Quiet, InSight
  <2>2. req.op = "PATCH" => remote # NoEntry /\ remote.content = mem.intent
    BY <1>1, <1>4 DEF Renewal
  <2>3. Written(req) /\ reply' = "ok"
    BY <1>1, <1>2, <1>3, <2>1, <2>2 DEF Outcome
  <2>4. QED
    BY <1>1, <1>4, <2>1, <2>2, <2>3 DEF Written, NoEntry
<1>5. CASE pc = "deleting"
  <2>1. req.op = "DELETE" /\ remote # NoEntry
    BY <1>1, <1>5 DEF Quiet, InSight, Registered
  <2>2. reply' = "ok"
    BY <1>1, <1>2, <2>1 DEF Outcome
  <2>3. QED
    BY <1>5, <2>2
<1>6. QED
  BY <1>4, <1>5

\* The Directory serves a request, awaited or not.
LEMMA ServeStep == ASSUME IInv, Renewal, NEW req \in wire, Serve(req) PROVE IInv'
<1> USE DEF IInv
<1>1. /\ wire' = wire \ {req}
      /\ UNCHANGED <<pc, job, seen, mem, durable, overtaken, expired, contract, clock, latest, rounds,
                     foreigners>>
      /\ (remote' = remote /\ tag' = tag) \/ Writes(req) \/ Deletes(req)
      /\ Awaited(req) => reply' \in {"ok", "failed", "conflict"}
      /\ ~Awaited(req) => reply' = reply
  BY ServeEffect
<1>2. PublisherTypeOK'
  <2>1. tag' \in Nat /\ 1..tag \subseteq 1..tag' /\ tag' \in {tag, tag + 1}
    BY <1>1 DEF PublisherTypeOK, Writes, Deletes
  <2>2. IsEntry(seen)'
    BY <1>1, <2>1 DEF IsEntry, PublisherTypeOK
  <2>3. IsEntry(remote)'
    <3>1. CASE remote' = remote
      BY <1>1, <2>1, <3>1 DEF IsEntry, PublisherTypeOK
    <3>2. CASE Writes(req)
      <4>1. remote'.content \in Content \cup {Foreign}
        BY <3>2 DEF Writes, PublisherTypeOK, IsEntry
      <4>2. remote'.etag \in 1..tag'
        BY <2>1, <3>2 DEF Writes, PublisherTypeOK
      <4>3. QED
        BY <4>1, <4>2 DEF IsEntry
    <3>3. CASE Deletes(req)
      BY <3>3 DEF IsEntry, Deletes, NoEntry
    <3>4. QED
      BY <1>1, <3>1, <3>2, <3>3
  <2>4. reply' \in {"none", "ok", "failed", "conflict"}
    BY <1>1 DEF PublisherTypeOK
  <2>5. QED
    BY <1>1, <2>1, <2>2, <2>3, <2>4 DEF PublisherTypeOK
<1>3. Registered'
  BY <1>1 DEF Registered, Awaited
<1>4. Conditional'
  <2>1. tag \in Nat /\ 1..tag \subseteq 1..tag'
    BY <1>1 DEF PublisherTypeOK, Writes, Deletes
  <2>2. \A e \in 1..tag : NotForeign(e) => (remote' # NoEntry /\ remote'.etag = e => remote'.content # Foreign)
    BY <1>1, <2>1 DEF NotForeign, Writes, Deletes
  <2>3. remote.content # Foreign => remote'.content # Foreign
    BY <1>1, ContentDistinct DEF PublisherTypeOK, Writes, Deletes, NoEntry
  <2>4. seen # NoEntry => seen.etag \in 1..tag
    BY DEF PublisherTypeOK, IsEntry
  <2>5. QED
    BY <1>1, <2>1, <2>2, <2>3, <2>4 DEF Conditional, NotForeign, Etag
<1>5. InSight'
  <2>1. SUFFICES ASSUME ~overtaken PROVE InSight'
    BY <1>1 DEF InSight
  <2>2. wire' = {}
    BY <1>1, <2>1 DEF InSight
  <2>3. QED
    BY <1>1, <2>1, <2>2 DEF InSight
<1>6. Known'
  <2>1. SUFFICES ASSUME ~overtaken, Ours' PROVE Known'
    BY <1>1 DEF Known
  <2>2. pc \in {"writing", "deleting", "down"}
    BY <2>1 DEF InSight
  <2>3. CASE remote' = remote
    BY <1>1, <2>1, <2>3 DEF Known, Ours
  <2>4. CASE Writes(req) /\ req.op = "PUT"
    BY <1>1, <2>1, <2>2, <2>4 DEF Known, Ours, Writes, InSight
  <2>5. CASE Writes(req) /\ req.op # "PUT"
    <3>1. remote'.content = remote.content /\ Ours /\ req.op = "PATCH"
      BY <2>1, <2>5 DEF Ours, Writes
    <3>2. pc \in {"writing", "down"}
      BY <2>1, <2>2, <3>1 DEF InSight
    <3>3. QED
      BY <1>1, <2>1, <3>1, <3>2 DEF Known
  <2>6. CASE Deletes(req)
    BY <2>1, <2>6 DEF Ours, Deletes
  <2>7. QED
    BY <1>1, <2>3, <2>4, <2>5, <2>6
<1>7. Undisturbed'
  <2>1. SUFFICES ASSUME Quiet PROVE Undisturbed'
    BY <1>1 DEF Undisturbed, Quiet
  <2>2. pc \in {"writing", "deleting", "down"} /\ wire' = {}
    BY <1>1, <2>1 DEF InSight, Quiet
  <2>3. CASE pc = "down"
    BY <1>1, <2>1, <2>3 DEF Undisturbed, Awaited
  <2>4. CASE pc \in {"writing", "deleting"}
    <3>1. reply' = "ok" /\ (pc = "writing" => remote' # NoEntry /\ remote'.content = mem.intent)
      BY <2>1, <2>4, QuietOutcome
    <3>2. QED
      BY <1>1, <2>1, <2>2, <2>4, <3>1 DEF Undisturbed
  <2>5. QED
    BY <2>2, <2>3, <2>4
<1>8. QED
  BY <1>2, <1>3, <1>4, <1>5, <1>6, <1>7

-----------------------------------------------------------------------------
\* Decide begins a write: its intent is what is wanted, and the entry it read
\* holds what memory calls confirmed.
LEMMA DecideRenewal == IInv /\ Renewal /\ Decide => Renewal'
<1> SUFFICES ASSUME IInv, Renewal, Decide, Quiet' PROVE Renewal'
  BY DEF Renewal
<1>1. pc = "deciding" /\ UNCHANGED <<job, seen, remote, overtaken, expired, foreigners>>
  BY DEF Decide, directory, bounds
<1>2. mem \in Registration /\ Quiet
  BY <1>1 DEF IInv, PublisherTypeOK, Quiet
<1>3. pc' # "writing" /\ pc' # "sending"
  BY <1>1, <1>2, Failing DEF Decide, Retire
<1>4. SUFFICES ASSUME pc' = "intending"
               PROVE  (mem.intent = Desired)' /\ (seen # NoEntry => seen.content = mem'.producer)
  BY <1>1, <1>3 DEF Renewal
<1>5. /\ ~(mem = NoRegistration /\ job.candidate < 0)
      /\ mem' = IF mem = NoRegistration
                THEN [status |-> "pending", producer |-> Desired, intent |-> Desired]
                ELSE [mem EXCEPT !.intent = Desired]
  BY <1>2, <1>4, Failing DEF Decide, Retire
<1>6. CASE mem = NoRegistration
  <2>1. job.candidate >= 0
    BY <1>5, <1>6 DEF IInv, PublisherTypeOK, Absent, Unconfirmed, Quarantined
  <2>2. Desired' = Desired
    BY <1>1, <2>1 DEF Desired, Observation
  <2>3. seen = NoEntry
    BY <1>1, <1>6 DEF IInv, Registered
  <2>4. QED
    BY <1>5, <1>6, <2>2, <2>3
<1>7. CASE mem # NoRegistration
  <2>1. Desired \in Content
    BY <1>7, DesiredContent DEF IInv
  <2>2. LET intended == [mem EXCEPT !.intent = Desired]
        IN intended.intent = Desired /\ intended.producer = mem.producer
    BY <1>2, <1>7, <2>1, IntendedRegistration
  <2>3. mem'.intent = Desired /\ mem'.producer = mem.producer
    BY <1>5, <1>7, <2>2
  <2>4. Desired' = Desired
    BY <1>1, <2>3 DEF Desired, Observation
  <2>5. seen # NoEntry => Ours /\ remote = seen
    BY <1>1, <1>2 DEF IInv, Undisturbed, Quiet, Conditional, Ours
  <2>6. seen # NoEntry => seen.content = mem.producer
    BY <1>1, <1>2, <2>5 DEF IInv, Known, Quiet
  <2>7. QED
    BY <2>3, <2>4, <2>6
<1>8. QED
  BY <1>6, <1>7

\* No action makes a renewal without content lie.
LEMMA StepRenewal == IInv /\ Renewal /\ [Next]_vars => Renewal'
<1> SUFFICES ASSUME IInv, Renewal, [Next]_vars PROVE Renewal'
  OBVIOUS
<1> USE DEF Renewal, Quiet
<1>1. ASSUME NEW c \in {Absent, Unconfirmed, Quarantined} \cup latest..clock, Begin(c) PROVE Renewal'
  BY <1>1 DEF Begin
<1>2. CASE Get
  <2>1. pc' \notin {"intending", "sending", "writing"}
    BY <1>2, Failing DEF Get, IInv, PublisherTypeOK
  <2>2. QED
    BY <2>1
<1>3. CASE Send
  <2>1. pc = "sending" /\ UNCHANGED <<seen, mem, overtaken, expired, foreigners>> /\ pc' = "writing"
    BY <1>3 DEF Send, bounds
  <2>2. Quiet => wire = {}
    BY <2>1 DEF IInv, InSight
  <2>3. ~NeedsContent => seen # NoEntry /\ mem.producer = Desired
    BY DEF NeedsContent
  <2>4. ASSUME Quiet, NEW req \in wire', req.op = "PATCH"
        PROVE  seen # NoEntry /\ seen.content = mem.intent
    <3>1. ~NeedsContent
      BY <1>3, <2>2, <2>4 DEF Send
    <3>2. QED
      BY <2>1, <2>3, <2>4, <3>1
  <2>5. QED
    BY <2>1, <2>4
<1>4. CASE Answered \/ Loses
  <2>1. pc' \notin {"intending", "sending", "writing"}
    BY <1>4, Failing DEF Answered, AnswerDelete, Loses, IInv, PublisherTypeOK
  <2>2. QED
    BY <2>1
<1>5. CASE ReadBack \/ PersistFails
  <2>1. pc' \notin {"intending", "sending", "writing"}
    BY <1>5, Failing DEF ReadBack, PersistFails, IInv, PublisherTypeOK
  <2>2. QED
    BY <2>1
<1>6. CASE Persist
  <2>1. CASE pc = "intending"
    <3>1. pc' = "sending" /\ Locals /\ UNCHANGED <<mem, overtaken, expired, foreigners>>
      BY <1>6, <2>1 DEF Persist, After, network, bounds
    <3>2. UNCHANGED <<job, seen>>
      BY <3>1 DEF Locals
    <3>3. Desired' = Desired
      BY <3>1, <3>2 DEF Desired, Observation
    <3>4. QED
      BY <2>1, <3>1, <3>2, <3>3
  <2>2. CASE pc # "intending"
    BY <1>6, <2>2 DEF Persist, After
  <2>3. QED
    BY <2>1, <2>2
<1>7. CASE Crash \/ Start
  BY <1>7 DEF Crash, Start
<1>8. ASSUME \/ Purge \/ OtherClient \/ Tick \/ UNCHANGED vars
             \/ \E req \in wire : Serve(req) \/ Drop(req)
      PROVE  Renewal'
  <2>1. /\ UNCHANGED <<pc, job, seen, mem, overtaken>> /\ wire' \subseteq wire
        /\ (expired => expired') /\ foreigners' \in {foreigners, foreigners + 1}
    <3>1. CASE Purge
      <4>1. expired => expired'
        BY <3>1, Zenon DEF Purge
      <4>2. QED
        BY <3>1, <4>1 DEF Purge, work, network
    <3>2. CASE OtherClient \/ Tick
      BY <3>2 DEF OtherClient, Tick, work, network
    <3>3. CASE UNCHANGED vars
      BY <3>3 DEF vars, work, network, bounds
    <3>4. ASSUME NEW req \in wire, Serve(req) \/ Drop(req)
          PROVE  /\ UNCHANGED <<pc, job, seen, mem, overtaken>> /\ wire' \subseteq wire
                 /\ (expired => expired') /\ foreigners' \in {foreigners, foreigners + 1}
      BY <3>4 DEF Serve, Drop, work, bounds
    <3>5. QED
      BY <1>8, <3>1, <3>2, <3>3, <3>4
  <2>2. Desired' = Desired
    BY <2>1 DEF Desired, Observation
  <2>3. Quiet' => Quiet
    BY <2>1 DEF IInv, PublisherTypeOK
  <2>4. QED
    BY <2>1, <2>2, <2>3
<1>9. QED
  BY <1>1, <1>2, <1>3, <1>4, <1>5, <1>6, <1>7, <1>8, DecideRenewal DEF Next

\* No action falsifies the invariant.
LEMMA StepInvariant == IInv /\ Renewal /\ [Next]_vars => IInv'
<1> SUFFICES ASSUME IInv, Renewal, [Next]_vars PROVE IInv'
  OBVIOUS
<1>1. ASSUME NEW c \in {Absent, Unconfirmed, Quarantined} \cup latest..clock, Begin(c) PROVE IInv'
  BY <1>1, BeginStep
<1>2. CASE Get \/ Decide \/ Send \/ Answered
  BY <1>2, GetStep, DecideStep, SendStep, AnsweredStep
<1>3. CASE Loses \/ ReadBack \/ Persist \/ PersistFails
  BY <1>3, LosesStep, ReadBackStep, PersistStep, PersistFailsStep
<1>4. CASE Crash \/ Start \/ Purge \/ OtherClient \/ Tick
  BY <1>4, CrashStep, StartStep, PurgeStep, OtherClientStep, TickStep
<1>5. ASSUME NEW req \in wire, Serve(req) \/ Drop(req) PROVE IInv'
  BY <1>5, ServeStep, DropStep
<1>6. CASE UNCHANGED vars
  BY <1>6 DEF vars, work, directory, network, bounds, IInv, PublisherTypeOK, IsEntry, Registered,
              Conditional, NotForeign, Etag, InSight, Condition, Known, Ours, Undisturbed, Quiet
<1>7. QED
  BY <1>1, <1>2, <1>3, <1>4, <1>5, <1>6 DEF Next

\* persist() before put(), conditional writes and read-back, for every contract
\* and every fault: the invariant above.
THEOREM PublisherInvariant == Spec => []IInv
<1>1. Init => IInv /\ Renewal
  <2>1. Init => Renewal
    BY DEF Init, Renewal
  <2>2. QED
    BY <2>1, InitInvariant
<1>2. IInv /\ Renewal /\ [Next]_vars => (IInv /\ Renewal)'
  BY StepInvariant, StepRenewal
<1>3. QED
  BY <1>1, <1>2, PTL DEF Spec

-----------------------------------------------------------------------------
\* What a registration without an intent claims of the entry is true.
Honest(r) ==
  /\ r.status = "pending" => r.intent # NoContent
  /\ Ours /\ r.intent = NoContent =>
       /\ r.status # "retired"
       /\ Ttl /\ r.status \in {"active", "stale"} =>
            remote.expires <= retainUntil(r.producer.o) + Second

\* While no request is out of sight: memory and state file are honest, a write on
\* the wire has its intent in the state file, and what retire() saw is true still.
Settling ==
  ~overtaken =>
    /\ Honest(durable) /\ (pc # "down" => Honest(mem))
    /\ \A req \in wire : req.op # "DELETE" => durable.intent # NoContent
    /\ pc = "recovering" => seen # NoEntry
    /\ pc = "deciding" /\ seen = NoEntry => ~Ours
    /\ pc = "deleting" /\ reply = "ok" => ~Ours
    /\ pc \in {"getting", "deciding", "recovering"} => mem.status # "conflict"

\* An entry that is gone or another's leaves nothing to be honest about.
LEMMA GoneHonest ==
  ASSUME IInv, Settling, ~Ours', UNCHANGED <<pc, seen, mem, durable, wire, reply, overtaken>>
  PROVE  Settling'
  BY DEF Settling, Honest, Ours

\* Get recovers an intent only under the lease of its observation.
LEMMA GetSettling == IInv /\ Settling /\ Get => Settling'
<1> SUFFICES ASSUME IInv, Settling, Get, ~overtaken PROVE Settling'
  BY DEF Settling, Get, network
<1>1. pc = "getting" /\ seen' = remote
      /\ UNCHANGED <<durable, remote, wire, reply, overtaken, contract>>
  BY DEF Get, directory, network, bounds
<1>2. mem \in Registration /\ reply = "none" /\ wire = {}
  BY <1>1 DEF IInv, PublisherTypeOK, Registered, InSight
<1>3. Honest(durable) /\ Honest(mem) /\ mem.status # "conflict"
  BY <1>1 DEF Settling
<1>4. CASE Fail("conflict") \/ Fail("failed")
  <2>1. pc' \in {"ending", "failing"} /\ mem'.producer = mem.producer /\ mem'.intent = mem.intent
        /\ mem'.status \in {mem.status, "conflict"}
    BY <1>2, <1>4, Failing
  <2>2. QED
    BY <1>1, <1>2, <1>3, <2>1 DEF Settling, Honest, Ours, Ttl
<1>5. CASE (remote = NoEntry \/ remote.content # mem.intent) /\ pc' = "deciding" /\ mem' = mem
  BY <1>1, <1>2, <1>3, <1>5 DEF Settling, Honest, Ours, Ttl
<1>6. CASE /\ remote # NoEntry /\ LeaseHonoured(remote, mem.intent.o) /\ pc' = "recovering"
           /\ mem' = [status |-> IF job.now < freshUntil(mem.intent.o) THEN "active" ELSE "stale",
                      producer |-> mem.intent, intent |-> NoContent]
  <2>1. Ttl => remote.expires <= retainUntil(mem'.producer.o) + Second
    BY <1>6 DEF LeaseHonoured
  <2>2. mem'.status \in {"active", "stale"}
    BY <1>6
  <2>3. QED
    BY <1>1, <1>2, <1>3, <1>6, <2>1, <2>2 DEF Settling, Honest, Ours, Ttl
<1>7. QED
  BY <1>4, <1>5, <1>6 DEF Get

\* Decide retires only what is gone, and settles only what was confirmed.
LEMMA DecideSettling == IInv /\ Settling /\ Decide => Settling'
<1> SUFFICES ASSUME IInv, Settling, Decide, ~overtaken PROVE Settling'
  BY DEF Settling, Decide
<1>1. pc = "deciding" /\ UNCHANGED <<seen, durable, remote, reply, overtaken, contract>>
  BY DEF Decide, directory, bounds
<1>2. mem \in Registration /\ reply = "none" /\ wire = {}
  BY <1>1 DEF IInv, PublisherTypeOK, Registered, InSight
<1>3. /\ Honest(durable) /\ Honest(mem) /\ mem.status # "conflict"
      /\ seen = NoEntry => ~Ours
  BY <1>1 DEF Settling
<1>4. SUFFICES ASSUME TRUE
               PROVE  /\ Honest(mem)' /\ pc' \notin {"getting", "deciding", "recovering"}
                      /\ \A req \in wire' : req.op = "DELETE"
  BY <1>1, <1>2, <1>3 DEF Settling, Honest, Ours, Ttl
<1> DEFINE Kept == mem' = mem /\ pc' \in {"ending", "deleting"}
                   /\ \A req \in wire' : req.op = "DELETE"
    Gone == ~Ours /\ mem'.status = "retired" /\ pc' = "retiring" /\ wire' = wire
    Settles == mem # NoRegistration /\ mem' = Settled /\ pc' = "ending" /\ wire' = wire
    Intends == /\ mem'.intent # NoContent /\ mem'.status # "conflict"
               /\ pc' = "intending" /\ wire' = wire
    Fails == Fail("failed") /\ wire' = wire
<1>5. Kept \/ Gone \/ Settles \/ Intends \/ Fails
  <2>1. CASE mem = NoRegistration /\ job.candidate < 0
    BY <1>2, <2>1 DEF Decide
  <2>2. CASE Retire
    <3>1. CASE seen # NoEntry
      BY <1>2, <2>2, <3>1 DEF Retire
    <3>2. CASE seen = NoEntry /\ mem = NoRegistration
      BY <1>2, <2>2, <3>2 DEF Retire
    <3>3. CASE seen = NoEntry /\ mem # NoRegistration
      <4>1. mem' = [mem EXCEPT !.status = "retired", !.intent = NoContent]
            /\ pc' = "retiring" /\ wire' = wire
        BY <2>2, <3>3 DEF Retire
      <4>2. QED
        BY <1>2, <1>3, <3>3, <4>1, EditedRegistration
    <3>4. QED
      BY <3>1, <3>2, <3>3
  <2>3. CASE /\ ~(mem = NoRegistration /\ job.candidate < 0) /\ wire' = wire /\ pc' = "intending"
             /\ mem' = IF mem = NoRegistration
                       THEN [status |-> "pending", producer |-> Desired, intent |-> Desired]
                       ELSE [mem EXCEPT !.intent = Desired]
    <3>1. Desired \in Content /\ Desired # NoContent
      BY <2>3, DesiredContent, ContentDistinct
      DEF IInv, PublisherTypeOK, Absent, Unconfirmed, Quarantined
    <3>2. CASE mem = NoRegistration
      BY <2>3, <3>1, <3>2
    <3>3. CASE mem # NoRegistration
      <4>1. LET intended == [mem EXCEPT !.intent = Desired]
            IN intended.intent = Desired /\ intended.status = mem.status
        BY <1>2, <3>1, <3>3, IntendedRegistration
      <4>2. QED
        BY <1>3, <2>3, <3>1, <3>3, <4>1
    <3>4. QED
      BY <3>2, <3>3
  <2>4. mem = NoRegistration => NeedsContent
    BY <1>2, RegistrationFields DEF NeedsContent
  <2>5. QED
    BY <2>1, <2>2, <2>3, <2>4 DEF Decide
<1>6. CASE Kept
  BY <1>1, <1>3, <1>6 DEF Honest, Ours, Ttl
<1>7. CASE Gone
  BY <1>1, <1>2, <1>7 DEF Honest, Ours
<1>8. CASE Settles
  <2>1. PICK x \in {"active", "stale"} : mem' = [mem EXCEPT !.status = x]
    BY <1>8 DEF Settled
  <2>2. mem'.status = x /\ mem'.producer = mem.producer /\ mem'.intent = mem.intent
    <3>1. LET settled == [mem EXCEPT !.status = x]
          IN settled.status = x /\ settled.producer = mem.producer /\ settled.intent = mem.intent
      BY <1>2, <1>8, EditedRegistration
    <3>2. QED
      BY <2>1, <3>1
  <2>3. mem.status \in {"pending", "active", "stale", "conflict", "retired"}
    BY <1>2, <1>8, RegistrationFields
  <2>4. QED
    BY <1>1, <1>2, <1>3, <1>8, <2>2, <2>3 DEF Honest, Ours, Ttl
<1>9. CASE Intends
  BY <1>1, <1>2, <1>9 DEF Honest
<1>10. CASE Fails
  <2>1. pc' \in {"ending", "failing"} /\ mem'.producer = mem.producer /\ mem'.intent = mem.intent
        /\ mem'.status \in {mem.status, "conflict"}
    BY <1>2, <1>10, Failing
  <2>2. QED
    BY <1>1, <1>2, <1>3, <1>10, <2>1 DEF Honest, Ours, Ttl
<1>11. QED
  BY <1>5, <1>6, <1>7, <1>8, <1>9, <1>10

\* Send, Answered, Loses and ReadBack: the write has its intent, its end leaves
\* nothing behind, and the read-back confirms only under the lease.
LEMMA WriteSettling == IInv /\ Settling /\ (Send \/ Answered \/ Loses \/ ReadBack) => Settling'
<1> SUFFICES ASSUME IInv, Settling, Send \/ Answered \/ Loses \/ ReadBack, ~overtaken'
             PROVE  Settling'
  BY DEF Settling
<1>1. ~overtaken /\ UNCHANGED <<durable, remote, contract>>
  <2>1. CASE Send \/ Answered
    BY <2>1 DEF Send, Answered, directory, bounds
  <2>2. CASE Loses
    BY <2>2 DEF Loses, Overtake, directory, bounds
  <2>3. CASE ReadBack
    BY <2>3 DEF ReadBack, network, directory, bounds
  <2>4. QED
    BY <2>1, <2>2, <2>3
<1>2. mem \in Registration /\ Honest(durable) /\ (pc # "down" => Honest(mem))
  BY <1>1 DEF IInv, PublisherTypeOK, Settling
<1>3. ASSUME Fail("failed") \/ Fail("conflict"), pc # "down", wire' = wire
      PROVE  Settling'
  <2>1. pc' \in {"ending", "failing"} /\ mem'.producer = mem.producer /\ mem'.intent = mem.intent
        /\ mem'.status \in {mem.status, "conflict"}
    BY <1>2, <1>3, Failing
  <2>2. QED
    BY <1>1, <1>2, <1>3, <2>1 DEF Settling, Honest, Ours, Ttl
<1>4. CASE Send
  <2>1. pc = "sending" /\ pc' = "writing" /\ mem' = mem /\ mem.intent # NoContent /\ durable = mem
    BY <1>1, <1>4, ContentDistinct DEF Send, IInv, Registered, InSight
  <2>2. QED
    BY <1>1, <1>2, <2>1 DEF Settling, Honest, Ours, Ttl
<1>5. CASE Answered
  <2>1. pc \in {"writing", "deleting"} /\ wire' = wire /\ reply' = "none"
        /\ reply \in {"ok", "failed", "conflict"}
    BY <1>5 DEF Answered, IInv, PublisherTypeOK
  <2>2. CASE pc = "writing" /\ pc' = "reading" /\ mem' = mem
    BY <1>1, <1>2, <2>1, <2>2 DEF Settling, Honest, Ours, Ttl
  <2>3. CASE AnswerDelete
    <3>1. pc' = "retiring" /\ mem' = [mem EXCEPT !.status = "retired", !.intent = NoContent] /\ ~Ours
      BY <1>1, <2>3 DEF AnswerDelete, Settling
    <3>2. mem # NoRegistration
      BY <2>3 DEF AnswerDelete, IInv, Registered
    <3>3. mem'.status = "retired"
      BY <1>2, <3>1, <3>2, EditedRegistration
    <3>4. QED
      BY <1>1, <1>2, <2>1, <3>1, <3>3 DEF Settling, Honest, Ours
  <2>4. CASE reply # "ok" /\ Fail(reply)
    BY <1>3, <2>1, <2>4
  <2>5. QED
    BY <1>5, <2>2, <2>3, <2>4 DEF Answered
<1>6. CASE Loses
  BY <1>3, <1>6 DEF Loses
<1>7. CASE ReadBack
  <2>1. pc = "reading" /\ wire' = wire
    BY <1>7 DEF ReadBack, network
  <2>2. CASE /\ LeaseHonoured(remote, mem.intent.o) /\ pc' = "confirming"
             /\ mem' = [status |-> IF mem.intent.stale THEN "stale" ELSE "active",
                        producer |-> mem.intent, intent |-> NoContent]
    <3>1. Ttl => remote.expires <= retainUntil(mem'.producer.o) + Second
      BY <2>2 DEF LeaseHonoured
    <3>2. mem'.status \in {"active", "stale"}
      BY <2>2
    <3>3. QED
      BY <1>1, <1>2, <2>1, <2>2, <3>1, <3>2 DEF Settling, Honest, Ours, Ttl
  <2>3. QED
    BY <1>3, <1>7, <2>1, <2>2 DEF ReadBack
<1>8. QED
  BY <1>4, <1>5, <1>6, <1>7

\* Persist, PersistFails, Crash and Start move registrations between memory and
\* the state file.
LEMMA SaveSettling ==
  IInv /\ Settling /\ (Persist \/ PersistFails \/ Crash \/ Start) => Settling'
<1> SUFFICES ASSUME IInv, Settling, Persist \/ PersistFails \/ Crash \/ Start, ~overtaken'
             PROVE  Settling'
  BY DEF Settling
<1>1. ~overtaken /\ UNCHANGED <<remote, contract, wire>>
  <2>1. CASE Persist \/ PersistFails
    BY <2>1 DEF Persist, PersistFails, network, directory, bounds
  <2>2. CASE Crash
    BY <2>2 DEF Crash, directory
  <2>3. CASE Start
    BY <2>3 DEF Start, Overtake, directory, bounds
  <2>4. QED
    BY <2>1, <2>2, <2>3
<1>2. mem \in Registration /\ Honest(durable) /\ (pc # "down" => Honest(mem))
  BY <1>1 DEF IInv, PublisherTypeOK, Settling
<1>3. CASE Persist
  <2>1. /\ durable' = mem /\ mem' = mem /\ reply' = reply /\ Locals
        /\ \/ pc = "recovering" /\ pc' = "deciding"
           \/ pc # "down" /\ pc' \in {"sending", "ending", "idle"}
        /\ pc \notin {"writing", "deleting", "down"}
    BY <1>3 DEF Persist, After, network
  <2>2. wire = {}
    BY <1>1, <2>1 DEF IInv, InSight
  <2>3. pc' = "deciding" => seen' # NoEntry /\ mem.status # "conflict"
    BY <1>1, <2>1 DEF Settling, Locals
  <2>4. QED
    BY <1>1, <1>2, <2>1, <2>2, <2>3 DEF Settling, Honest, Ours, Ttl
<1>4. CASE PersistFails
  <2>1. /\ durable' \in {durable, mem}
        /\ pc \in {"recovering", "intending", "confirming", "retiring", "failing", "ending"}
        /\ (pc' = "idle" /\ mem' = mem) \/ Fail("failed")
    BY <1>4 DEF PersistFails, After
  <2>2. wire = {}
    BY <1>1, <2>1 DEF IInv, InSight
  <2>3. pc' \in {"idle", "ending", "failing"} /\ mem'.producer = mem.producer
        /\ mem'.intent = mem.intent /\ mem'.status \in {mem.status, "conflict"}
    BY <1>2, <2>1, Failing
  <2>4. QED
    BY <1>1, <1>2, <2>1, <2>2, <2>3 DEF Settling, Honest, Ours, Ttl
<1>5. CASE Crash
  BY <1>1, <1>2, <1>5 DEF Crash, Settling, Honest, Ours, Ttl
<1>6. CASE Start
  BY <1>1, <1>2, <1>6 DEF Start, Settling, Honest, Ours, Ttl
<1>7. QED
  BY <1>3, <1>4, <1>5, <1>6

\* Serving a request: a write has its intent in the state file and in memory, and
\* a deletion leaves nothing.
LEMMA ServeSettling == ASSUME IInv, Settling, NEW req \in wire, Serve(req) PROVE Settling'
<1> SUFFICES ASSUME ~overtaken PROVE Settling'
  BY ServeEffect DEF Settling
<1>1. /\ UNCHANGED <<pc, seen, mem, durable, overtaken, contract>>
      /\ (remote' = remote) \/ Writes(req) \/ Deletes(req)
      /\ ~Awaited(req) => reply' = reply
      /\ Awaited(req) /\ req.op = "DELETE" /\ reply' = "ok" => remote' = NoEntry
  BY ServeEffect
<1>2. wire' = {} /\ reply = "none" /\ pc \in {"writing", "deleting", "down"}
  BY ServeEffect DEF IInv, PublisherTypeOK, InSight
<1>3. pc = "deleting" => req.op = "DELETE" /\ Awaited(req)
  BY DEF IInv, InSight, Awaited
<1>4. CASE remote' = remote
  BY <1>1, <1>2, <1>3, <1>4 DEF Settling, Honest, Ours, Ttl
<1>5. CASE Writes(req)
  <2>1. durable.intent # NoContent /\ pc \in {"writing", "down"}
    BY <1>2, <1>3, <1>5 DEF Settling, Writes
  <2>2. pc = "writing" => mem.intent # NoContent
    BY ContentDistinct DEF IInv, Registered
  <2>3. QED
    BY <1>1, <1>2, <2>1, <2>2 DEF Settling, Honest
<1>6. CASE Deletes(req)
  BY <1>1, <1>2, <1>6 DEF Settling, Honest, Ours, Deletes
<1>7. QED
  BY <1>1, <1>4, <1>5, <1>6

\* No action makes a registration claim what is not true.
LEMMA StepSettling == IInv /\ Settling /\ [Next]_vars => Settling'
<1> SUFFICES ASSUME IInv, Settling, [Next]_vars PROVE Settling'
  OBVIOUS
<1>1. ASSUME NEW c \in {Absent, Unconfirmed, Quarantined} \cup latest..clock, Begin(c) PROVE Settling'
  BY <1>1 DEF Begin, directory, network, Settling, Honest, Ours, Ttl, IInv, Registered
<1>2. CASE Get \/ Decide \/ Send \/ Answered \/ Loses \/ ReadBack \/ Persist \/ PersistFails
           \/ Crash \/ Start
  BY <1>2, GetSettling, DecideSettling, WriteSettling, SaveSettling
<1>3. ASSUME NEW req \in wire, Drop(req) PROVE Settling'
  BY <1>3 DEF Drop, work, directory, bounds, Settling, Honest, Ours, Ttl
<1>4. ASSUME NEW req \in wire, Serve(req) PROVE Settling'
  BY <1>4, ServeSettling
<1>5. CASE Purge \/ OtherClient
  <2>1. ~Ours' /\ UNCHANGED <<pc, seen, mem, durable, wire, reply, overtaken>>
    BY <1>5 DEF Purge, OtherClient, Ours, work, network
  <2>2. QED
    BY <2>1, GoneHonest
<1>6. CASE Tick \/ UNCHANGED vars
  BY <1>6 DEF Tick, vars, work, directory, network, bounds, Settling, Honest, Ours, Ttl
<1>7. QED
  BY <1>1, <1>2, <1>3, <1>4, <1>5, <1>6 DEF Next

\* assertOwned() after any crash: what the publisher wrote is in the state file
\* before the Directory can hold it, and an ID is quarantined only after another
\* client's change, a request given up on the wire, or the expiry of the own
\* registration between two requests of one reconciliation.
THEOREM OwnershipAlwaysRecognised == Spec => []OwnershipRecognised
<1>1. IInv => OwnershipRecognised
  <2>1. ASSUME IInv PROVE DurablyOwned
    BY <2>1 DEF IInv, Known, DurablyOwned
  <2>2. ASSUME IInv PROVE QuarantineJustified
    BY <2>2 DEF IInv, PublisherTypeOK, Undisturbed, Quiet, QuarantineJustified
  <2>3. QED
    BY <2>1, <2>2 DEF OwnershipRecognised
<1>2. QED
  BY <1>1, PublisherInvariant, PTL

\* The conditions of put(), renew() and delete(): a request of the publisher,
\* however late it is served, never replaces or removes what another client wrote.
THEOREM ForeignNeverTouched == Spec => ForeignUntouched
<1> DEFINE Untouched == (remote # NoEntry /\ remote.content = Foreign /\ remote' # remote) => wire' = wire
<1>1. IInv /\ [Next]_vars => Untouched
  <2> SUFFICES ASSUME IInv, [Next]_vars, remote # NoEntry, remote.content = Foreign, remote' # remote
               PROVE  wire' = wire
    OBVIOUS
  <2>1. ASSUME NEW c, Begin(c) PROVE FALSE
    BY <2>1 DEF Begin, directory
  <2>2. CASE Get \/ Decide \/ Send \/ Answered \/ Loses \/ ReadBack \/ Persist \/ PersistFails
             \/ Crash \/ Start \/ Tick
    BY <2>2 DEF Get, Decide, Send, Answered, Loses, ReadBack, Persist, PersistFails, Crash, Start,
                Tick, directory
  <2>3. CASE Purge \/ OtherClient
    BY <2>3 DEF Purge, OtherClient, network
  <2>4. ASSUME NEW req \in wire, Drop(req) PROVE FALSE
    BY <2>4 DEF Drop, directory
  <2>5. ASSUME NEW req \in wire, Serve(req) PROVE FALSE
    <3>1. Etag
      BY DEF IInv, Conditional
    <3>2. req.condition = Create \/ (req.condition \in 1..tag /\ NotForeign(req.condition))
      BY <3>1 DEF IInv, Conditional
    <3>3. ~Satisfied(req)
      BY <3>1, <3>2 DEF Satisfied, NotForeign, Create, IInv, PublisherTypeOK
    <3>4. QED
      BY <2>5, <3>3, ServeEffect DEF Writes, Deletes
  <2>6. CASE UNCHANGED vars
    BY <2>6 DEF vars, directory
  <2>7. QED
    BY <2>1, <2>2, <2>3, <2>4, <2>5, <2>6 DEF Next
<1>2. QED
  BY <1>1, PublisherInvariant, PTL DEF Spec, ForeignUntouched

\* retire() and the lease checks: a registration retired with no write begun since
\* has left no entry behind, and a confirmed one ends with its observation.
THEOREM EntriesAlwaysEnd == Spec => []EntriesEnd
<1>1. Init => Settling
  BY DEF Init, Settling, Honest, Ours, NoRegistration, NoEntry
<1>2. IInv /\ Settling /\ [Next]_vars => Settling'
  BY StepSettling
<1>3. Settling => EntriesEnd
  BY DEF Settling, Honest, EntriesEnd, RetiredGone, ConfirmedLease
<1>4. QED
  BY <1>1, <1>2, <1>3, PublisherInvariant, PTL DEF Spec
=============================================================================
