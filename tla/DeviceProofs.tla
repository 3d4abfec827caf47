----------------------------- MODULE DeviceProofs -----------------------------
(***************************************************************************)
(* What is asked of one device and what it tells.                          *)
(*                                                                         *)
(* PullPoint, for every limit, restart budget, option and set of faults:   *)
(* a pull point leaves no resource behind unreported and no record out of  *)
(* order, falsely labelled, or lost without a diagnostic.                  *)
(*                                                                         *)
(* Inspection, for every bound and scenario: a device is retired only for  *)
(* rounds it left unanswered, what hangs is bounded and accounted for at a *)
(* shutdown, and part of an inventory is never taken for the whole.        *)
(***************************************************************************)
EXTENDS PullPoint, Inspection, FiniteSetTheorems, TLAPS

-----------------------------------------------------------------------------
(* The pull point.                                                         *)

Phases == {"creating", "synchronizing", "loop", "renewing", "pulling", "releasing", "cleaning",
           "settling", "notifying", "done"}
Running == {"synchronizing", "loop", "renewing", "pulling"}    \* with a usable resource
EventRecord == [event : Nat \ {0}, continuity : {"initial", "continuous", "gap"}]

ControlType ==
  /\ phase \in Phases /\ generation \in 0..(MaxRestarts + 1) /\ restarts \in 0..MaxRestarts
  /\ stopRequested \in BOOLEAN /\ aborted \in BOOLEAN
  /\ endpointGone \in BOOLEAN /\ cleanupAttempted \in BOOLEAN /\ diagnosed \in BOOLEAN
  /\ remote \in {"pending", "resolved", "rejected"} /\ stopped \in {"pending", "resolved", "rejected"}
  /\ continuity \in {"initial", "continuous", "gap"}
DeliveryType ==
  /\ drain \in {"none", "running", "exited", "failed"} /\ awaiting \in BOOLEAN
  /\ queue \in Seq(EventRecord) /\ active \in EventRecord \cup {NoRecord} /\ log \in Seq(EventRecord)
  /\ accepted \in Nat
DeviceType ==
  /\ resource \in [Generation -> {"none", "alive", "gone"}]
  /\ unsubscribes \in [Generation -> Nat]
  /\ inbox \in Seq(Nat \ {0}) /\ produced \in Nat /\ orphan \in BOOLEAN
PullTypeOK == ControlType /\ DeliveryType /\ DeviceType

\* A running controller owns a usable resource; restarts are counted before the
\* resource that replaces the last one exists.
Ownership ==
  /\ phase \in Running => generation # 0 /\ ~endpointGone /\ ~cleanupAttempted
  /\ phase = "creating" =>
       generation <= restarts /\ (generation # 0 => endpointGone) /\ remote = "pending"
  /\ phase = "releasing" => cleanupAttempted /\ ~endpointGone /\ restarts < MaxRestarts
  /\ phase = "cleaning" => cleanupAttempted /\ ~endpointGone
  /\ phase \in {"releasing", "cleaning"} => generation # 0 /\ unsubscribes[generation] = 0
  /\ generation <= restarts + 1

\* What there is on the device, by generation.
Resources ==
  /\ \A g \in Generation :
       /\ g < generation => resource[g] = "gone" /\ unsubscribes[g] <= 1
       /\ g = generation => resource[g] # "none" /\ unsubscribes[g] <= 1
       /\ g > generation => resource[g] = "none" /\ unsubscribes[g] = 0
  /\ generation # 0 /\ ~cleanupAttempted => unsubscribes[generation] = 0
  /\ generation # 0 /\ endpointGone => resource[generation] = "gone"

\* How a subscription ends.
Ending ==
  /\ orphan => errors # {}
  /\ remote = "pending" <=> phase \notin {"settling", "notifying", "done"}
  /\ remote = "rejected" => "cleanup" \in errors
  /\ phase \in {"cleaning", "settling", "notifying", "done"} => stopRequested
  /\ RemoteConfirmed
  /\ state = "closed" => phase = "done" /\ errors = {} /\ stopped = "resolved"
  /\ phase \in {"notifying", "done"} => queue = << >> /\ drain # "running"

\* A record is being delivered exactly while drain() runs.
Draining == drain = "running" <=> active # NoRecord

\* The inbox holds the newest events of the resource, in order.
Inbox ==
  /\ Len(inbox) <= produced
  /\ \A i \in 1..Len(inbox) : inbox[i] = produced - Len(inbox) + i
  /\ generation = 0 \/ resource[generation] # "alive" => inbox = << >>

\* Each record follows the one before it; NoRecord stands for none.
Follows(a, b) ==
  IF a = NoRecord THEN b.continuity # "continuous"
  ELSE /\ b.continuity # "initial" /\ b.event > a.event
       /\ b.continuity = "continuous" => b.event = a.event + 1
ChainFrom(prev, s) == \A i \in 1..Len(s) : Follows(IF i = 1 THEN prev ELSE s[i - 1], s[i])
LastOf(prev, s) == IF s = << >> THEN prev ELSE s[Len(s)]
LastLogged == LastOf(NoRecord, log)
LastTaken == IF active = NoRecord THEN LastLogged ELSE active
LastQueued == LastOf(LastTaken, queue)
Newest == produced - Len(inbox)    \* no later event was pulled
Chain ==
  /\ ChainFrom(NoRecord, log)
  /\ drain # "failed" =>
       /\ active # NoRecord => Follows(LastLogged, active)
       /\ ChainFrom(LastTaken, queue)
       /\ LastLogged.event <= Newest /\ LastTaken.event <= Newest
       /\ \A i \in 1..Len(queue) : queue[i].event <= Newest

\* The label of the next record, while one may still be pulled.
Label ==
  /\ phase \in {"creating", "releasing"} => continuity # "continuous"
  /\ drain # "failed" =>
       /\ continuity = "initial" => LastQueued = NoRecord
       /\ continuity = "continuous" /\ phase \in Running /\ resource[generation] = "alive" =>
            LastQueued # NoRecord /\ LastQueued.event = Newest

\* What was accepted is delivered, waiting, or diagnosed as a gap.
Undelivered == Len(queue) + (IF active = NoRecord THEN 0 ELSE 1)
Accounted == accepted # Len(log) + Undelivered => diagnosed

\* The inductive invariant.
IInv == /\ PullTypeOK /\ Ownership /\ Resources /\ Ending
        /\ Draining /\ Inbox /\ Chain /\ Label /\ Accounted /\ CapacityBounded

-----------------------------------------------------------------------------
\* The smaller of two natural numbers.
LEMMA MinOfTwo ==
  ASSUME NEW a \in Nat, NEW b \in Nat
  PROVE  Min({a, b}) \in Nat /\ Min({a, b}) \in {a, b} /\ Min({a, b}) <= a /\ Min({a, b}) <= b
<1>1. \E x \in {a, b} : \A y \in {a, b} : x <= y
  <2>1. CASE a <= b
    BY <2>1
  <2>2. CASE b <= a
    BY <2>2
  <2>3. QED
    BY <2>1, <2>2
<1>2. Min({a, b}) \in {a, b} /\ \A y \in {a, b} : Min({a, b}) <= y
  BY <1>1 DEF Min
<1>3. QED
  BY <1>2

\* What is left of a sequence without its k oldest members.
LEMMA Suffix ==
  ASSUME NEW S, NEW s \in Seq(S), NEW k \in 0..Len(s)
  PROVE  LET t == SubSeq(s, k + 1, Len(s))
         IN  t \in Seq(S) /\ Len(t) = Len(s) - k /\ \A i \in 1..Len(t) : t[i] = s[i + k]
OBVIOUS

LEMMA Prefix ==
  ASSUME NEW S, NEW s \in Seq(S), NEW k \in 0..Len(s)
  PROVE  LET t == SubSeq(s, 1, k)
         IN  t \in Seq(S) /\ Len(t) = k /\ \A i \in 1..k : t[i] = s[i]
OBVIOUS

\* The last record of each stage is a record, or NoRecord.
LEMMA LastTyped ==
  ASSUME DeliveryType
  PROVE  /\ LastLogged \in EventRecord \cup {NoRecord} /\ LastTaken \in EventRecord \cup {NoRecord}
         /\ LastQueued \in EventRecord \cup {NoRecord} /\ LastQueued.event \in Nat
         /\ LastLogged.event \in Nat /\ LastTaken.event \in Nat
<1>1. \A s \in Seq(EventRecord) : s # << >> => s[Len(s)] \in EventRecord
  OBVIOUS
<1>2. LastLogged \in EventRecord \cup {NoRecord}
  BY <1>1 DEF DeliveryType, LastLogged, LastOf
<1>3. LastTaken \in EventRecord \cup {NoRecord}
  BY <1>2 DEF DeliveryType, LastTaken
<1>4. LastQueued \in EventRecord \cup {NoRecord}
  BY <1>1, <1>3 DEF DeliveryType, LastQueued, LastOf
<1>5. \A r \in EventRecord \cup {NoRecord} : r.event \in Nat
  BY DEF EventRecord, NoRecord
<1>6. QED
  BY <1>2, <1>3, <1>4, <1>5

\* A step that leaves the delivery alone keeps its order.
LEMMA DeliveryKept ==
  ASSUME DeliveryType, DeviceType, DeviceType', Chain, UNCHANGED delivery, Newest' >= Newest
  PROVE  /\ DeliveryType' /\ Chain'
         /\ UNCHANGED <<LastLogged, LastTaken, LastQueued, NoRecord>>
<1>1. UNCHANGED <<queue, active, drain, awaiting, log, accepted, NoRecord>>
  BY DEF delivery, NoRecord
<1>2. UNCHANGED <<LastLogged, LastTaken, LastQueued>>
  BY <1>1 DEF LastLogged, LastTaken, LastQueued, LastOf
<1>3. DeliveryType'
  BY <1>1 DEF DeliveryType
<1>4. Newest \in Int /\ Newest' \in Int
  BY DEF DeviceType, Newest
<1>5. \A i \in 1..Len(queue) : queue[i] \in EventRecord /\ queue[i].event \in Nat
  <2>1. \A i \in 1..Len(queue) : queue[i] \in EventRecord
    BY DEF DeliveryType
  <2>2. QED
    BY <2>1 DEF EventRecord
<1>6. Chain'
  BY <1>1, <1>2, <1>4, <1>5, LastTyped DEF Chain, ChainFrom, Follows
<1>7. QED
  BY <1>1, <1>2, <1>3, <1>6

\* A turn of the controller from one of its awaits: it goes on with the
\* resource, begins to release it, knows that it is gone and replaces it, or
\* ends.  Messages may be lost when it does not go on.
Turn ==
  /\ phase \in Running
  /\ UNCHANGED <<generation, stopped, delivery, resource, produced, unsubscribes, orphan>>
  /\ stopRequested' \in BOOLEAN /\ aborted' \in BOOLEAN /\ diagnosed' \in BOOLEAN
  /\ state' # "closed" /\ errors \subseteq errors'
  /\ diagnosed => diagnosed'
  /\ continuity' \in {continuity, "gap"}
  /\ cleanupAttempted' \in BOOLEAN /\ endpointGone' \in BOOLEAN
  /\ \/ phase' \in Running /\ UNCHANGED inbox
     \/ /\ phase' \notin Running
        /\ \E k \in 0..Len(inbox) : inbox' = SubSeq(inbox, k + 1, Len(inbox))
  /\ \/ phase' \in Running /\ UNCHANGED <<remote, endpointGone, cleanupAttempted, restarts>>
     \/ /\ phase' = "cleaning" /\ stopRequested' /\ cleanupAttempted' /\ ~endpointGone'
        /\ UNCHANGED <<remote, restarts>>
     \/ /\ phase' = "releasing" /\ restarts < MaxRestarts /\ cleanupAttempted' /\ ~endpointGone'
        /\ continuity' = "gap" /\ UNCHANGED <<remote, restarts>>
     \/ /\ phase' = "creating" /\ restarts < MaxRestarts /\ restarts' = restarts + 1
        /\ resource[generation] = "gone" /\ endpointGone'
        /\ continuity' = "gap" /\ UNCHANGED <<remote, cleanupAttempted>>
     \/ /\ phase' = "settling" /\ stopRequested' /\ remote' = "resolved"
        /\ resource[generation] = "gone" /\ endpointGone'
        /\ restarts' \in 0..MaxRestarts /\ restarts' >= restarts /\ UNCHANGED cleanupAttempted

LEMMA TurnStep == IInv /\ Turn => IInv'
<1> SUFFICES ASSUME IInv, Turn PROVE IInv'
  OBVIOUS
<1> USE PullAssumption
<1>1. PullTypeOK /\ Ownership /\ Resources /\ Ending /\ Inbox /\ Chain /\ Label
  BY DEF IInv
<1>2. phase \in Running /\ phase # "creating" /\ generation # 0 /\ remote = "pending"
  BY <1>1 DEF Turn, Ownership, Ending, Running
<1>3. UNCHANGED <<generation, stopped, queue, active, drain, awaiting, log, accepted,
                  resource, produced, unsubscribes, orphan, Generation, NoRecord>>
  BY DEF Turn, delivery, Generation, NoRecord
<1>4. /\ inbox' \in Seq(Nat \ {0}) /\ Len(inbox') \in 0..Len(inbox)
      /\ \A i \in 1..Len(inbox') : inbox'[i] = inbox[i + (Len(inbox) - Len(inbox'))]
      /\ phase' \in Running => inbox' = inbox
  <2>1. CASE inbox' = inbox
    BY <2>1, <1>1 DEF PullTypeOK, DeviceType
  <2>2. CASE phase' \notin Running
    <3>1. PICK k \in 0..Len(inbox) : inbox' = SubSeq(inbox, k + 1, Len(inbox))
      BY <2>2 DEF Turn
    <3>2. inbox \in Seq(Nat \ {0})
      BY <1>1 DEF PullTypeOK, DeviceType
    <3>3. /\ inbox' \in Seq(Nat \ {0}) /\ Len(inbox') = Len(inbox) - k
          /\ \A i \in 1..Len(inbox') : inbox'[i] = inbox[i + k]
      BY <3>1, <3>2, Suffix
    <3>4. Len(inbox) \in Nat /\ Len(inbox') \in 0..Len(inbox) /\ Len(inbox) - Len(inbox') = k
      BY <3>1, <3>2, <3>3
    <3>5. QED
      BY <2>2, <3>3, <3>4
  <2>3. QED
    BY <2>1, <2>2 DEF Turn
<1>5. phase' \in Running \cup {"cleaning", "releasing", "creating", "settling"}
  BY DEF Turn
<1>6. ControlType'
  <2>1. ControlType
    BY <1>1 DEF PullTypeOK
  <2>2. generation' \in 0..(MaxRestarts + 1) /\ stopped' \in {"pending", "resolved", "rejected"}
    BY <1>3, <2>1 DEF ControlType
  <2>3. phase' \in Phases
    BY <1>5 DEF Running, Phases
  <2>4. restarts' \in 0..MaxRestarts
    BY <2>1 DEF Turn, ControlType
  <2>5. stopRequested' \in BOOLEAN /\ aborted' \in BOOLEAN /\ diagnosed' \in BOOLEAN
        /\ cleanupAttempted' \in BOOLEAN
    BY DEF Turn
  <2>6. endpointGone' \in BOOLEAN
    BY DEF Turn
  <2>7. remote' \in {"pending", "resolved", "rejected"}
    BY <2>1 DEF Turn, ControlType
  <2>8. continuity' \in {"initial", "continuous", "gap"}
    BY <2>1 DEF Turn, ControlType
  <2>9. QED
    BY <2>2, <2>3, <2>4, <2>5, <2>6, <2>7, <2>8 DEF ControlType
<1>7. DeliveryType' /\ DeviceType'
  BY <1>1, <1>3, <1>4 DEF PullTypeOK, DeliveryType, DeviceType
<1>8. Ownership'
  BY <1>1, <1>2, <1>3 DEF Turn, Ownership, Resources, PullTypeOK, ControlType, Running, Generation
<1>9. Resources'
  BY <1>1, <1>2, <1>3 DEF Turn, Ownership, Resources, PullTypeOK, ControlType, Running, Generation
<1>10. Ending'
  BY <1>1, <1>2, <1>3 DEF Turn, Ending, RemoteConfirmed, Running
<1>11. Draining' /\ CapacityBounded'
  BY <1>3 DEF IInv, Draining, CapacityBounded
<1>12. Inbox'
  BY SMTT(30), <1>1, <1>2, <1>3, <1>4 DEF Inbox, PullTypeOK, DeviceType
<1>13. Newest' >= Newest /\ (phase' \in Running => Newest' = Newest)
  BY SMTT(30), <1>1, <1>3, <1>4 DEF Newest, PullTypeOK, DeviceType
<1>14. Chain' /\ LastQueued' = LastQueued
  BY <1>1, <1>7, <1>13, DeliveryKept DEF Turn, PullTypeOK
<1>16. Label'
  BY <1>1, <1>2, <1>3, <1>13, <1>14 DEF Turn, Label, Running
<1>17. Accounted'
  BY <1>1, <1>3 DEF IInv, Accounted, Undelivered, Turn
<1>18. QED
  BY <1>6, <1>7, <1>8, <1>9, <1>10, <1>11, <1>12, <1>14, <1>16, <1>17 DEF IInv, PullTypeOK

\* While the controller runs it owns its resource, which is alive or gone.
LEMMA RunningOwns ==
  ASSUME IInv, phase \in Running
  PROVE  /\ Owned /\ generation \in Generation /\ remote = "pending" /\ state # "closed"
         /\ ~endpointGone /\ ~cleanupAttempted /\ ControlType
         /\ resource[generation] # "alive" => resource[generation] = "gone"
<1> USE PullAssumption DEF Generation
<1>1. ControlType /\ DeviceType /\ Ownership /\ Resources /\ Ending
  BY DEF IInv, PullTypeOK
<1>2. generation \in Generation /\ ~endpointGone /\ ~cleanupAttempted
  BY <1>1 DEF ControlType, Ownership
<1>3. resource[generation] \in {"none", "alive", "gone"} /\ resource[generation] # "none"
  BY <1>1, <1>2 DEF DeviceType, Resources
<1>4. remote = "pending" /\ state # "closed"
  BY <1>1 DEF Ending, Running
<1>5. QED
  BY <1>1, <1>2, <1>3, <1>4 DEF Owned, ControlType

\* What a running controller may leave alone in a turn.
Still == UNCHANGED <<generation, stopped, delivery, resource, produced, unsubscribes, orphan>>
MayDrain == \E k \in 0..Len(inbox) : inbox' = SubSeq(inbox, k + 1, Len(inbox))

\* The ways a turn ends: finish(), recover() and the next await.
LEMMA FinishTurn ==
  ASSUME IInv, phase \in Running, Still, MayDrain, NEW es, Finish(es, Owned),
         UNCHANGED <<generation, endpointGone, restarts>>,
         UNCHANGED gap \/ Gap
  PROVE  Turn
<1>1. Owned /\ ~endpointGone /\ ~cleanupAttempted /\ ControlType
  BY RunningOwns
<1>2. phase' = "cleaning" /\ phase' \notin Running /\ state' = "closing"
  BY <1>1 DEF Finish, Running
<1>3. diagnosed' \in BOOLEAN /\ (diagnosed => diagnosed') /\ continuity' \in {continuity, "gap"}
  BY <1>1 DEF ControlType, gap, Gap
<1>4. QED
  BY <1>1, <1>2, <1>3 DEF Turn, Still, MayDrain, Finish, ControlType

LEMMA RecoverTurn ==
  ASSUME IInv, phase \in Running, Still, MayDrain, NEW gone \in BOOLEAN, Recover(gone),
         gone => resource[generation] # "alive"
  PROVE  Turn
<1> USE PullAssumption
<1>1. Owned /\ ~endpointGone /\ ~cleanupAttempted /\ ControlType /\ remote = "pending"
      /\ state # "closed"
  BY RunningOwns
<1>2. gone => resource[generation] = "gone"
  BY RunningOwns
<1>3. diagnosed' = TRUE /\ continuity' = "gap" /\ endpointGone' = gone
  BY DEF Recover, Replace, Gap
<1>4. CASE restarts >= MaxRestarts
  <2>1. Finish({"expired"}, ~gone) /\ UNCHANGED restarts
    BY <1>4 DEF Recover, Replace
  <2>2. CASE gone
    BY <1>1, <1>2, <1>3, <2>1, <2>2 DEF Turn, Still, MayDrain, Finish, ControlType, Running
  <2>3. CASE ~gone
    BY <1>1, <1>3, <2>1, <2>3 DEF Turn, Still, MayDrain, Finish, ControlType, Running
  <2>4. QED
    BY <2>2, <2>3
<1>5. CASE restarts < MaxRestarts /\ gone
  <2>1. StartCreate /\ restarts' = restarts + 1
    BY <1>1, <1>5 DEF Recover, Replace, ControlType
  <2>2. CASE aborted
    BY <1>1, <1>2, <1>3, <1>5, <2>1, <2>2
       DEF Turn, Still, MayDrain, StartCreate, Finish, ControlType, Running
  <2>3. CASE ~aborted
    BY <1>1, <1>2, <1>3, <1>5, <2>1, <2>3
       DEF Turn, Still, MayDrain, StartCreate, Await, ControlType, Running
  <2>4. QED
    BY <2>2, <2>3
<1>6. CASE restarts < MaxRestarts /\ ~gone
  <2>1. Await("releasing", "recovering") /\ cleanupAttempted' = TRUE /\ UNCHANGED restarts
    BY <1>1, <1>6 DEF Recover, Replace, ControlType
  <2>2. QED
    BY <1>1, <1>3, <1>6, <2>1 DEF Turn, Still, MayDrain, Await, ControlType, Running
<1>7. QED
  BY <1>1, <1>4, <1>5, <1>6 DEF ControlType

LEMMA AwaitTurn ==
  ASSUME IInv, phase \in Running, Still, UNCHANGED inbox, NEW p \in Running, NEW s, Await(p, s),
         s # "closed", UNCHANGED <<endpointGone, cleanupAttempted, restarts>>,
         UNCHANGED gap \/ Gap
  PROVE  Turn
<1>1. ControlType
  BY RunningOwns
<1>2. diagnosed' \in BOOLEAN /\ (diagnosed => diagnosed') /\ continuity' \in {continuity, "gap"}
  BY <1>1 DEF ControlType, gap, Gap
<1>3. QED
  BY <1>1, <1>2 DEF Turn, Still, Await, ControlType

LEMMA NothingDrained == ASSUME DeviceType, UNCHANGED inbox PROVE MayDrain
BY Suffix DEF DeviceType, MayDrain

-----------------------------------------------------------------------------
LEMMA SynchronizedStep == IInv /\ Synchronized => IInv'
<1> SUFFICES ASSUME IInv, Synchronized PROVE Turn
  BY TurnStep
<1>1. phase \in Running /\ Still /\ UNCHANGED inbox /\ MayDrain
  BY NothingDrained
     DEF Synchronized, Finish, Await, Still, device, Running, IInv, PullTypeOK
<1>2. UNCHANGED <<generation, endpointGone, restarts, gap>>
  BY DEF Synchronized
<1>3. CASE Await("loop", "active") /\ UNCHANGED cleanupAttempted
  BY <1>1, <1>2, <1>3, AwaitTurn DEF Running
<1>4. CASE Finish({"sync"}, Owned)
  BY <1>1, <1>2, <1>4, FinishTurn
<1>5. QED
  BY <1>3, <1>4 DEF Synchronized

LEMMA LoopStep == IInv /\ Loop => IInv'
<1> SUFFICES ASSUME IInv, Loop PROVE Turn
  BY TurnStep
<1>1. phase \in Running /\ UNCHANGED <<delivery, device>>
  BY DEF Loop, Running
<1>2. CASE stopRequested \/ DeliveryFailed
  <2>1. /\ Finish(IF stopRequested THEN {} ELSE {"delivery"}, Owned)
        /\ UNCHANGED <<generation, endpointGone, restarts, negotiations, gap>>
    BY <1>2 DEF Loop
  <2>2. Still /\ MayDrain
    BY <1>1, <2>1, NothingDrained DEF Finish, Still, device, IInv, PullTypeOK
  <2>3. QED
    BY <1>1, <2>1, <2>2, FinishTurn
<1>3. CASE Recover(FALSE)
  <2>1. Still /\ MayDrain
    BY <1>1, <1>3, NothingDrained
       DEF Recover, Replace, Finish, StartCreate, Await, Still, device, IInv, PullTypeOK
  <2>2. QED
    BY <1>1, <1>3, <2>1, RecoverTurn
<1>4. CASE (Await("renewing", state) \/ Await("pulling", state)) /\ UNCHANGED <<own, gap>>
  <2>1. Still /\ UNCHANGED inbox /\ state # "closed"
    BY <1>1, <1>4, RunningOwns DEF Await, Still, device, own
  <2>2. QED
    BY <1>1, <1>4, <2>1, AwaitTurn DEF Running, own
<1>5. QED
  BY <1>2, <1>3, <1>4 DEF Loop

\* The catch block of a pull or renewal.
LEMMA PullFailedTurn ==
  ASSUME IInv, phase \in {"renewing", "pulling"}, MayDrain,
         UNCHANGED <<delivery, resource, produced, unsubscribes, orphan>>,
         NEW reason \in {"aborted", "unknown", "limit", "failed"}, PullFailed(reason),
         reason = "limit" => UNCHANGED inbox,
         reason = "unknown" => resource[generation] # "alive"
  PROVE  Turn
<1>1. phase \in Running
  BY DEF Running
<1>2. ASSUME NEW es, Finish(es, Owned), UNCHANGED gap \/ Gap,
             UNCHANGED <<generation, endpointGone, restarts, negotiations>>
      PROVE  Turn
  <2>1. Still
    BY <1>2 DEF Finish, Still
  <2>2. QED
    BY <1>1, <1>2, <2>1, FinishTurn
<1>3. CASE DeliveryFailed \/ stopRequested
  BY <1>2, <1>3 DEF PullFailed
<1>4. CASE ~DeliveryFailed /\ ~stopRequested /\ reason = "unknown"
  <2>1. Recover(TRUE)
    BY <1>4 DEF PullFailed
  <2>2. Still
    BY <2>1 DEF Recover, Replace, Finish, StartCreate, Await, Still
  <2>3. QED
    BY <1>1, <1>4, <2>1, <2>2, RecoverTurn
<1>5. CASE ~DeliveryFailed /\ ~stopRequested /\ reason = "limit" /\ negotiations < 2
  <2>1. /\ Await("loop", state)
        /\ UNCHANGED <<generation, endpointGone, cleanupAttempted, restarts, gap>>
    BY <1>5 DEF PullFailed
  <2>2. Still /\ UNCHANGED inbox /\ state # "closed"
    BY <1>1, <1>5, <2>1, RunningOwns DEF Await, Still
  <2>3. QED
    BY <1>1, <2>1, <2>2, AwaitTurn DEF Running
<1>6. CASE ~DeliveryFailed /\ ~stopRequested /\ reason # "unknown"
           /\ ~(reason = "limit" /\ negotiations < 2)
  BY <1>2, <1>6 DEF PullFailed
<1>7. QED
  BY <1>3, <1>4, <1>5, <1>6

LEMMA RenewStep == IInv /\ Renew => IInv'
<1> SUFFICES ASSUME IInv, Renew PROVE Turn
  BY TurnStep
<1>1. /\ phase \in Running /\ phase = "renewing" /\ UNCHANGED <<delivery, device>>
      /\ MayDrain /\ UNCHANGED <<delivery, resource, produced, unsubscribes, orphan, inbox>>
  BY NothingDrained DEF Renew, Running, device, IInv, PullTypeOK
<1>2. ASSUME NEW es, Finish(es, Owned), UNCHANGED gap \/ Gap,
             UNCHANGED <<generation, endpointGone, restarts, negotiations>>
      PROVE  Turn
  <2>1. Still
    BY <1>1, <1>2 DEF Finish, Still
  <2>2. QED
    BY <1>1, <1>2, <2>1, FinishTurn
<1>3. CASE PullFailed("aborted")
  BY <1>1, <1>3, PullFailedTurn
<1>4. CASE Await("pulling", state) /\ UNCHANGED own /\ (UNCHANGED gap \/ Gap)
  <2>1. Still /\ state # "closed"
    BY <1>1, <1>4, RunningOwns DEF Await, Still, own
  <2>2. QED
    BY <1>1, <1>4, <2>1, AwaitTurn DEF Running, own
<1>5. CASE resource[generation] # "alive" /\ Recover(TRUE)
  <2>1. Still
    BY <1>1, <1>5 DEF Recover, Replace, Finish, StartCreate, Await, Still
  <2>2. QED
    BY <1>1, <1>5, <2>1, RecoverTurn
<1>6. QED
  BY <1>2, <1>3, <1>4, <1>5 DEF Renew

LEMMA PullFailsStep == IInv /\ PullFails => IInv'
<1> SUFFICES ASSUME IInv, PullFails PROVE Turn
  BY TurnStep
<1> USE PullAssumption
<1>1. phase = "pulling" /\ UNCHANGED <<delivery, resource, produced, unsubscribes, orphan>>
  BY DEF PullFails
<1>2. inbox \in Seq(Nat \ {0}) /\ DeviceType
  BY DEF IInv, PullTypeOK, DeviceType
<1>3. CASE UNCHANGED inbox /\ resource[generation] # "alive" /\ PullFailed("unknown")
  BY <1>1, <1>2, <1>3, NothingDrained, PullFailedTurn
<1>4. CASE UNCHANGED inbox /\ PullFailed("limit")
  BY <1>1, <1>2, <1>4, NothingDrained, PullFailedTurn
<1>5. CASE /\ PullFailed("failed")
           /\ \E k \in 0..(IF aborted \/ "lost" \in Faults
                           THEN Min({MessageLimit, Len(inbox)}) ELSE 0) :
                inbox' = SubSeq(inbox, k + 1, Len(inbox))
  <2>1. Min({MessageLimit, Len(inbox)}) \in 0..Len(inbox)
    BY SMTT(30), <1>2, MinOfTwo
  <2>2. MayDrain
    <3>1. CASE aborted \/ "lost" \in Faults
      BY <1>5, <2>1, <3>1 DEF MayDrain
    <3>2. CASE ~(aborted \/ "lost" \in Faults)
      <4>1. inbox' = SubSeq(inbox, 1, Len(inbox)) /\ 0 \in 0..Len(inbox)
        BY <1>2, <1>5, <3>2
      <4>2. QED
        BY <4>1 DEF MayDrain
    <3>3. QED
      BY <3>1, <3>2
  <2>3. QED
    BY <1>1, <1>5, <2>2, PullFailedTurn
<1>6. QED
  BY <1>3, <1>4, <1>5 DEF PullFails
-----------------------------------------------------------------------------
\* What finish() does when there is nothing to unsubscribe.
LEMMA Settled ==
  ASSUME NEW es, Finish(es, FALSE), ControlType
  PROVE  /\ phase' = "settling" /\ remote' = "resolved" /\ state' = "closing"
         /\ stopRequested' = TRUE /\ aborted' = TRUE /\ errors' = errors \cup es
         /\ cleanupAttempted' = cleanupAttempted /\ stopped' = stopped
BY DEF Finish, ControlType

\* The reply names a resource that the controller owns from then on.
LEMMA CreatedStep ==
  ASSUME IInv, NEW outcome \in {"ok", "unusable"}, Create(outcome)
  PROVE  IInv'
<1> USE PullAssumption
<1> DEFINE g == generation + 1
<1>1. PullTypeOK /\ Ownership /\ Resources /\ Ending /\ Inbox /\ Chain /\ Label
      /\ ControlType /\ DeliveryType /\ DeviceType
  BY DEF IInv, PullTypeOK
<1>2. /\ phase = "creating" /\ generation' = g /\ endpointGone' = FALSE
      /\ resource' = [resource EXCEPT ![g] = "alive"] /\ inbox' = << >>
      /\ UNCHANGED <<restarts, negotiations, gap, delivery, produced, unsubscribes, orphan,
                     Generation, NoRecord>>
  BY DEF Create, Generation, NoRecord
<1>3. /\ UNCHANGED <<continuity, diagnosed, queue, active, drain, awaiting, log, accepted>>
      /\ remote = "pending" /\ state # "closed" /\ g \in Generation /\ g # 0 /\ g <= restarts + 1
      /\ generation # 0 => endpointGone /\ resource[generation] = "gone"
  BY <1>1, <1>2
     DEF gap, delivery, Ownership, Ending, Resources, ControlType, Generation
<1>4. /\ phase' \in {"cleaning", "synchronizing", "loop"}
      /\ phase' = "cleaning" => cleanupAttempted' = TRUE /\ stopRequested' = TRUE
      /\ phase' # "cleaning" => cleanupAttempted' = FALSE
      /\ stopRequested' \in BOOLEAN /\ aborted' \in BOOLEAN /\ cleanupAttempted' \in BOOLEAN
      /\ remote' = remote /\ stopped' = stopped /\ state' # "closed" /\ errors \subseteq errors'
  <2>1. CASE outcome = "unusable"
    <3>1. Finish({"invalid"}, TRUE)
      BY <2>1 DEF Create
    <3>2. QED
      BY <1>1, <1>3, <3>1 DEF Finish, ControlType
  <2>2. CASE outcome = "ok" /\ Synchronize
    <3>1. CASE aborted
      <4>1. Finish({"aborted"}, TRUE)
        BY <2>2, <3>1 DEF Create
      <4>2. QED
        BY <1>1, <1>3, <4>1 DEF Finish, ControlType
    <3>2. CASE ~aborted
      <4>1. Await("synchronizing", state) /\ cleanupAttempted' = FALSE
        BY <2>2, <3>2 DEF Create
      <4>2. QED
        BY <1>1, <1>3, <4>1 DEF Await, ControlType
    <3>3. QED
      BY <3>1, <3>2
  <2>3. CASE outcome = "ok" /\ ~Synchronize
    <3>1. Await("loop", "active") /\ cleanupAttempted' = FALSE
      BY <2>3 DEF Create
    <3>2. QED
      BY <1>1, <1>3, <3>1 DEF Await, ControlType
  <2>4. QED
    BY <2>1, <2>2, <2>3
<1>5. ControlType' /\ DeviceType'
  <2>1. ControlType'
    <3>1. phase' \in Phases /\ generation' \in 0..(MaxRestarts + 1)
      BY <1>1, <1>2, <1>3, <1>4 DEF Phases, Generation, ControlType
    <3>2. UNCHANGED <<restarts, remote, stopped, continuity, diagnosed>>
      BY <1>2, <1>3, <1>4
    <3>3. QED
      BY <1>1, <1>2, <1>4, <3>1, <3>2 DEF ControlType
  <2>2. DeviceType'
    BY <1>1, <1>2, <1>3 DEF DeviceType
  <2>3. QED
    BY <2>1, <2>2
<1>6. \A h \in Generation : resource'[h] = IF h = g THEN "alive" ELSE resource[h]
  BY <1>1, <1>2, <1>3 DEF DeviceType
<1>7. Resources'
  BY <1>1, <1>2, <1>3, <1>4, <1>6 DEF Resources, ControlType, DeviceType, Generation
<1>8. Ownership'
  BY <1>1, <1>2, <1>3, <1>4 DEF Ownership, Resources, Running, ControlType, DeviceType, Generation
<1>9. Ending'
  BY <1>1, <1>2, <1>3, <1>4 DEF Ending, RemoteConfirmed
<1>10. Inbox' /\ Newest' >= Newest
  BY <1>1, <1>2, <1>3, <1>6 DEF Inbox, Newest, DeviceType
<1>11. DeliveryType' /\ Chain' /\ LastQueued' = LastQueued
  BY <1>1, <1>2, <1>5, <1>10, DeliveryKept
<1>12. Label'
  BY <1>1, <1>2, <1>3, <1>4, <1>11 DEF Label
<1>13. Draining' /\ CapacityBounded' /\ Accounted'
  BY <1>2, <1>3 DEF IInv, Draining, CapacityBounded, Accounted, Undelivered
<1>14. QED
  BY <1>5, <1>7, <1>8, <1>9, <1>10, <1>11, <1>12, <1>13 DEF IInv, PullTypeOK

LEMMA CreateFailedStep == IInv /\ Create("failed") => IInv'
<1> SUFFICES ASSUME IInv, Create("failed") PROVE IInv'
  OBVIOUS
<1> USE PullAssumption
<1>1. PullTypeOK /\ Ownership /\ Resources /\ Ending /\ Inbox /\ Chain /\ Label
      /\ ControlType /\ DeliveryType /\ DeviceType
  BY DEF IInv, PullTypeOK
<1>2. /\ phase = "creating" /\ Finish({"create"}, Owned) /\ orphan' \in BOOLEAN
      /\ UNCHANGED <<generation, endpointGone, resource, inbox, restarts, negotiations, gap,
                     delivery, produced, unsubscribes, Generation, NoRecord>>
  BY <1>1 DEF Create, Generation, NoRecord, DeviceType
<1>3. /\ UNCHANGED <<continuity, diagnosed, queue, active, drain, awaiting, log, accepted>>
      /\ generation # 0 => endpointGone /\ resource[generation] = "gone"
  BY <1>1, <1>2 DEF gap, delivery, Ownership, Resources
<1>4. /\ phase' = "settling" /\ remote' = "resolved" /\ state' = "closing"
      /\ stopRequested' = TRUE /\ aborted' = TRUE /\ errors' = errors \cup {"create"}
      /\ cleanupAttempted' = cleanupAttempted /\ stopped' = stopped
  <2>1. Owned = FALSE
    BY <1>3 DEF Owned
  <2>2. QED
    BY <1>1, <1>2, <2>1, Settled
<1>5. ControlType' /\ DeviceType'
  BY <1>1, <1>2, <1>3, <1>4 DEF ControlType, DeviceType, Phases
<1>6. Resources' /\ Ownership' /\ Inbox' /\ Newest' = Newest /\ Newest \in Int
  BY <1>1, <1>2, <1>4 DEF Resources, Ownership, Inbox, Newest, Running, DeviceType
<1>7. Ending'
  BY <1>1, <1>2, <1>3, <1>4 DEF Ending, RemoteConfirmed
<1>8. DeliveryType' /\ Chain' /\ LastQueued' = LastQueued
  BY <1>1, <1>2, <1>5, <1>6, DeliveryKept
<1>9. Label'
  BY <1>1, <1>2, <1>3, <1>4, <1>8 DEF Label, Running
<1>10. Draining' /\ CapacityBounded' /\ Accounted'
  BY <1>2, <1>3 DEF IInv, Draining, CapacityBounded, Accounted, Undelivered
<1>11. QED
  BY <1>5, <1>6, <1>7, <1>8, <1>9, <1>10 DEF IInv, PullTypeOK
LEMMA CreateStep == ASSUME IInv, NEW outcome \in {"ok", "unusable", "failed"}, Create(outcome)
                    PROVE  IInv'
BY CreatedStep, CreateFailedStep

\* An attempt to unsubscribe the resource, whose effect may be lost.
Attempted ==
  /\ phase \in {"releasing", "cleaning"}
  /\ unsubscribes' = [unsubscribes EXCEPT ![generation] = @ + 1]
  /\ resource' \in {resource, [resource EXCEPT ![generation] = "gone"]}
  /\ inbox' \in {inbox, << >>}
  /\ UNCHANGED <<generation, gap, delivery, produced, orphan, stopped>>
  /\ cleanupAttempted' = TRUE
  /\ stopRequested' \in BOOLEAN /\ aborted' \in BOOLEAN /\ endpointGone' \in BOOLEAN
  /\ endpointGone' => resource' = [resource EXCEPT ![generation] = "gone"] /\ inbox' = << >>
  /\ resource' # resource => inbox' = << >>
  /\ restarts' \in restarts..MaxRestarts
  /\ \/ /\ phase' = "creating" /\ restarts' = restarts + 1 /\ endpointGone' /\ remote' = remote
        /\ state' # "closed" /\ continuity # "continuous" /\ errors \subseteq errors'
     \/ /\ phase' = "settling" /\ stopRequested' /\ state' # "closed" /\ errors \subseteq errors'
        /\ \/ remote' = "resolved" /\ (endpointGone' \/ "cleanup" \in errors')
           \/ remote' = "rejected" /\ "cleanup" \in errors'

LEMMA AttemptedStep == IInv /\ Attempted => IInv'
<1> SUFFICES ASSUME IInv, Attempted PROVE IInv'
  OBVIOUS
<1> USE PullAssumption
<1>1. PullTypeOK /\ Ownership /\ Resources /\ Ending /\ Inbox /\ Chain /\ Label
      /\ ControlType /\ DeliveryType /\ DeviceType
  BY DEF IInv, PullTypeOK
<1>2. UNCHANGED <<generation, produced, orphan, continuity, diagnosed, stopped, queue, active,
                  drain, awaiting, log, accepted, Generation, NoRecord>>
  BY DEF Attempted, gap, delivery, Generation, NoRecord
<1>3. /\ generation \in Generation /\ unsubscribes[generation] = 0 /\ remote = "pending"
      /\ phase' \notin Running
  BY <1>1 DEF Attempted, Ownership, ControlType, Ending, Generation, Running
<1>4. /\ unsubscribes' \in [Generation -> Nat] /\ resource' \in [Generation -> {"none", "alive", "gone"}]
      /\ \A h \in Generation : unsubscribes'[h] = IF h = generation THEN 1 ELSE unsubscribes[h]
      /\ \A h \in Generation : h # generation => resource'[h] = resource[h]
      /\ resource'[generation] \in {resource[generation], "gone"}
      /\ endpointGone' => resource'[generation] = "gone"
  BY <1>1, <1>3 DEF Attempted, DeviceType
<1>5. inbox' \in Seq(Nat \ {0}) /\ (inbox' # inbox => inbox' = << >>)
      /\ (resource'[generation] # resource[generation] => inbox' = << >>)
  <2>1. resource'[generation] # resource[generation] => resource' # resource
    OBVIOUS
  <2>2. inbox \in Seq(Nat \ {0}) /\ << >> \in Seq(Nat \ {0})
    BY <1>1 DEF DeviceType
  <2>3. QED
    BY <2>1, <2>2 DEF Attempted
<1>6. DeviceType'
  BY <1>1, <1>2, <1>4, <1>5 DEF DeviceType
<1>7. ControlType'
  <2>1. phase' \in Phases /\ remote' \in {"pending", "resolved", "rejected"}
    BY <1>3 DEF Attempted, Phases
  <2>2. restarts' \in 0..MaxRestarts
    BY <1>1 DEF Attempted, ControlType
  <2>3. QED
    BY <1>1, <1>2, <2>1, <2>2 DEF Attempted, ControlType
<1>8. Ownership'
  <2>1. generation <= restarts + 1 /\ restarts' >= restarts /\ restarts \in Nat
        /\ generation \in Nat /\ restarts' \in Nat
    BY <1>1 DEF Attempted, Ownership, ControlType
  <2>2. CASE phase' = "creating"
    BY <1>2, <1>3, <2>1, <2>2 DEF Attempted, Ownership, Running
  <2>3. CASE phase' = "settling"
    <3>1. generation' = generation
      BY <1>2
    <3>2. \A r \in Nat : restarts <= r => generation <= r + 1
      BY <2>1
    <3>3. generation' <= restarts' + 1
      BY <2>1, <3>1, <3>2
    <3>4. QED
      BY <2>3, <3>3 DEF Ownership, Running
  <2>4. QED
    BY <2>2, <2>3 DEF Attempted
<1>9. Resources'
  BY <1>1, <1>2, <1>3, <1>4 DEF Attempted, Resources, ControlType, DeviceType, Generation
<1>10. Ending'
  BY <1>1, <1>2, <1>3, <1>4 DEF Attempted, Ending, RemoteConfirmed
<1>11. Inbox' /\ Newest' >= Newest
  <2>1. CASE inbox' = << >>
    BY <1>1, <1>2, <2>1 DEF Inbox, Newest, DeviceType
  <2>2. CASE inbox' = inbox /\ resource'[generation] = resource[generation]
    BY <1>1, <1>2, <2>2 DEF Inbox, Newest, DeviceType
  <2>3. QED
    BY <1>5, <2>1, <2>2
<1>12. DeliveryType' /\ Chain' /\ LastQueued' = LastQueued
  BY <1>1, <1>6, <1>11, DeliveryKept DEF Attempted
<1>13. Label'
  BY <1>1, <1>2, <1>3, <1>12 DEF Attempted, Label
<1>14. Draining' /\ CapacityBounded' /\ Accounted'
  BY <1>2 DEF IInv, Draining, CapacityBounded, Accounted, Undelivered
<1>15. QED
  BY <1>6, <1>7, <1>8, <1>9, <1>10, <1>11, <1>12, <1>13, <1>14 DEF IInv, PullTypeOK

LEMMA ReleaseStep == IInv /\ Release => IInv'
<1> SUFFICES ASSUME IInv, Release PROVE Attempted
  BY AttemptedStep
<1> USE PullAssumption
<1>1. /\ phase = "releasing" /\ cleanupAttempted = TRUE /\ ~endpointGone /\ restarts < MaxRestarts
      /\ remote = "pending" /\ state # "closed" /\ continuity # "continuous" /\ ControlType
      /\ generation # 0
  BY DEF Release, IInv, PullTypeOK, ControlType, Ownership, Ending, Label
<1>2. /\ UNCHANGED <<generation, negotiations, gap, delivery, produced, orphan>>
      /\ Unsubscribed \/ UnsubscribeLost
  BY DEF Release
<1>3. /\ unsubscribes' = [unsubscribes EXCEPT ![generation] = @ + 1]
      /\ resource' \in {resource, [resource EXCEPT ![generation] = "gone"]}
      /\ inbox' \in {inbox, << >>} /\ (resource' # resource => inbox' = << >>)
  BY <1>2 DEF Unsubscribed, UnsubscribeLost
<1>4. CASE Unsubscribed /\ endpointGone' = TRUE /\ restarts' = restarts + 1 /\ StartCreate
  <2>1. restarts' \in restarts..MaxRestarts
    BY <1>1, <1>4 DEF ControlType
  <2>2. CASE aborted
    BY <1>1, <1>2, <1>3, <1>4, <2>1, <2>2, Settled DEF Attempted, StartCreate, Unsubscribed
  <2>3. CASE ~aborted
    BY <1>1, <1>2, <1>3, <1>4, <2>1, <2>3
       DEF Attempted, StartCreate, Await, Unsubscribed, ControlType
  <2>4. QED
    BY <2>2, <2>3
<1>5. CASE UnsubscribeLost /\ Finish({"cleanup"}, Owned) /\ UNCHANGED <<endpointGone, restarts>>
  <2>1. Owned = FALSE
    BY <1>1 DEF Owned
  <2>2. restarts' \in restarts..MaxRestarts /\ ~endpointGone' /\ endpointGone' \in BOOLEAN
    BY <1>1, <1>5 DEF ControlType
  <2>3. /\ phase' = "settling" /\ remote' = "resolved" /\ state' = "closing"
        /\ stopRequested' = TRUE /\ aborted' = TRUE /\ errors' = errors \cup {"cleanup"}
        /\ cleanupAttempted' = cleanupAttempted /\ stopped' = stopped
    BY <1>1, <1>5, <2>1, Settled
  <2>4. QED
    BY <1>1, <1>2, <1>3, <1>5, <2>2, <2>3 DEF Attempted
<1>6. QED
  BY <1>4, <1>5 DEF Release
LEMMA CleanStep == IInv /\ Clean => IInv'
<1> SUFFICES ASSUME IInv, Clean PROVE Attempted
  BY AttemptedStep
<1> USE PullAssumption
<1>1. /\ phase = "cleaning" /\ cleanupAttempted = TRUE /\ endpointGone = FALSE /\ stopRequested
      /\ state # "closed" /\ ControlType
  BY DEF Clean, IInv, PullTypeOK, ControlType, Ownership, Ending
<1>2. /\ UNCHANGED <<stopRequested, aborted, stopped, generation, cleanupAttempted, restarts,
                     negotiations, gap, delivery, produced, orphan>>
      /\ phase' = "settling"
  BY DEF Clean
<1>3. /\ unsubscribes' = [unsubscribes EXCEPT ![generation] = @ + 1]
      /\ resource' \in {resource, [resource EXCEPT ![generation] = "gone"]}
      /\ inbox' \in {inbox, << >>} /\ (resource' # resource => inbox' = << >>)
  BY DEF Clean, Unsubscribed, UnsubscribeLost
<1>4. restarts' \in restarts..MaxRestarts
  BY <1>1, <1>2 DEF ControlType
<1>5. CASE Unsubscribed /\ endpointGone' = TRUE /\ remote' = "resolved" /\ UNCHANGED <<errors, state>>
  BY <1>1, <1>2, <1>3, <1>4, <1>5 DEF Attempted, Unsubscribed, ControlType
<1>6. CASE /\ remote' = "rejected" /\ errors' = errors \cup {"cleanup"} /\ state' = "uncertain"
           /\ UNCHANGED endpointGone
  BY <1>1, <1>2, <1>3, <1>4, <1>6 DEF Attempted, ControlType
<1>7. QED
  BY <1>5, <1>6 DEF Clean

-----------------------------------------------------------------------------
\* Taking the oldest record of a sequence, and adding a newest one.
LEMMA HeadTail ==
  ASSUME NEW S, NEW s \in Seq(S), s # << >>
  PROVE  /\ Head(s) = s[1] /\ Head(s) \in S /\ Len(s) \in Nat \ {0}
         /\ Tail(s) \in Seq(S) /\ Len(Tail(s)) = Len(s) - 1
         /\ \A i \in 1..Len(Tail(s)) : Tail(s)[i] = s[i + 1]
OBVIOUS

LEMMA ChainTaken ==
  ASSUME NEW p, NEW s \in Seq(EventRecord), s # << >>, ChainFrom(p, s)
  PROVE  /\ Follows(p, Head(s)) /\ ChainFrom(Head(s), Tail(s))
         /\ LastOf(p, s) = LastOf(Head(s), Tail(s))
<1> DEFINE t == Tail(s)
<1>1. /\ Head(s) = s[1] /\ Len(s) \in Nat \ {0} /\ t \in Seq(EventRecord)
      /\ Len(t) = Len(s) - 1 /\ \A i \in 1..Len(t) : t[i] = s[i + 1]
  BY HeadTail
<1> HIDE DEF t
<1>2. Follows(p, Head(s))
  BY <1>1 DEF ChainFrom
<1>3. ChainFrom(Head(s), t)
  <2>1. SUFFICES ASSUME NEW i \in 1..Len(t)
                 PROVE  Follows(IF i = 1 THEN Head(s) ELSE t[i - 1], t[i])
    BY DEF ChainFrom
  <2>2. i + 1 \in 1..Len(s) /\ i + 1 # 1
    BY <1>1
  <2>3. Follows(s[(i + 1) - 1], s[i + 1])
    BY <2>2 DEF ChainFrom
  <2>4. CASE i = 1
    BY <1>1, <2>3, <2>4
  <2>5. CASE i # 1
    <3>1. i - 1 \in 1..Len(t)
      BY <1>1, <2>5
    <3>2. t[i - 1] = s[(i - 1) + 1] /\ t[i] = s[i + 1] /\ (i - 1) + 1 = (i + 1) - 1
      BY <1>1, <3>1
    <3>3. QED
      BY <2>3, <2>5, <3>2
  <2>6. QED
    BY <2>4, <2>5
<1>4. LastOf(p, s) = LastOf(Head(s), t)
  <2>1. CASE t = << >>
    <3>1. \A r \in Seq(EventRecord) : r = << >> => Len(r) = 0
      OBVIOUS
    <3>2. Len(s) = 1
      BY <1>1, <2>1, <3>1
    <3>3. QED
      BY <1>1, <2>1, <3>2 DEF LastOf
  <2>2. CASE t # << >>
    BY <1>1, <2>2 DEF LastOf
  <2>3. QED
    BY <2>1, <2>2
<1>5. QED
  BY <1>2, <1>3, <1>4 DEF t

LEMMA ChainAdded ==
  ASSUME NEW p, NEW s \in Seq(EventRecord), NEW e \in EventRecord, ChainFrom(p, s), Follows(LastOf(p, s), e)
  PROVE  /\ Append(s, e) \in Seq(EventRecord) /\ Len(Append(s, e)) = Len(s) + 1
         /\ ChainFrom(p, Append(s, e)) /\ LastOf(p, Append(s, e)) = e
<1>1. /\ Append(s, e) \in Seq(EventRecord) /\ Len(Append(s, e)) = Len(s) + 1 /\ Len(s) \in Nat
      /\ Append(s, e)[Len(s) + 1] = e /\ \A i \in 1..Len(s) : Append(s, e)[i] = s[i]
  OBVIOUS
<1>2. ASSUME NEW i \in 1..(Len(s) + 1)
      PROVE  Follows(IF i = 1 THEN p ELSE Append(s, e)[i - 1], Append(s, e)[i])
  <2>1. CASE i \in 1..Len(s)
    <3>1. Follows(IF i = 1 THEN p ELSE s[i - 1], s[i])
      BY <2>1 DEF ChainFrom
    <3>2. i # 1 => i - 1 \in 1..Len(s)
      BY <1>1, <2>1
    <3>3. QED
      BY <1>1, <2>1, <3>1, <3>2
  <2>2. CASE i = Len(s) + 1 /\ s = << >>
    BY <1>1, <2>2 DEF LastOf
  <2>3. CASE i = Len(s) + 1 /\ s # << >>
    <3>1. i # 1 /\ i - 1 = Len(s) /\ Len(s) \in 1..Len(s)
      BY <1>1, <2>3
    <3>2. QED
      BY <1>1, <2>3, <3>1 DEF LastOf
  <2>4. QED
    BY <1>1, <2>1, <2>2, <2>3
<1>3. ChainFrom(p, Append(s, e))
  BY <1>1, <1>2 DEF ChainFrom
<1>4. LastOf(p, Append(s, e)) = e
  BY <1>1 DEF LastOf
<1>5. QED
  BY <1>1, <1>3, <1>4

\* Joining two chains.
LEMMA Joined ==
  ASSUME NEW S, NEW s \in Seq(S), NEW t \in Seq(S)
  PROVE  /\ s \o t \in Seq(S) /\ Len(s \o t) = Len(s) + Len(t) /\ Len(s) \in Nat /\ Len(t) \in Nat
         /\ \A i \in 1..Len(s) : (s \o t)[i] = s[i]
         /\ \A i \in 1..Len(t) : (s \o t)[Len(s) + i] = t[i]
OBVIOUS

LEMMA ChainJoined ==
  ASSUME NEW p, NEW s \in Seq(EventRecord), NEW t \in Seq(EventRecord),
         ChainFrom(p, s), ChainFrom(LastOf(p, s), t)
  PROVE  ChainFrom(p, s \o t) /\ LastOf(p, s \o t) = LastOf(LastOf(p, s), t)
<1> DEFINE u == s \o t
<1>1. /\ u \in Seq(EventRecord) /\ Len(u) = Len(s) + Len(t) /\ Len(s) \in Nat /\ Len(t) \in Nat
      /\ \A i \in 1..Len(s) : u[i] = s[i]
      /\ \A j \in 1..Len(t) : u[Len(s) + j] = t[j]
  BY Joined
<1> HIDE DEF u
<1>2. ASSUME NEW i \in 1..Len(u)
      PROVE  Follows(IF i = 1 THEN p ELSE u[i - 1], u[i])
  <2>1. CASE i <= Len(s)
    <3>1. i \in 1..Len(s) /\ (i # 1 => i - 1 \in 1..Len(s))
      BY <1>1, <2>1
    <3>2. Follows(IF i = 1 THEN p ELSE s[i - 1], s[i])
      BY <3>1 DEF ChainFrom
    <3>3. QED
      BY <1>1, <3>1, <3>2
  <2>2. CASE i > Len(s)
    <3>1. PICK j \in 1..Len(t) : i = Len(s) + j
      <4>1. i - Len(s) \in 1..Len(t) /\ i = Len(s) + (i - Len(s))
        BY <1>1, <2>2
      <4>2. QED
        BY <4>1
    <3>2. u[i] = t[j]
      BY <1>1, <3>1
    <3>2a. Follows(IF j = 1 THEN LastOf(p, s) ELSE t[j - 1], t[j])
      BY <3>1 DEF ChainFrom
    <3>3. CASE j # 1
      <4>1. j - 1 \in 1..Len(t) /\ i - 1 = Len(s) + (j - 1) /\ i # 1
        BY <1>1, <3>1, <3>3
      <4>2. u[i - 1] = t[j - 1]
        BY <1>1, <4>1
      <4>3. QED
        BY <3>2, <3>2a, <3>3, <4>1, <4>2
    <3>4. CASE j = 1 /\ s = << >>
      <4>1. i = 1
        BY <3>1, <3>4
      <4>2. QED
        BY <3>2, <3>2a, <3>4, <4>1 DEF LastOf
    <3>5. CASE j = 1 /\ s # << >>
      <4>1. i # 1 /\ i - 1 = Len(s) /\ i - 1 \in 1..Len(s)
        BY <1>1, <3>1, <3>5
      <4>2. u[i - 1] = s[Len(s)]
        BY <1>1, <4>1
      <4>3. QED
        BY <3>2, <3>2a, <3>5, <4>1, <4>2 DEF LastOf
    <3>6. QED
      BY <3>3, <3>4, <3>5
  <2>3. QED
    BY <1>1, <2>1, <2>2
<1>3. ChainFrom(p, u)
  BY <1>2 DEF ChainFrom
<1>4. LastOf(p, u) = LastOf(LastOf(p, s), t)
  <2>1. CASE t = << >>
    <3>1. Len(u) = Len(s) /\ (s = << >> <=> u = << >>) /\ (s # << >> => Len(s) \in 1..Len(s))
      BY <1>1, <2>1
    <3>2. QED
      BY <1>1, <2>1, <3>1 DEF LastOf
  <2>2. CASE t # << >>
    <3>1. Len(t) \in 1..Len(t)
      BY <1>1, <2>2
    <3>2. Len(u) # 0 /\ u[Len(u)] = t[Len(t)]
      BY <1>1, <3>1
    <3>3. u # << >>
      BY <3>2
    <3>4. QED
      BY <2>2, <3>2, <3>3 DEF LastOf
  <2>3. QED
    BY <2>1, <2>2
<1>5. QED
  BY <1>3, <1>4 DEF u
-----------------------------------------------------------------------------
\* What the resource, the control and the inbox say is kept by a step that
\* leaves them alone.
Kept == UNCHANGED <<phase, remote, own, resource, inbox, produced, unsubscribes, orphan>>

LEMMA ControlKept ==
  ASSUME PullTypeOK, Kept
  PROVE  /\ DeviceType' /\ Newest' = Newest /\ Newest \in Int
         /\ UNCHANGED <<phase, generation, endpointGone, cleanupAttempted, restarts, resource,
                        NoRecord, Generation>>
         /\ Ownership => Ownership'
         /\ Resources => Resources'
         /\ Inbox => Inbox'
<1>1. UNCHANGED <<phase, remote, generation, endpointGone, cleanupAttempted, restarts, resource,
                  inbox, produced, unsubscribes, orphan, Generation, NoRecord>>
  BY DEF Kept, own, Generation, NoRecord
<1>2. DeviceType' /\ Newest' = Newest /\ Newest \in Int
  BY <1>1 DEF PullTypeOK, DeviceType, Newest
<1>3. Ownership => Ownership'
  BY <1>1 DEF Ownership, Running
<1>4. Resources => Resources'
  BY <1>1 DEF Resources
<1>5. Inbox => Inbox'
  BY <1>1 DEF Inbox
<1>6. QED
  BY <1>1, <1>2, <1>3, <1>4, <1>5

\* Steps of stop(), the listener and the device that touch no record.
LEMMA QuietStep ==
  IInv /\ (Notify \/ Stop \/ CallbackStops \/ DrainCleared) => IInv'
<1> SUFFICES ASSUME IInv, Notify \/ Stop \/ CallbackStops \/ DrainCleared PROVE IInv'
  OBVIOUS
<1>1. PullTypeOK /\ Ownership /\ Resources /\ Ending /\ Draining /\ Inbox /\ Chain /\ Label
      /\ ControlType /\ DeliveryType /\ DeviceType /\ CapacityBounded /\ Accounted
  BY DEF IInv, PullTypeOK
<1>2. /\ UNCHANGED <<own, gap, queue, active, log, accepted, device, errors, remote>>
      /\ UNCHANGED <<generation, endpointGone, cleanupAttempted, restarts, continuity, diagnosed,
                     resource, inbox, produced, unsubscribes, orphan, NoRecord>>
      /\ drain' = drain \/ (drain = "exited" /\ drain' = "none")
  BY DEF Notify, Stop, CallbackStops, DrainCleared, RequestStop, own, gap, delivery, device, ctl,
         NoRecord
<1>3. /\ ControlType' /\ awaiting' \in BOOLEAN
      /\ phase' = phase \/ (phase = "notifying" /\ phase' = "done")
  <2>1. CASE Notify
    BY <1>1, <1>2, <2>1 DEF Notify, delivery, ControlType, DeliveryType, Phases, Running
  <2>2. CASE Stop \/ CallbackStops
    BY <1>1, <1>2, <2>2
       DEF Stop, CallbackStops, RequestStop, delivery, ControlType, DeliveryType
  <2>3. CASE DrainCleared
    BY <1>1, <1>2, <2>3 DEF DrainCleared, ctl, ControlType, DeliveryType
  <2>4. QED
    BY <2>1, <2>2, <2>3
<1>4. DeliveryType' /\ DeviceType'
  BY <1>1, <1>2, <1>3 DEF DeliveryType, DeviceType
<1>5. LastQueued' = LastQueued /\ LastTaken' = LastTaken /\ LastLogged' = LastLogged
      /\ Newest' = Newest
  BY <1>2 DEF LastQueued, LastTaken, LastLogged, LastOf, Newest
<1>6. Chain'
  BY <1>1, <1>2, <1>5 DEF Chain, ChainFrom, Follows
<1>7. Label'
  BY <1>1, <1>2, <1>3, <1>5 DEF Label, Running
<1>8. Ending'
  BY <1>1, <1>2, <1>3
     DEF Notify, Stop, CallbackStops, DrainCleared, RequestStop, ctl, Ending, RemoteConfirmed
<1>9. Ownership' /\ Resources' /\ Inbox'
  BY <1>1, <1>2, <1>3 DEF Ownership, Resources, Inbox, Running, Generation
<1>10. Draining' /\ CapacityBounded' /\ Accounted'
  BY <1>1, <1>2 DEF Draining, CapacityBounded, Accounted, Undelivered
<1>11. QED
  BY <1>3, <1>4, <1>6, <1>7, <1>8, <1>9, <1>10 DEF IInv, PullTypeOK

LEMMA CallbackFailsStep == IInv /\ CallbackFails => IInv'
<1> SUFFICES ASSUME IInv, CallbackFails PROVE IInv'
  OBVIOUS
<1>1. PullTypeOK /\ Ownership /\ Resources /\ Ending /\ Draining /\ Inbox /\ Chain /\ Label
      /\ ControlType /\ DeliveryType /\ DeviceType /\ CapacityBounded /\ Accounted
  BY DEF IInv, PullTypeOK
<1>2. /\ active # NoRecord /\ active' = NoRecord /\ awaiting' = FALSE /\ drain' = "failed"
      /\ continuity' = "gap" /\ diagnosed' = TRUE /\ aborted' = TRUE
      /\ UNCHANGED <<phase, state, stopRequested, errors, remote, stopped, own, queue, log,
                     accepted, device>>
  BY DEF CallbackFails, Gap
<1>3. Kept /\ UNCHANGED <<resource, orphan, generation, NoRecord>>
  BY <1>2 DEF Kept, device, own, NoRecord
<1>4. /\ DeviceType' /\ Ownership' /\ Resources' /\ Inbox'
      /\ UNCHANGED <<endpointGone, cleanupAttempted, restarts>>
  BY <1>1, <1>3, ControlKept
<1>5. ControlType'
  BY <1>1, <1>2, <1>3, <1>4 DEF ControlType
<1>6. DeliveryType'
  BY <1>1, <1>2 DEF DeliveryType
<1>7. Ending'
  BY <1>1, <1>2, <1>3 DEF Ending, RemoteConfirmed
<1>8. Draining' /\ Accounted'
  BY <1>2, <1>3 DEF Draining, Accounted
<1>9. CapacityBounded'
  BY <1>1, <1>2, <1>3, PullAssumption DEF CapacityBounded, DeliveryType
<1>10. Chain' /\ Label'
  BY <1>1, <1>2, <1>3 DEF Chain, ChainFrom, Follows, Label
<1>11. QED
  BY <1>4, <1>5, <1>6, <1>7, <1>8, <1>9, <1>10 DEF IInv, PullTypeOK

\* The listener returns: the record it was handed is delivered, and the next
\* one, if drain() goes on, is the oldest that waits.
LEMMA CallbackReturnsStep == IInv /\ CallbackReturns => IInv'
<1> SUFFICES ASSUME IInv, CallbackReturns PROVE IInv'
  OBVIOUS
<1>1. PullTypeOK /\ Ownership /\ Resources /\ Ending /\ Draining /\ Inbox /\ Chain /\ Label
      /\ ControlType /\ DeliveryType /\ DeviceType /\ CapacityBounded /\ Accounted
  BY DEF IInv, PullTypeOK
<1>2. /\ active # NoRecord /\ log' = Append(log, active) /\ awaiting' = FALSE
      /\ Advance /\ UNCHANGED <<ctl, own, gap, accepted, device>>
  BY DEF CallbackReturns
<1>3. /\ Kept /\ NoRecord' = NoRecord
      /\ UNCHANGED <<phase, state, stopRequested, aborted, errors, remote, stopped, generation,
                     continuity, diagnosed, resource, orphan>>
  BY <1>2 DEF Kept, ctl, own, gap, device, NoRecord
<1>4. /\ DeviceType' /\ Ownership' /\ Resources' /\ Inbox' /\ Newest' = Newest /\ Newest \in Int
      /\ UNCHANGED <<endpointGone, cleanupAttempted, restarts>>
  BY <1>1, <1>3, ControlKept
<1>5. ControlType'
  BY <1>1, <1>3, <1>4 DEF ControlType
<1>6. /\ drain = "running" /\ active \in EventRecord /\ log \in Seq(EventRecord) /\ queue \in Seq(EventRecord)
      /\ Follows(LastLogged, active) /\ ChainFrom(active, queue) /\ LastTaken = active
      /\ active.event <= Newest /\ active.event \in Nat
      /\ \A i \in 1..Len(queue) : queue[i].event <= Newest
  BY <1>1, <1>2 DEF Draining, DeliveryType, Chain, LastTaken, EventRecord
<1>7. /\ log' \in Seq(EventRecord) /\ Len(log') = Len(log) + 1
      /\ ChainFrom(NoRecord, log') /\ LastLogged' = active
  <2>1. ChainFrom(NoRecord, log) /\ LastLogged = LastOf(NoRecord, log)
    BY <1>1 DEF Chain, LastLogged
  <2>2. LastOf(NoRecord, log') = LastLogged'
    BY <1>3 DEF LastLogged, LastOf
  <2>3. QED
    BY <1>2, <1>6, <2>1, <2>2, ChainAdded
<1>8. (ChainFrom(NoRecord, log))' <=> ChainFrom(NoRecord, log')
  BY <1>3 DEF ChainFrom, Follows
<1>9. CASE queue # << >> /\ ~stopRequested
  <2>1. active' = Head(queue) /\ queue' = Tail(queue) /\ drain' = drain
    BY <1>2, <1>9 DEF Advance
  <2>2. /\ active' \in EventRecord /\ queue' \in Seq(EventRecord) /\ Len(queue') = Len(queue) - 1
        /\ active' = queue[1] /\ Len(queue) \in Nat \ {0}
        /\ \A i \in 1..Len(queue') : queue'[i] = queue[i + 1]
    BY <1>6, <1>9, <2>1, HeadTail
  <2>3. active' # NoRecord /\ active'.event \in Nat
    BY <2>2 DEF EventRecord, NoRecord
  <2>4. /\ Follows(active, active') /\ ChainFrom(active', queue')
        /\ LastOf(active, queue) = LastOf(active', queue')
    BY <1>6, <1>9, <2>1, ChainTaken
  <2>5. LastTaken' = active' /\ LastQueued' = LastQueued
    BY <1>3, <1>6, <2>3, <2>4 DEF LastTaken, LastQueued, LastOf
  <2>6. /\ (Follows(LastLogged, active))' /\ (ChainFrom(LastTaken, queue))'
    BY <1>3, <1>7, <2>4, <2>5 DEF ChainFrom, Follows
  <2>7. active'.event <= Newest /\ \A i \in 1..Len(queue') : queue'[i].event <= Newest
    <3>1. 1 \in 1..Len(queue) /\ \A i \in 1..Len(queue') : i + 1 \in 1..Len(queue)
      BY <2>2
    <3>2. QED
      BY <1>6, <2>2, <3>1
  <2>8. Chain'
    BY <1>4, <1>6, <1>7, <1>8, <2>5, <2>6, <2>7 DEF Chain
  <2>9. DeliveryType'
    BY <1>1, <1>2, <1>3, <1>7, <2>1, <2>2 DEF DeliveryType
  <2>10. Label' /\ Draining' /\ Ending'
    BY <1>1, <1>3, <1>4, <2>1, <2>3, <2>5, <1>6
       DEF Label, Draining, Running, Ending, RemoteConfirmed
  <2>11. CapacityBounded' /\ Accounted'
    <3>1. Undelivered = Len(queue) + 1 /\ Undelivered' = Len(queue') + 1 /\ Len(log) \in Nat
      BY <1>2, <1>6, <2>3 DEF Undelivered
    <3>2. Undelivered' <= Undelivered /\ Len(log') + Undelivered' = Len(log) + Undelivered
      BY <1>7, <2>2, <3>1
    <3>3. CapacityBounded => CapacityBounded'
      <4>1. (CapacityBounded <=> Undelivered <= MaxQueued)
            /\ (CapacityBounded' <=> Undelivered' <= MaxQueued)
        BY DEF CapacityBounded, Undelivered
      <4>2. Undelivered \in Int /\ Undelivered' \in Int /\ MaxQueued \in Int
        BY <3>1, <1>6, PullAssumption, <2>2
      <4>3. QED
        BY <3>2, <4>1, <4>2
    <3>4. Accounted'
      BY <1>1, <1>2, <1>3, <3>2 DEF Accounted
    <3>5. QED
      BY <1>1, <3>3, <3>4
  <2>12. QED
    BY <1>4, <1>5, <2>8, <2>9, <2>10, <2>11 DEF IInv, PullTypeOK
<1>10. CASE ~(queue # << >> /\ ~stopRequested)
  <2>1. active' = NoRecord /\ drain' = "exited" /\ queue' = queue
    BY <1>2, <1>10 DEF Advance
  <2>2. LastTaken' = active /\ LastQueued' = LastQueued
    BY <1>3, <1>6, <1>7, <2>1 DEF LastTaken, LastQueued, LastOf
  <2>3. (ChainFrom(LastTaken, queue))'
    BY <1>3, <1>6, <2>1, <2>2 DEF ChainFrom, Follows
  <2>4. Chain'
    BY <1>3, <1>4, <1>6, <1>7, <1>8, <2>1, <2>2, <2>3 DEF Chain
  <2>5. DeliveryType'
    BY <1>1, <1>2, <1>3, <1>7, <2>1 DEF DeliveryType
  <2>6. Label' /\ Draining' /\ Ending'
    BY <1>1, <1>3, <1>4, <2>1, <2>2, <1>6
       DEF Label, Draining, Running, Ending, RemoteConfirmed
  <2>7. CapacityBounded' /\ Accounted'
    <3>1. /\ Undelivered = Len(queue) + 1 /\ Undelivered' = Len(queue) + 0
          /\ Len(log) \in Nat /\ Len(queue) \in Nat
      BY <1>2, <1>3, <1>6, <2>1 DEF Undelivered
    <3>2. Undelivered' <= Undelivered /\ Len(log') + Undelivered' = Len(log) + Undelivered
      BY <1>7, <3>1
    <3>3. CapacityBounded => CapacityBounded'
      <4>1. (CapacityBounded <=> Undelivered <= MaxQueued)
            /\ (CapacityBounded' <=> Undelivered' <= MaxQueued)
        BY DEF CapacityBounded, Undelivered
      <4>2. Undelivered \in Int /\ Undelivered' \in Int /\ MaxQueued \in Int
        BY <3>1, <1>6, PullAssumption
      <4>3. QED
        BY <3>2, <4>1, <4>2
    <3>4. Accounted'
      BY <1>1, <1>2, <1>3, <3>2 DEF Accounted
    <3>5. QED
      BY <1>1, <3>3, <3>4
  <2>8. QED
    BY <1>4, <1>5, <2>4, <2>5, <2>6, <2>7 DEF IInv, PullTypeOK
<1>11. QED
  BY <1>9, <1>10
\* The rest of finish(): what still waits is given up, and diagnosed.
LEMMA SettleStep == IInv /\ Settle => IInv'
<1> SUFFICES ASSUME IInv, Settle PROVE IInv'
  OBVIOUS
<1>1. PullTypeOK /\ Ownership /\ Resources /\ Ending /\ Draining /\ Inbox /\ Chain /\ Label
      /\ ControlType /\ DeliveryType /\ DeviceType /\ CapacityBounded /\ Accounted
  BY DEF IInv, PullTypeOK
<1>2. /\ phase = "settling" /\ drain # "running" /\ queue' = << >>
      /\ IF queue # << >> THEN Gap ELSE UNCHANGED gap
      /\ errors \subseteq errors'
      /\ UNCHANGED <<stopRequested, aborted, remote, own, active, drain, awaiting, log, accepted,
                     device, NoRecord>>
  BY DEF Settle, NoRecord
<1>3. /\ phase' \in {"notifying", "done"}
      /\ stopped' \in {"pending", "resolved", "rejected"}
      /\ state' = "closed" => phase' = "done" /\ errors' = {} /\ stopped' = "resolved"
  <2>1. state # "closed"
    BY <1>1, <1>2 DEF Ending
  <2>2. QED
    BY <1>1, <2>1 DEF Settle, ControlType
<1>4. /\ UNCHANGED <<generation, endpointGone, cleanupAttempted, restarts, resource, inbox,
                     produced, unsubscribes, orphan>>
      /\ active = NoRecord
  BY <1>1, <1>2 DEF own, device, Draining
<1>5. /\ diagnosed' \in BOOLEAN /\ (diagnosed => diagnosed') /\ (queue # << >> => diagnosed')
      /\ continuity' \in {continuity, "gap"} /\ (queue # << >> => continuity' = "gap")
  BY <1>1, <1>2 DEF Gap, gap, ControlType
<1>6. ControlType' /\ DeliveryType' /\ DeviceType'
  <2>1. ControlType'
    BY <1>1, <1>2, <1>3, <1>4, <1>5 DEF ControlType, Phases
  <2>2. << >> \in Seq(EventRecord)
    OBVIOUS
  <2>3. DeliveryType'
    BY <1>1, <1>2, <2>2 DEF DeliveryType
  <2>4. DeviceType'
    BY <1>1, <1>4 DEF DeviceType, Generation
  <2>5. QED
    BY <2>1, <2>3, <2>4
<1>7. Ownership' /\ Resources' /\ Inbox'
  BY <1>1, <1>2, <1>3, <1>4 DEF Ownership, Resources, Inbox, Running, Generation
<1>8. Ending'
  BY <1>1, <1>2, <1>3, <1>4 DEF Ending, RemoteConfirmed
<1>9. /\ LastLogged' = LastLogged /\ LastTaken' = LastTaken /\ LastQueued' = LastTaken
      /\ Newest' = Newest
  BY <1>2, <1>4 DEF LastLogged, LastTaken, LastQueued, LastOf, Newest
<1>10. Chain'
  BY <1>1, <1>2, <1>4, <1>9 DEF Chain, ChainFrom, Follows
<1>11. Label'
  <2>1. queue = << >> => LastQueued = LastTaken
    BY DEF LastQueued, LastOf
  <2>2. QED
    BY <1>1, <1>2, <1>3, <1>5, <1>9, <2>1 DEF Label, Running
<1>12. Draining' /\ CapacityBounded'
  BY <1>1, <1>2, <1>4, PullAssumption DEF Draining, CapacityBounded
<1>13. Accounted'
  <2>1. CASE queue = << >>
    BY <1>1, <1>2, <1>4, <1>5, <2>1 DEF Accounted, Undelivered
  <2>2. CASE queue # << >>
    BY <1>5, <2>2 DEF Accounted
  <2>3. QED
    BY <2>1, <2>2
<1>14. QED
  BY <1>6, <1>7, <1>8, <1>10, <1>11, <1>12, <1>13 DEF IInv, PullTypeOK

\* The device may produce an event or lose the resource at any time.
LEMMA EventStep == IInv /\ Event => IInv'
<1> SUFFICES ASSUME IInv, Event PROVE IInv'
  OBVIOUS
<1>1. PullTypeOK /\ Ownership /\ Resources /\ Ending /\ Draining /\ Inbox /\ Chain /\ Label
      /\ ControlType /\ DeliveryType /\ DeviceType /\ CapacityBounded /\ Accounted
  BY DEF IInv, PullTypeOK
<1>2. /\ produced' = produced + 1
      /\ inbox' = IF generation # 0 /\ resource[generation] = "alive"
                  THEN Append(inbox, produced + 1) ELSE inbox
      /\ UNCHANGED <<ctl, own, gap, delivery, resource, unsubscribes, orphan, Generation, NoRecord>>
  BY DEF Event, Generation, NoRecord
<1>3. UNCHANGED <<phase, state, stopRequested, aborted, errors, remote, stopped, generation,
                  endpointGone, cleanupAttempted, restarts, continuity, diagnosed, queue, active,
                  drain, awaiting, log, accepted>>
  BY <1>2 DEF ctl, own, gap, delivery
<1>4. inbox \in Seq(Nat \ {0}) /\ produced \in Nat /\ produced + 1 \in Nat \ {0} /\ Len(inbox) \in Nat
      /\ Len(inbox) <= produced
  BY <1>1 DEF DeviceType, Inbox
<1>5. /\ inbox' \in Seq(Nat \ {0}) /\ Len(inbox') \in Nat
      /\ \A i \in 1..Len(inbox) : inbox'[i] = inbox[i]
      /\ \/ Len(inbox') = Len(inbox) + 1 /\ inbox'[Len(inbox) + 1] = produced + 1
            /\ generation # 0 /\ resource[generation] = "alive"
         \/ inbox' = inbox /\ inbox = << >> /\ ~(generation # 0 /\ resource[generation] = "alive")
  BY <1>1, <1>2, <1>4 DEF Inbox
<1>6. DeviceType'
  BY <1>1, <1>2, <1>4, <1>5 DEF DeviceType
<1>7. /\ Newest' >= Newest
      /\ generation # 0 /\ resource[generation] = "alive" => Newest' = Newest
  <2>1. Newest = produced - Len(inbox) /\ Newest' = (produced + 1) - Len(inbox')
    BY <1>2 DEF Newest
  <2>2. QED
    BY SMTT(30), <1>4, <1>5, <2>1
<1>8. Inbox'
  <2>1. CASE inbox' = inbox /\ inbox = << >>
    BY <1>1, <1>2, <1>4, <2>1 DEF Inbox
  <2>2. CASE /\ Len(inbox') = Len(inbox) + 1 /\ inbox'[Len(inbox) + 1] = produced + 1
             /\ generation # 0 /\ resource[generation] = "alive"
    <3>1. \A i \in 1..Len(inbox) : inbox'[i] = (produced + 1) - Len(inbox') + i
      BY <1>1, <1>4, <1>5, <2>2 DEF Inbox
    <3>2. produced + 1 = (produced + 1) - Len(inbox') + (Len(inbox) + 1)
      BY <1>4, <2>2
    <3>3. \A i \in 1..Len(inbox') : inbox'[i] = (produced + 1) - Len(inbox') + i
      BY <1>4, <2>2, <3>1, <3>2
    <3>4. Len(inbox') <= produced + 1
      BY <1>4, <2>2
    <3>5. QED
      BY <1>2, <1>3, <2>2, <3>3, <3>4 DEF Inbox
  <2>3. QED
    BY <1>5, <2>1, <2>2
<1>9. DeliveryType' /\ Chain' /\ LastQueued' = LastQueued
  BY <1>1, <1>2, <1>6, <1>7, DeliveryKept
<1>10. Label'
  BY <1>1, <1>2, <1>3, <1>7, <1>9 DEF Label, Running, Ownership
<1>11. ControlType' /\ Ownership' /\ Resources' /\ Ending'
  BY <1>1, <1>2, <1>3 DEF ControlType, Ownership, Resources, Ending, RemoteConfirmed, Running
<1>12. Draining' /\ CapacityBounded' /\ Accounted'
  BY <1>1, <1>2, <1>3 DEF Draining, CapacityBounded, Accounted, Undelivered
<1>13. QED
  BY <1>6, <1>8, <1>9, <1>10, <1>11, <1>12 DEF IInv, PullTypeOK

LEMMA DropStep == IInv /\ Drop => IInv'
<1> SUFFICES ASSUME IInv, Drop PROVE IInv'
  OBVIOUS
<1>1. PullTypeOK /\ Ownership /\ Resources /\ Ending /\ Draining /\ Inbox /\ Chain /\ Label
      /\ ControlType /\ DeliveryType /\ DeviceType /\ CapacityBounded /\ Accounted
  BY DEF IInv, PullTypeOK
<1>2. /\ generation # 0 /\ resource[generation] = "alive" /\ inbox' = << >>
      /\ resource' = [resource EXCEPT ![generation] = "gone"]
      /\ UNCHANGED <<ctl, own, gap, delivery, produced, unsubscribes, orphan, Generation, NoRecord>>
  BY DEF Drop, Generation, NoRecord
<1>3. UNCHANGED <<phase, state, stopRequested, aborted, errors, remote, stopped, generation,
                  endpointGone, cleanupAttempted, restarts, continuity, diagnosed, queue, active,
                  drain, awaiting, log, accepted>>
  BY <1>2 DEF ctl, own, gap, delivery
<1>4. /\ resource' \in [Generation -> {"none", "alive", "gone"}]
      /\ generation \in Generation /\ resource'[generation] = "gone"
      /\ \A h \in Generation : h # generation => resource'[h] = resource[h]
  BY <1>1, <1>2, PullAssumption DEF DeviceType, ControlType, Generation
<1>5. DeviceType' /\ Newest' >= Newest
  BY <1>1, <1>2, <1>4 DEF DeviceType, Newest
<1>6. DeliveryType' /\ Chain' /\ LastQueued' = LastQueued
  BY <1>1, <1>2, <1>5, DeliveryKept
<1>7. Label'
  BY <1>1, <1>2, <1>3, <1>4, <1>6 DEF Label
<1>8. Inbox'
  BY <1>1, <1>2 DEF Inbox, DeviceType
<1>9. Resources'
  BY <1>1, <1>2, <1>3, <1>4, PullAssumption DEF Resources, ControlType, Generation
<1>10. ControlType' /\ Ownership' /\ Ending'
  BY <1>1, <1>2, <1>3, <1>4 DEF ControlType, Ownership, Ending, RemoteConfirmed, Running
<1>11. Draining' /\ CapacityBounded' /\ Accounted'
  BY <1>1, <1>2, <1>3 DEF Draining, CapacityBounded, Accounted, Undelivered
<1>12. QED
  BY <1>5, <1>6, <1>7, <1>8, <1>9, <1>10, <1>11 DEF IInv, PullTypeOK
-----------------------------------------------------------------------------
\* The records made of the n oldest messages follow what was queued last.
LEMMA BatchFollows ==
  ASSUME IInv, phase \in Running, resource[generation] = "alive", drain # "failed",
         NEW n \in 0..Len(inbox), NEW first \in {continuity, "gap"}
  PROVE  LET r == Labelled(SubSeq(inbox, 1, n), first)
         IN  /\ r \in Seq(EventRecord) /\ Len(r) = n /\ ChainFrom(LastQueued, r)
             /\ \A i \in 1..n : r[i].event = Newest + i
<1> DEFINE r == Labelled(SubSeq(inbox, 1, n), first)
<1>1. PullTypeOK /\ ControlType /\ DeliveryType /\ DeviceType /\ Inbox /\ Chain /\ Label
  BY DEF IInv, PullTypeOK
<1>2. /\ inbox \in Seq(Nat \ {0}) /\ produced \in Nat /\ Len(inbox) \in Nat /\ Len(inbox) <= produced
      /\ Newest \in Nat /\ Newest = produced - Len(inbox)
  BY <1>1 DEF DeviceType, Inbox, Newest
<1>3. /\ SubSeq(inbox, 1, n) \in Seq(Nat \ {0}) /\ Len(SubSeq(inbox, 1, n)) = n
      /\ \A i \in 1..n : SubSeq(inbox, 1, n)[i] = Newest + i
  <2>1. /\ SubSeq(inbox, 1, n) \in Seq(Nat \ {0}) /\ Len(SubSeq(inbox, 1, n)) = n
        /\ \A i \in 1..n : SubSeq(inbox, 1, n)[i] = inbox[i]
    BY <1>2, Prefix
  <2>2. \A i \in 1..n : inbox[i] = Newest + i
    BY <1>1, <1>2 DEF Inbox
  <2>3. QED
    BY <2>1, <2>2
<1>4. first \in {"initial", "continuous", "gap"}
  BY <1>1 DEF ControlType
<1>5. r = [i \in 1..n |-> [event |-> Newest + i,
                           continuity |-> IF i = 1 THEN first ELSE "continuous"]]
  BY <1>3 DEF Labelled
<1>6. \A i \in 1..n : r[i] = [event |-> Newest + i,
                              continuity |-> IF i = 1 THEN first ELSE "continuous"]
  BY <1>5
<1>6a. ASSUME NEW i \in 1..n
       PROVE  /\ r[i].event = Newest + i
              /\ r[i].continuity = IF i = 1 THEN first ELSE "continuous"
              /\ r[i] \in EventRecord
  <2>1. PICK a \in Nat \ {0} : a = Newest + i
    <3>1. Newest + i \in Nat \ {0}
      BY <1>2
    <3>2. QED
      BY <3>1
  <2>2. PICK c \in {"initial", "continuous", "gap"} : c = IF i = 1 THEN first ELSE "continuous"
    BY <1>4
  <2>3. r[i] = [event |-> a, continuity |-> c]
    BY <1>6, <2>1, <2>2
  <2>4. QED
    BY <2>1, <2>2, <2>3 DEF EventRecord
<1>7. r \in Seq(EventRecord) /\ Len(r) = n
  <2>1. r \in [1..n -> EventRecord]
    BY <1>5, <1>6a
  <2>2. n \in Nat
    BY <1>2
  <2>3. QED
    BY <2>1, <2>2
<1>7b. \A i \in 1..n : r[i] # NoRecord
  <2>1. \A x \in EventRecord : x # NoRecord
    BY DEF EventRecord, NoRecord
  <2>2. QED
    BY <1>2, <1>7, <2>1
<1> HIDE DEF r
<1>8. ChainFrom(LastQueued, r)
  <2>1. SUFFICES ASSUME NEW i \in 1..n
                 PROVE  Follows(IF i = 1 THEN LastQueued ELSE r[i - 1], r[i])
    BY <1>7 DEF ChainFrom
  <2>2. CASE i # 1
    <3>1. i - 1 \in 1..n /\ (Newest + i) = (Newest + (i - 1)) + 1
      BY <1>2, <2>2
    <3>2. /\ r[i - 1].event = Newest + (i - 1) /\ r[i].event = Newest + i
          /\ r[i].continuity = "continuous" /\ r[i - 1] # NoRecord
      BY <1>6a, <1>7b, <2>2, <3>1
    <3>3. QED
      BY <1>2, <2>2, <3>1, <3>2 DEF Follows
  <2>3. CASE i = 1
    <3>1. r[1].event = Newest + 1 /\ r[1].continuity = first
      BY <1>6a, <2>3
    <3>2. /\ continuity = "initial" => LastQueued = NoRecord
          /\ continuity = "continuous" => LastQueued # NoRecord /\ LastQueued.event = Newest
      BY <1>1 DEF Label
    <3>3. LastQueued.event <= Newest /\ LastQueued.event \in Nat
      <4>1. LastTaken.event <= Newest /\ \A j \in 1..Len(queue) : queue[j].event <= Newest
        BY <1>1 DEF Chain
      <4>2. queue # << >> => Len(queue) \in 1..Len(queue)
        BY <1>1 DEF DeliveryType
      <4>3. QED
        BY <1>1, <4>1, <4>2, LastTyped DEF LastQueued, LastOf
    <3>4. QED
      BY <1>2, <1>4, <2>3, <3>1, <3>2, <3>3 DEF Follows
  <2>4. QED
    BY <2>2, <2>3
<1>9. \A i \in 1..n : r[i].event = Newest + i
  BY <1>6a
<1>10. QED
  BY <1>7, <1>8, <1>9 DEF r

\* enqueue() and what it means for the order, whether drain() starts or not.
LEMMA EnqueueOrder ==
  ASSUME DeliveryType, Draining, Chain, NEW r \in Seq(EventRecord), Enqueue(r),
         drain # "failed" => /\ ChainFrom(LastQueued, r)
                             /\ \A i \in 1..Len(r) : r[i].event <= Newest',
         Newest \in Int, Newest' \in Int, Newest <= Newest'
  PROVE  /\ DeliveryType' /\ Draining' /\ Chain'
         /\ Undelivered' = Undelivered + Len(r) /\ Undelivered \in Nat
         /\ accepted' = accepted + Len(r) /\ log' = log
         /\ drain' = "failed" <=> drain = "failed"
         /\ drain' = "running" <=> (drain = "running" \/ (r # << >> /\ drain = "none"))
         /\ drain # "failed" => LastQueued' = LastOf(LastQueued, r)
<1> DEFINE all == queue \o r
<1>1. /\ accepted' = accepted + Len(r) /\ log' = log /\ awaiting' = awaiting /\ NoRecord' = NoRecord
      /\ \/ /\ r # << >> /\ drain = "none" /\ active' = Head(all) /\ queue' = Tail(all)
            /\ drain' = "running"
         \/ /\ ~(r # << >> /\ drain = "none") /\ queue' = all /\ active' = active /\ drain' = drain
  BY DEF Enqueue, NoRecord
<1>2. /\ all \in Seq(EventRecord) /\ Len(all) = Len(queue) + Len(r) /\ Len(queue) \in Nat
      /\ Len(r) \in Nat
      /\ \A i \in 1..Len(queue) : all[i] = queue[i]
      /\ \A i \in 1..Len(r) : all[Len(queue) + i] = r[i]
  BY Joined DEF DeliveryType
<1>3. drain # "failed" => /\ ChainFrom(LastTaken, all)
                          /\ LastOf(LastTaken, all) = LastOf(LastQueued, r)
  BY ChainJoined DEF DeliveryType, Chain, LastQueued
<1> HIDE DEF all
<1>4. drain # "failed" => \A i \in 1..Len(all) : all[i].event <= Newest'
  <2>1. SUFFICES ASSUME drain # "failed", NEW i \in 1..Len(all) PROVE all[i].event <= Newest'
    OBVIOUS
  <2>2. CASE i <= Len(queue)
    <3>1. i \in 1..Len(queue)
      BY <1>2, <2>2
    <3>2. queue[i] \in EventRecord /\ queue[i].event <= Newest
      BY <2>1, <3>1 DEF DeliveryType, Chain
    <3>3. queue[i].event \in Nat
      BY <3>2 DEF EventRecord
    <3>4. QED
      BY <1>2, <3>1, <3>2, <3>3
  <2>3. CASE i > Len(queue)
    <3>1. PICK j \in 1..Len(r) : i = Len(queue) + j
      <4>1. i - Len(queue) \in 1..Len(r) /\ i = Len(queue) + (i - Len(queue))
        BY <1>2, <2>3
      <4>2. QED
        BY <4>1
    <3>2. QED
      BY <1>2, <2>1, <3>1
  <2>4. QED
    BY <1>2, <2>2, <2>3
<1>5. LastLogged' = LastLogged /\ (ChainFrom(NoRecord, log))'
  BY <1>1 DEF Chain, ChainFrom, Follows, LastLogged, LastOf
<1>6. accepted' \in Nat
  BY <1>1, <1>2 DEF DeliveryType
<1>7. CASE r # << >> /\ drain = "none"
  <2>1. active' = Head(all) /\ queue' = Tail(all) /\ drain' = "running" /\ active = NoRecord
    BY <1>1, <1>7 DEF Draining
  <2>2. all # << >>
    <3>1. Len(r) # 0
      BY <1>7
    <3>2. Len(all) # 0
      BY <1>2, <3>1
    <3>3. QED
      BY <3>2
  <2>3. /\ active' \in EventRecord /\ queue' \in Seq(EventRecord) /\ Len(queue') = Len(all) - 1
        /\ active' = all[1] /\ Len(all) \in Nat \ {0}
        /\ \A i \in 1..Len(queue') : queue'[i] = all[i + 1]
    BY <1>2, <2>1, <2>2, HeadTail
  <2>4. active' # NoRecord
    BY <2>3 DEF EventRecord, NoRecord
  <2>5. /\ Follows(LastLogged, active') /\ ChainFrom(active', queue') /\ LastTaken = LastLogged
        /\ LastOf(LastTaken, all) = LastOf(active', queue')
    BY <1>2, <1>3, <1>7, <2>1, <2>2, ChainTaken DEF LastTaken
  <2>6. LastTaken' = active' /\ LastQueued' = LastOf(LastQueued, r)
    BY <1>1, <1>3, <1>7, <2>4, <2>5 DEF LastTaken, LastQueued, LastOf
  <2>7. (Follows(LastLogged, active))' /\ (ChainFrom(LastTaken, queue))'
    BY <1>1, <1>5, <2>5, <2>6 DEF ChainFrom, Follows
  <2>8. active'.event <= Newest' /\ \A i \in 1..Len(queue') : queue'[i].event <= Newest'
    <3>1. 1 \in 1..Len(all) /\ \A i \in 1..Len(queue') : i + 1 \in 1..Len(all)
      BY <2>3
    <3>2. QED
      BY <1>4, <1>7, <2>3, <3>1
  <2>9. LastLogged'.event <= Newest'
    BY <1>5, <1>7, LastTyped DEF Chain
  <2>10. Chain'
    BY <1>5, <2>6, <2>7, <2>8, <2>9 DEF Chain
  <2>11. DeliveryType' /\ Draining'
    BY <1>1, <1>6, <2>1, <2>3, <2>4 DEF DeliveryType, Draining
  <2>12. Undelivered' = Undelivered + Len(r) /\ Undelivered \in Nat
    <3>1. Undelivered = Len(queue) + 0 /\ Undelivered' = Len(queue') + 1
      BY <1>1, <2>1, <2>4 DEF Undelivered
    <3>2. QED
      BY <1>2, <2>3, <3>1
  <2>13. QED
    BY <1>1, <1>7, <2>1, <2>6, <2>10, <2>11, <2>12
<1>8. CASE ~(r # << >> /\ drain = "none")
  <2>1. queue' = all /\ active' = active /\ drain' = drain
    BY <1>1, <1>8
  <2>2. LastTaken' = LastTaken
    BY <1>1, <1>5, <2>1 DEF LastTaken
  <2>3. drain # "failed" => LastQueued' = LastOf(LastQueued, r)
    BY <1>3, <2>1, <2>2 DEF LastQueued, LastOf
  <2>4. drain # "failed" => (ChainFrom(LastTaken, queue))'
    BY <1>1, <1>3, <2>1, <2>2 DEF ChainFrom, Follows
  <2>5. drain # "failed" => LastLogged'.event <= Newest' /\ LastTaken'.event <= Newest'
    BY <1>5, <2>2, LastTyped DEF Chain
  <2>6. active' # NoRecord' /\ drain # "failed" => (Follows(LastLogged, active))'
    BY <1>1, <1>5, <2>1 DEF Chain, Follows
  <2>7. Chain'
    BY <1>4, <1>5, <2>1, <2>4, <2>5, <2>6 DEF Chain
  <2>8. DeliveryType' /\ Draining'
    BY <1>1, <1>2, <1>6, <2>1 DEF DeliveryType, Draining
  <2>9. Undelivered' = Undelivered + Len(r) /\ Undelivered \in Nat
    <3>1. CASE active = NoRecord
      <4>1. Undelivered = Len(queue) + 0 /\ Undelivered' = Len(all) + 0
        BY <1>1, <2>1, <3>1 DEF Undelivered
      <4>2. QED
        BY <1>2, <4>1
    <3>2. CASE active # NoRecord
      <4>1. Undelivered = Len(queue) + 1 /\ Undelivered' = Len(all) + 1
        BY <1>1, <2>1, <3>2 DEF Undelivered
      <4>2. QED
        BY <1>2, <4>1
    <3>3. QED
      BY <3>1, <3>2
  <2>10. QED
    BY <1>1, <1>8, <2>1, <2>3, <2>7, <2>8, <2>9
<1>9. QED
  BY <1>7, <1>8
\* An answer whose messages are queued.
LEMMA PulledQueues ==
  ASSUME IInv, phase = "pulling", resource[generation] = "alive",
         NEW k \in 0..Len(inbox), inbox' = SubSeq(inbox, k + 1, Len(inbox)),
         NEW first \in {continuity, "gap"}, NEW regressed \in BOOLEAN,
         Enqueue(Labelled(SubSeq(inbox, 1, Min({k, Room})), first)),
         IF k > Room
         THEN Finish({"overflow"}, Owned) /\ Gap
         ELSE /\ Await("loop", state) /\ UNCHANGED cleanupAttempted
              /\ continuity' = IF k > 0 THEN "continuous" ELSE first
              /\ diagnosed' = (diagnosed \/ regressed),
         UNCHANGED <<generation, endpointGone, restarts, negotiations, resource, produced,
                     unsubscribes, orphan>>
  PROVE  IInv'
<1> USE PullAssumption
<1> DEFINE n == Min({k, Room})
           r == Labelled(SubSeq(inbox, 1, n), first)
<1>1. PullTypeOK /\ Ownership /\ Resources /\ Ending /\ Draining /\ Inbox /\ Chain /\ Label
      /\ ControlType /\ DeliveryType /\ DeviceType /\ CapacityBounded /\ Accounted
  BY DEF IInv, PullTypeOK
<1>2. /\ phase \in Running /\ Owned /\ ~endpointGone /\ ~cleanupAttempted /\ remote = "pending"
      /\ state # "closed" /\ generation \in Generation
  BY RunningOwns DEF Running
<1>3. /\ inbox \in Seq(Nat \ {0}) /\ Len(inbox) \in Nat /\ produced \in Nat /\ k \in Nat
      /\ Len(inbox) <= produced /\ Newest \in Nat /\ Newest = produced - Len(inbox)
  BY <1>1 DEF DeviceType, Inbox, Newest
<1>4. Room \in Nat /\ Undelivered + Room = MaxQueued /\ Undelivered \in Nat
  <2>1. Len(queue) \in Nat
    BY <1>1 DEF DeliveryType
  <2>2. QED
    BY <1>1, <2>1 DEF CapacityBounded, Room, Undelivered
<1>5. n \in Nat /\ n <= k /\ n <= Room /\ n \in 0..Len(inbox) /\ (~(k > Room) => n = k)
  BY <1>3, <1>4, MinOfTwo
<1>6. /\ inbox' \in Seq(Nat \ {0}) /\ Len(inbox') = Len(inbox) - k
      /\ \A i \in 1..Len(inbox') : inbox'[i] = inbox[i + k]
  BY <1>3, Suffix
<1>7. UNCHANGED <<generation, endpointGone, restarts, resource, produced, unsubscribes, orphan,
                  Generation>>
  BY DEF Generation
<1>8. Newest' = Newest + k /\ DeviceType'
  <2>1. Newest' = produced - Len(inbox')
    BY <1>7 DEF Newest
  <2>2. QED
    BY <1>1, <1>3, <1>6, <1>7, <2>1 DEF DeviceType
<1> HIDE DEF n
<1>9. drain # "failed" =>
        /\ r \in Seq(EventRecord) /\ Len(r) = n /\ ChainFrom(LastQueued, r)
        /\ \A i \in 1..n : r[i].event = Newest + i
  BY <1>2, <1>5, BatchFollows
<1>10. r \in Seq(EventRecord) /\ Len(r) = n
  <2>1. Len(SubSeq(inbox, 1, n)) = n /\ SubSeq(inbox, 1, n) \in Seq(Nat \ {0})
    BY <1>3, <1>5, Prefix
  <2>2. first \in {"initial", "continuous", "gap"}
    BY <1>1 DEF ControlType
  <2>3. r \in [1..n -> EventRecord]
    BY <2>1, <2>2 DEF Labelled, EventRecord
  <2>4. QED
    BY <1>5, <2>3
<1> HIDE DEF r
<1>11. Enqueue(r)
  BY DEF r, n
<1>12. drain # "failed" => \A i \in 1..Len(r) : r[i].event <= Newest'
  BY SMTT(30), <1>3, <1>5, <1>8, <1>9
<1>13. /\ DeliveryType' /\ Draining' /\ Chain'
       /\ Undelivered' = Undelivered + n
       /\ accepted' = accepted + n /\ log' = log
       /\ drain' = "failed" <=> drain = "failed"
       /\ drain' = "running" <=> (drain = "running" \/ (r # << >> /\ drain = "none"))
       /\ drain # "failed" => LastQueued' = LastOf(LastQueued, r)
  <2>1. Newest \in Int /\ Newest' \in Int /\ Newest <= Newest'
    <3>1. \A m \in Int : m = Newest + k => Newest <= m
      BY <1>3
    <3>2. Newest + k \in Int
      BY <1>3
    <3>3. QED
      BY <1>3, <1>8, <3>1, <3>2
  <2>2. drain # "failed" => /\ ChainFrom(LastQueued, r)
                            /\ \A i \in 1..Len(r) : r[i].event <= Newest'
    BY <1>9, <1>12
  <2>3. QED
    BY <1>1, <1>10, <1>11, <2>1, <2>2, EnqueueOrder
<1>14. CapacityBounded'
  <2>1. CapacityBounded' <=> Undelivered' <= MaxQueued
    BY DEF CapacityBounded, Undelivered
  <2>2. QED
    BY <1>4, <1>5, <1>13, <2>1
<1>15. Inbox'
  <2>1. \A i \in 1..Len(inbox') : inbox'[i] = produced - Len(inbox') + i
    <3>1. SUFFICES ASSUME NEW i \in 1..Len(inbox')
                   PROVE  inbox'[i] = produced - Len(inbox') + i
      OBVIOUS
    <3>2. i + k \in 1..Len(inbox)
      BY <1>3, <1>6
    <3>3. inbox[i + k] = produced - Len(inbox) + (i + k)
      BY <1>1, <3>2 DEF Inbox
    <3>4. \A m \in Int : m = Len(inbox) - k => produced - Len(inbox) + (i + k) = produced - m + i
      BY <1>3
    <3>5. Len(inbox') \in Int
      BY <1>3, <1>6
    <3>6. QED
      BY <1>6, <3>3, <3>4, <3>5
  <2>2. Len(inbox') <= produced
    BY <1>3, <1>6
  <2>3. generation # 0
    BY <1>2, PullAssumption DEF Generation
  <2>4. QED
    BY <1>7, <2>1, <2>2, <2>3 DEF Inbox
<1>16. accepted' # Len(log') + Undelivered' => diagnosed
  <2>1. Len(log) \in Nat /\ accepted \in Nat
    BY <1>1 DEF DeliveryType
  <2>2. accepted' = Len(log') + Undelivered' <=> accepted = Len(log) + Undelivered
    BY <1>4, <1>5, <1>13, <2>1
  <2>3. QED
    BY <1>1, <2>2 DEF Accounted
<1>17. CASE k > Room
  <2>1. Finish({"overflow"}, Owned) /\ Gap
    BY <1>17
  <2>2. /\ phase' = "cleaning" /\ stopRequested' = TRUE /\ aborted' = TRUE /\ state' = "closing"
        /\ cleanupAttempted' = TRUE /\ remote' = remote /\ stopped' = stopped
        /\ continuity' = "gap" /\ diagnosed' = TRUE /\ errors \subseteq errors'
    BY <1>2, <2>1 DEF Finish, Gap
  <2>3. ControlType'
    BY <1>1, <1>7, <2>2 DEF ControlType, Phases
  <2>4. Ownership' /\ Resources'
    BY <1>1, <1>2, <1>7, <2>2 DEF Ownership, Resources, Running
  <2>5. Ending'
    BY <1>1, <1>2, <1>7, <2>2 DEF Ending, RemoteConfirmed
  <2>6. Label' /\ Accounted'
    BY <2>2 DEF Label, Accounted
  <2>7. QED
    BY <1>8, <1>13, <1>14, <1>15, <2>3, <2>4, <2>5, <2>6 DEF IInv, PullTypeOK
<1>18. CASE ~(k > Room)
  <2>1. /\ Await("loop", state) /\ UNCHANGED cleanupAttempted
        /\ continuity' = IF k > 0 THEN "continuous" ELSE first
        /\ diagnosed' = (diagnosed \/ regressed)
    BY <1>18
  <2>2. /\ phase' = "loop" /\ state' = state
        /\ UNCHANGED <<stopRequested, aborted, errors, remote, stopped, cleanupAttempted>>
        /\ diagnosed' \in BOOLEAN /\ (diagnosed => diagnosed')
        /\ continuity' \in {"initial", "continuous", "gap"}
    BY <1>1, <2>1 DEF Await, ControlType
  <2>3. ControlType'
    BY <1>1, <1>7, <2>2 DEF ControlType, Phases
  <2>4. Ownership' /\ Resources'
    BY <1>1, <1>2, <1>7, <2>2 DEF Ownership, Resources, Running
  <2>5. Ending'
    BY <1>1, <1>2, <1>7, <2>2 DEF Ending, RemoteConfirmed
  <2>6. Accounted'
    BY <1>16, <2>2 DEF Accounted
  <2>7. Label'
    <3>1. CASE drain # "failed" /\ k = 0
      <4>1. n = 0 /\ r = << >>
        BY <1>5, <1>10, <1>18, <3>1
      <4>2. LastQueued' = LastQueued /\ Newest' = Newest /\ NoRecord' = NoRecord
            /\ continuity' \in {continuity, "gap"}
        BY <1>3, <1>8, <1>13, <2>1, <3>1, <4>1 DEF LastOf, NoRecord
      <4>3. QED
        BY <1>1, <1>2, <1>7, <2>2, <3>1, <4>2 DEF Label, Running
    <3>2. CASE drain # "failed" /\ k # 0
      <4>1. n = k /\ n \in 1..n /\ r # << >> /\ k > 0
        <5>1. n = k /\ k > 0 /\ Len(r) # 0
          BY <1>3, <1>5, <1>10, <1>18, <3>2
        <5>2. QED
          BY <1>5, <5>1
      <4>2. LastQueued' = r[n] /\ r[n] \in EventRecord /\ r[n].event = Newest + k
        BY <1>9, <1>10, <1>13, <3>2, <4>1 DEF LastOf
      <4>3. LastQueued' # NoRecord'
        BY <4>2 DEF EventRecord, NoRecord
      <4>4. QED
        BY <1>8, <2>1, <2>2, <4>1, <4>2, <4>3 DEF Label
    <3>3. CASE drain = "failed"
      BY <1>13, <2>2, <3>3 DEF Label
    <3>4. QED
      BY <3>1, <3>2, <3>3
  <2>8. QED
    BY <1>8, <1>13, <1>14, <1>15, <2>3, <2>4, <2>5, <2>6, <2>7 DEF IInv, PullTypeOK
<1>19. QED
  BY <1>17, <1>18

LEMMA PulledStep == IInv /\ Pulled => IInv'
<1> SUFFICES ASSUME IInv, Pulled PROVE IInv'
  OBVIOUS
<1> USE PullAssumption
<1>1. DeviceType /\ Inbox /\ inbox \in Seq(Nat \ {0}) /\ Len(inbox) \in Nat
  BY DEF IInv, PullTypeOK, DeviceType
<1>2. PICK k \in 0..Min({MessageLimit, Len(inbox)}),
           regressed \in {FALSE} \cup {"clock" \in Faults} :
    LET first == IF regressed THEN "gap" ELSE continuity
        fitting == SubSeq(inbox, 1, Min({k, Room}))
    IN /\ phase = "pulling" /\ resource[generation] = "alive"
       /\ inbox' = SubSeq(inbox, k + 1, Len(inbox))
       /\ \/ /\ "reject" \in Faults
             /\ Finish({"invalid"}, Owned) /\ UNCHANGED <<gap, delivery>>
          \/ /\ stopRequested
             /\ Finish({}, Owned)
             /\ IF regressed THEN Gap ELSE UNCHANGED gap
             /\ UNCHANGED delivery
          \/ /\ ~stopRequested
             /\ Enqueue(Labelled(fitting, first))
             /\ IF k > Room
                THEN Finish({"overflow"}, Owned) /\ Gap
                ELSE /\ Await("loop", state) /\ UNCHANGED cleanupAttempted
                     /\ continuity' = IF k > 0 THEN "continuous" ELSE first
                     /\ diagnosed' = (diagnosed \/ regressed)
       /\ UNCHANGED <<generation, endpointGone, restarts, negotiations, resource, produced,
                      unsubscribes, orphan>>
  BY DEF Pulled
<1>3. k \in 0..Len(inbox)
  <2>1. Min({MessageLimit, Len(inbox)}) \in 0..Len(inbox)
    BY <1>1, MinOfTwo
  <2>2. QED
    BY <1>1, <2>1
<1>4. regressed \in BOOLEAN
  <2>1. ("clock" \in Faults) = TRUE \/ ("clock" \in Faults) = FALSE
    OBVIOUS
  <2>2. QED
    BY <2>1, <1>2
<1>5. PICK first \in {continuity, "gap"} : first = IF regressed THEN "gap" ELSE continuity
  OBVIOUS
<1>6. ASSUME NEW es, Finish(es, Owned), UNCHANGED gap \/ Gap, UNCHANGED delivery
      PROVE  IInv'
  <2>1. phase \in Running /\ MayDrain
    BY <1>2, <1>3 DEF Running, MayDrain
  <2>2. Still
    BY <1>2, <1>6 DEF Still, Finish
  <2>3. Turn
    BY <1>2, <1>6, <2>1, <2>2, FinishTurn
  <2>4. QED
    BY <2>3, TurnStep
<1>7. CASE Finish({"invalid"}, Owned) /\ UNCHANGED <<gap, delivery>>
  BY <1>6, <1>7
<1>8. CASE Finish({}, Owned) /\ (Gap \/ UNCHANGED gap) /\ UNCHANGED delivery
  BY <1>6, <1>8
<1>9. CASE /\ Enqueue(Labelled(SubSeq(inbox, 1, Min({k, Room})), first))
           /\ IF k > Room
              THEN Finish({"overflow"}, Owned) /\ Gap
              ELSE /\ Await("loop", state) /\ UNCHANGED cleanupAttempted
                   /\ continuity' = IF k > 0 THEN "continuous" ELSE first
                   /\ diagnosed' = (diagnosed \/ regressed)
  BY <1>2, <1>3, <1>4, <1>9, PulledQueues
<1>10. QED
  BY <1>2, <1>5, <1>7, <1>8, <1>9

-----------------------------------------------------------------------------
LEMMA InitStep == Init => IInv
<1> SUFFICES ASSUME Init PROVE IInv
  OBVIOUS
<1> USE PullAssumption DEF Init
<1>1. ControlType
  <2>1. 0 \in 0..MaxRestarts /\ 0 \in 0..(MaxRestarts + 1)
    OBVIOUS
  <2>2. QED
    BY <2>1 DEF ControlType, Phases
<1>2. DeliveryType
  <2>1. << >> \in Seq(EventRecord)
    OBVIOUS
  <2>2. QED
    BY <2>1 DEF DeliveryType
<1>3. DeviceType
  <2>1. << >> \in Seq(Nat \ {0})
    OBVIOUS
  <2>2. QED
    BY <2>1 DEF DeviceType
<1>4. Ownership /\ Resources
  BY DEF Ownership, Resources, Running, Generation
<1>5. Ending
  BY DEF Ending, RemoteConfirmed
<1>6. LastLogged = NoRecord /\ LastTaken = NoRecord /\ LastQueued = NoRecord /\ Newest = 0
  <2>1. LastOf(NoRecord, << >>) = NoRecord
    BY DEF LastOf
  <2>2. LastLogged = NoRecord /\ LastTaken = NoRecord /\ LastQueued = NoRecord
    BY <2>1 DEF LastLogged, LastTaken, LastQueued
  <2>3. Newest = 0
    <3>1. Newest = 0 - Len(<< >>)
      BY DEF Newest
    <3>2. Len(<< >>) = 0 /\ 0 - 0 = 0
      OBVIOUS
    <3>3. QED
      BY <3>1, <3>2
  <2>4. QED
    BY <2>2, <2>3
<1>7. Chain /\ Label /\ Inbox
  BY <1>6 DEF Chain, ChainFrom, Label, Inbox, NoRecord
<1>8. Draining /\ CapacityBounded /\ Accounted
  BY DEF Draining, CapacityBounded, Accounted, Undelivered
<1>9. QED
  BY <1>1, <1>2, <1>3, <1>4, <1>5, <1>7, <1>8 DEF IInv, PullTypeOK

LEMMA StutterStep == IInv /\ UNCHANGED vars => IInv'
<1> SUFFICES ASSUME IInv, UNCHANGED vars PROVE IInv'
  OBVIOUS
<1>1. UNCHANGED <<phase, state, stopRequested, aborted, errors, remote, stopped, generation,
                  endpointGone, cleanupAttempted, restarts, negotiations, continuity, diagnosed,
                  queue, active, drain, awaiting, log, accepted, resource, inbox, produced,
                  unsubscribes, orphan>>
  BY DEF vars, ctl, own, gap, delivery, device
<1>2. PullTypeOK' /\ Ownership' /\ Resources' /\ Ending'
  BY <1>1 DEF IInv, PullTypeOK, ControlType, DeliveryType, DeviceType, Ownership, Resources,
              Ending, RemoteConfirmed, Generation, NoRecord
<1>3. Draining' /\ Inbox' /\ CapacityBounded' /\ Accounted'
  BY <1>1 DEF IInv, Draining, Inbox, CapacityBounded, Accounted, Undelivered, NoRecord
<1>4. LastLogged' = LastLogged /\ LastTaken' = LastTaken /\ LastQueued' = LastQueued
      /\ Newest' = Newest
  BY <1>1 DEF LastLogged, LastTaken, LastQueued, LastOf, Newest, NoRecord
<1>5. Chain' /\ Label'
  BY <1>1, <1>4 DEF IInv, Chain, ChainFrom, Follows, Label, NoRecord
<1>6. QED
  BY <1>2, <1>3, <1>5 DEF IInv

\* The inductive invariant: types, who owns which resource, what is on the
\* device, how the subscription ends, and the order and account of the records.
THEOREM PullInvariant == Spec => []IInv
<1>1. Init => IInv
  BY InitStep
<1>2. IInv /\ [Next]_vars => IInv'
  <2>1. IInv /\ Next => IInv'
    BY CreateStep, SynchronizedStep, LoopStep, RenewStep, PulledStep, PullFailsStep, ReleaseStep,
       CleanStep, SettleStep, QuietStep, CallbackReturnsStep, CallbackFailsStep, EventStep, DropStep
       DEF Next, Controller
  <2>2. QED
    BY <2>1, StutterStep
<1>3. QED
  BY <1>1, <1>2, PTL DEF Spec

\* release(), recover() and finish(): what was created on the device is
\* released once, "closed" is said only when it is gone, and "resolved" to a
\* listener that awaits its own stop() only then or after an attempt of recover()
\* to release it that failed (release() does not try again).
THEOREM CleanupAlwaysHonest == Spec => []CleanupHonest
<1>1. IInv => CleanupHonest
  <2> SUFFICES ASSUME IInv PROVE CleanupHonest
    OBVIOUS
  <2> USE PullAssumption
  <2>1. ControlType /\ DeviceType /\ Resources /\ Ending /\ Draining /\ Ownership
    BY DEF IInv, PullTypeOK
  <2>2. OneResource /\ UnsubscribeOnce
    BY <2>1 DEF OneResource, UnsubscribeOnce, Resources, ControlType, DeviceType, Generation
  <2>3. RemoteConfirmed
    BY <2>1 DEF Ending
  <2>4. ClosedClean
    <3>1. SUFFICES ASSUME state = "closed"
                   PROVE  /\ ~orphan /\ \A g \in Generation : resource[g] # "alive"
                          /\ drain # "running" /\ active = NoRecord /\ queue = << >>
                          /\ stopped = "resolved"
      BY DEF ClosedClean
    <3>2. phase = "done" /\ errors = {} /\ stopped = "resolved" /\ remote # "pending"
      BY <2>1, <3>1 DEF Ending
    <3>3. ~orphan /\ queue = << >> /\ drain # "running" /\ active = NoRecord
      BY <2>1, <3>2 DEF Ending, Draining
    <3>4. remote = "resolved"
      BY <2>1, <3>2 DEF Ending, ControlType
    <3>5. generation # 0 => resource[generation] = "gone"
      BY <2>1, <3>2, <3>4 DEF Ending, RemoteConfirmed
    <3>6. \A g \in Generation : resource[g] # "alive"
      BY <2>1, <3>5 DEF Resources, ControlType, Generation
    <3>7. QED
      BY <3>2, <3>3, <3>6
  <2>5. QED
    BY <2>2, <2>3, <2>4 DEF CleanupHonest
<1>2. QED
  BY PullInvariant, <1>1, PTL

\* enqueue(), drain() and finish(): what the listener is handed is bounded, in
\* the device's order, labelled continuous only where it is, and what it misses
\* is diagnosed.
THEOREM DeliveryAlwaysHonest == Spec => []DeliveryHonest
<1>1. IInv => DeliveryHonest
  <2> SUFFICES ASSUME IInv PROVE DeliveryHonest
    OBVIOUS
  <2>1. DeliveryType /\ Chain /\ Accounted /\ Ending /\ Draining /\ CapacityBounded
    BY DEF IInv, PullTypeOK
  <2>2. ContinuityHonest
    <3>1. SUFFICES ASSUME NEW i \in 1..Len(log)
                   PROVE  /\ IF i = 1 THEN log[i].continuity # "continuous"
                             ELSE log[i].continuity # "initial"
                          /\ i > 1 => /\ log[i].event > log[i - 1].event
                                      /\ log[i].continuity = "continuous" =>
                                           log[i].event = log[i - 1].event + 1
      BY DEF ContinuityHonest
    <3>2. Follows(IF i = 1 THEN NoRecord ELSE log[i - 1], log[i])
      BY <2>1 DEF Chain, ChainFrom
    <3>3. CASE i = 1
      BY <3>2, <3>3 DEF Follows
    <3>4. CASE i # 1
      <4>1. i - 1 \in 1..Len(log) /\ \A j \in 1..Len(log) : log[j] \in EventRecord
        BY <2>1, <3>4 DEF DeliveryType
      <4>2. log[i - 1] # NoRecord /\ log[i - 1].event \in Nat /\ log[i].event \in Nat
        BY <4>1 DEF EventRecord, NoRecord
      <4>3. QED
        BY <3>2, <3>4, <4>2 DEF Follows
    <3>5. QED
      BY <3>3, <3>4
  <2>3. UndeliveredDiagnosed
    <3>1. phase = "done" => queue = << >> /\ active = NoRecord
      BY <2>1 DEF Ending, Draining
    <3>2. phase = "done" => Undelivered = 0
      BY <3>1 DEF Undelivered
    <3>3. Len(log) + 0 = Len(log)
      BY <2>1 DEF DeliveryType
    <3>4. QED
      BY <2>1, <3>2, <3>3 DEF Accounted, UndeliveredDiagnosed
  <2>4. QED
    BY <2>1, <2>2, <2>3 DEF DeliveryHonest
<1>2. QED
  BY PullInvariant, <1>1, PTL

-----------------------------------------------------------------------------
(* Inspections.                                                            *)

RequestSet ==
  {r \in [kind : {"none", "device", "legacy", "untyped", "resolve"},
          stage : {"none", "sending", "pause", "window"}, attempt : Nat, matches : {0, 1},
          late : BOOLEAN] :
     r.late => r.stage # "none"}
ProbingSet == [stage : {"none", "typed", "untyped"}, slots : SUBSET Slot, count : Nat]
DeviceSet ==
  [state : {"candidate", "verified", "suspect", "stale", "departed"},
   suspect : {"no", "recent", "over"}, overdue : BOOLEAN, verified : BOOLEAN, failed : Nat, last : Nat]
Reads == {"GetServices", "GetCapabilities", "GetDeviceInformation", "GetEndpointReference"}
JobSet ==
  [stage : {"reading"}, step : Nat, called : BOOLEAN, reads : Nat, aborted : BOOLEAN, round : Nat,
   fenced : BOOLEAN, responsive : BOOLEAN, confirmed : BOOLEAN, known : SUBSET Reads,
   legacy : BOOLEAN, silent : BOOLEAN]
Item == Token \X {1, 2}
Partial == {"truncated", "fault", "timeout", "denied", "unsupported", "unknown"}
ListingSet ==
  [stage : {"none", "paging", "known"} \cup Partial, page : Nat, values : SUBSET Item,
   refs : SUBSET Nat, told : SUBSET Item, more : BOOLEAN]

InspectionTypeOK ==
  /\ life \in {"running", "closing", "waiting", "closed"} /\ unconfirmed \subseteq {"reads", "sends"}
  /\ round \in Nat
  /\ requests \in [Slot -> RequestSet] /\ probing \in ProbingSet /\ hung \in Nat
  /\ dev \in DeviceSet /\ job \in JobSet \cup {NoJob} /\ stuck \in Nat /\ listing \in ListingSet
  /\ missed \subseteq Nat

\* Each failed round that counts is one that left a read unanswered, and a round
\* counts once.
Rounds ==
  /\ missed \subseteq 0..dev.last /\ dev.failed <= Cardinality(missed)
  /\ job # NoJob /\ job.confirmed => job.silent

\* A request takes one place from its admission to its end and leaves at most one
\* send behind, which is why retransmissions need no bound of their own.
Called == IF job.stage = "reading" /\ job.called THEN 1 ELSE 0
Outstanding ==
  /\ hung + Cardinality(Open(requests)) <= 2 * MaxRequests - 1
  /\ stuck + Called <= MaxReads

\* An engine that closes begins nothing, and counts what is left.
Shutdown ==
  /\ life # "running" =>
       /\ Open(requests) = {} /\ probing = NotProbing
       /\ job # NoJob => job.aborted /\ ~job.called
  /\ life \in {"waiting", "closed"} /\ "reads" \notin unconfirmed => stuck = 0
  /\ life = "closed" /\ "sends" \notin unconfirmed => hung = 0

\* Up to the page that ends it, an inventory holds all that it was told.
Consistent(items) == \A v, w \in items : v[1] = w[1] => v = w
Whole(l) ==
  /\ l.values \subseteq l.told /\ Cardinality(l.values) <= MaxResources /\ l.page <= MaxPages
  /\ l.stage = "paging" => l.page < MaxPages
  /\ l.stage \in {"paging", "known"} => l.values = l.told /\ Consistent(l.told)
  /\ l.stage = "known" => ~l.more
Paging == Whole(listing)

\* The inductive invariant.
InspectionInv == InspectionTypeOK /\ Rounds /\ Outstanding /\ Shutdown /\ Paging

-----------------------------------------------------------------------------
\* Items, requests and their numbers.
LEMMA ItemsFinite == IsFiniteSet(Item) /\ \A x \in SUBSET Item : IsFiniteSet(x)
<1>1. Item = {<<"a", 1>>, <<"a", 2>>, <<"b", 1>>, <<"b", 2>>}
  BY DEF Item, Token
<1>2. /\ IsFiniteSet({<<"a", 1>>}) /\ IsFiniteSet({<<"a", 2>>})
      /\ IsFiniteSet({<<"b", 1>>}) /\ IsFiniteSet({<<"b", 2>>})
  BY FS_Singleton
<1>3. IsFiniteSet({<<"a", 1>>} \cup {<<"a", 2>>}) /\ IsFiniteSet({<<"b", 1>>} \cup {<<"b", 2>>})
  BY <1>2, FS_Union
<1>4. IsFiniteSet(({<<"a", 1>>} \cup {<<"a", 2>>}) \cup ({<<"b", 1>>} \cup {<<"b", 2>>}))
  BY <1>3, FS_Union
<1>5. IsFiniteSet(Item)
  BY <1>1, <1>4, Zenon
<1>6. QED
  BY <1>5, FS_Subset

LEMMA OpenFinite ==
  ASSUME NEW r
  PROVE  /\ IsFiniteSet(Open(r)) /\ Cardinality(Open(r)) \in Nat
         /\ Cardinality(Open(r)) <= MaxRequests
<1>1. IsFiniteSet(Slot) /\ Cardinality(Slot) = MaxRequests
  BY InspectionAssumption, FS_Interval DEF Slot, InspectionAssumption
<1>2. Open(r) \subseteq Slot
  BY DEF Open
<1>3. QED
  BY <1>1, <1>2, FS_Subset, FS_CardinalityType

\* Request() takes one free slot, or none.
LEMMA RequestAdds ==
  ASSUME NEW r \in [Slot -> RequestSet], NEW kind \in {"device", "legacy", "untyped", "resolve"}
  PROVE  /\ Request(r, kind) \in [Slot -> RequestSet]
         /\ hung \in Nat /\ hung + Cardinality(Open(r)) <= 2 * MaxRequests - 1 =>
              hung + Cardinality(Open(Request(r, kind))) <= 2 * MaxRequests - 1
<1>1. CASE ~Admits(r)
  BY <1>1 DEF Request
<1>2. CASE Admits(r)
  <2> DEFINE s == CHOOSE x \in Slot : r[x].stage = "none"
             new == [NoRequest EXCEPT !.kind = kind, !.stage = "sending"]
             q == [r EXCEPT ![s] = new]
  <2>1. Request(r, kind) = q
    BY <1>2 DEF Request
  <2>2. \E x \in Slot : r[x].stage = "none"
    <3>1. SUFFICES ASSUME Open(r) = Slot PROVE FALSE
      BY DEF Open
    <3>2. Cardinality(Slot) = MaxRequests
      BY InspectionAssumption, FS_Interval DEF Slot, InspectionAssumption
    <3>3. QED
      BY <1>2, <3>1, <3>2, InspectionAssumption DEF Admits, InspectionAssumption
  <2>3. s \in Slot /\ r[s].stage = "none"
    BY <2>2
  <2>4. new \in RequestSet /\ new.stage = "sending"
    BY DEF RequestSet, NoRequest
  <2> HIDE DEF s, new
  <2>5. q \in [Slot -> RequestSet]
    BY <2>3, <2>4
  <2>6. Open(q) = Open(r) \cup {s}
    BY <2>3, <2>4 DEF Open
  <2>7. Cardinality(Open(q)) <= Cardinality(Open(r)) + 1
    <3>1. s \notin Open(r)
      BY <2>3 DEF Open
    <3>2. Cardinality(Open(r) \cup {s}) = Cardinality(Open(r)) + 1
      BY <3>1, OpenFinite, FS_AddElement
    <3>3. Cardinality(Open(r)) \in Nat
      BY OpenFinite
    <3> HIDE DEF q
    <3>4. QED
      BY <2>6, <3>2, <3>3
  <2>8. ASSUME hung \in Nat PROVE hung <= MaxRequests - 1
    <3> DEFINE S == {x \in Slot : r[x].stage = "sending"}
    <3>1. S \subseteq Slot /\ IsFiniteSet(Slot)
      BY InspectionAssumption, FS_Interval DEF Slot, InspectionAssumption
    <3>2. Cardinality(S) \in Nat
      BY <3>1, FS_Subset, FS_CardinalityType
    <3>3. hung + Cardinality(S) < MaxRequests
      BY <1>2 DEF Admits, Sending
    <3> HIDE DEF S
    <3>4. QED
      BY <2>8, <3>2, <3>3, InspectionAssumption DEF InspectionAssumption
  <2>9. Cardinality(Open(r)) \in Nat /\ Cardinality(Open(q)) \in Nat /\ Cardinality(Open(r)) < MaxRequests
    BY <1>2, OpenFinite DEF Admits
  <2> HIDE DEF q
  <2>10. MaxRequests \in Nat
    BY InspectionAssumption DEF InspectionAssumption
  <2>11. hung \in Nat => hung + Cardinality(Open(q)) <= 2 * MaxRequests - 1
    BY <2>7, <2>8, <2>9, <2>10
  <2>12. QED
    BY <2>1, <2>5, <2>11
<1>3. QED
  BY <1>1, <1>2

\* A request ends, or changes while it stays open.
LEMMA RequestEnds ==
  ASSUME NEW r \in [Slot -> RequestSet], NEW s \in Slot, r[s].stage # "none"
  PROVE  LET q == [r EXCEPT ![s] = NoRequest]
         IN /\ q \in [Slot -> RequestSet] /\ s \in Open(r)
            /\ Cardinality(Open(q)) = Cardinality(Open(r)) - 1
<1> DEFINE q == [r EXCEPT ![s] = NoRequest]
<1>1. NoRequest \in RequestSet /\ NoRequest.stage = "none"
  BY DEF NoRequest, RequestSet
<1>2. q \in [Slot -> RequestSet] /\ s \in Open(r) /\ Open(q) = Open(r) \ {s}
  BY <1>1 DEF Open
<1>3. QED
  BY <1>2, OpenFinite, FS_RemoveElement

LEMMA RequestStays ==
  ASSUME NEW r \in [Slot -> RequestSet], NEW s \in Slot, r[s].stage # "none",
         NEW n \in RequestSet, n.stage # "none"
  PROVE  LET q == [r EXCEPT ![s] = n] IN q \in [Slot -> RequestSet] /\ Open(q) = Open(r)
BY DEF Open

LEMMA AllEnd ==
  ASSUME NEW r, r = [s \in Slot |-> NoRequest]
  PROVE  r \in [Slot -> RequestSet] /\ Open(r) = {} /\ Cardinality(Open(r)) = 0
<1>1. NoRequest \in RequestSet /\ NoRequest.stage = "none"
  BY DEF NoRequest, RequestSet
<1>2. QED
  BY <1>1, FS_EmptySet DEF Open

\* No more sends than open requests and sends left behind.
LEMMA SendingOpen ==
  ASSUME NEW r, hung \in Nat
  PROVE  /\ Sending(r) \in Nat /\ hung <= Sending(r)
         /\ Sending(r) <= hung + Cardinality(Open(r))
<1> DEFINE S == {s \in Slot : r[s].stage = "sending"}
<1>1. S \subseteq Open(r)
  BY DEF Open
<1>2. Cardinality(S) \in Nat /\ Cardinality(S) <= Cardinality(Open(r))
  BY <1>1, OpenFinite, FS_Subset, FS_CardinalityType
<1>3. Sending(r) = hung + Cardinality(S)
  BY DEF Sending
<1> HIDE DEF S
<1>4. QED
  BY <1>2, <1>3, OpenFinite

-----------------------------------------------------------------------------
\* Reads: what is recorded of an outcome, and what an inventory is left with.
Outcomes == [status : {"known"} \cup Partial, responded : BOOLEAN]
LEMMA RecordFields ==
  ASSUME NEW j \in JobSet, NEW o \in Outcomes, NEW deadline \in BOOLEAN
  PROVE  LET n == Record(j, o, deadline)
         IN /\ n \in JobSet /\ ~n.called /\ n.round = j.round /\ n.aborted = j.aborted
            /\ n.silent = j.silent
            /\ n.confirmed = (j.confirmed \/ (o.status = "timeout" /\ deadline))
<1> DEFINE known == j.known \cup (IF o.status = "known" THEN {Current(j)} \cap Decisive ELSE {})
           legacy == j.legacy \/ (Current(j) = "GetServices" /\ Legacy(o))
           step == IF Current(j) = "page" THEN j.step ELSE j.step + 1
           confirmed == j.confirmed \/ (o.status = "timeout" /\ deadline)
           responsive == j.responsive \/ o.responded
<1>1. known \in SUBSET Reads
  <2>1. Decisive \subseteq Reads
    BY DEF Decisive, Reads
  <2>2. j.known \subseteq Reads
    BY DEF JobSet
  <2>3. QED
    BY <2>1, <2>2
<1>2. legacy \in BOOLEAN /\ confirmed \in BOOLEAN /\ responsive \in BOOLEAN
  BY DEF JobSet, Outcomes, Legacy
<1>3. step \in Nat /\ j.reads + 1 \in Nat
  BY DEF JobSet
<1>4. Record(j, o, deadline) =
        [j EXCEPT !.called = FALSE, !.step = step, !.reads = j.reads + 1, !.responsive = responsive,
                  !.confirmed = confirmed, !.known = known, !.legacy = legacy]
  BY DEF Record
<1>5. confirmed = (j.confirmed \/ (o.status = "timeout" /\ deadline))
  OBVIOUS
<1> DEFINE n == Record(j, o, deadline)
<1> HIDE DEF known, legacy, step, confirmed, responsive
<1>6. n = [stage |-> j.stage, step |-> step, called |-> FALSE, reads |-> j.reads + 1,
           aborted |-> j.aborted, round |-> j.round, fenced |-> j.fenced,
           responsive |-> responsive, confirmed |-> confirmed, known |-> known,
           legacy |-> legacy, silent |-> j.silent]
  BY <1>4 DEF JobSet
<1>7. n \in JobSet
  BY <1>1, <1>2, <1>3, <1>6 DEF JobSet
<1>8. /\ ~n.called /\ n.round = j.round /\ n.aborted = j.aborted
      /\ n.silent = j.silent /\ n.confirmed = confirmed
  BY <1>6
<1> HIDE DEF n
<1>9. QED
  BY <1>5, <1>7, <1>8 DEF n

LEMMA FailureOutcomes ==
  ASSUME NEW error
  PROVE  /\ NativeFailure(error) \in Outcomes
         /\ NativeFailure(error).status \in Partial \ {"timeout"}
BY DEF NativeFailure, Outcomes, Partial

LEMMA NewJobFields ==
  ASSUME round \in Nat
  PROVE  NewJob \in JobSet /\ ~NewJob.called /\ ~NewJob.confirmed
BY DEF NewJob, JobSet

LEMMA AbortedFields ==
  ASSUME NEW j \in JobSet
  PROVE  LET n == Aborted(j)
         IN /\ n \in JobSet /\ ~n.called /\ n.round = j.round /\ n.aborted
            /\ n.silent = j.silent /\ n.confirmed = j.confirmed
<1>1. Timeout \in Outcomes
  BY DEF Timeout, Outcomes, Partial
<1> DEFINE m == IF j.called THEN Record(j, Timeout, FALSE) ELSE j
<1>2. /\ m \in JobSet /\ ~m.called /\ m.round = j.round
      /\ m.silent = j.silent /\ m.confirmed = j.confirmed
  <2>1. CASE j.called
    <3>1. Timeout \in Outcomes /\ FALSE \in BOOLEAN
      BY <1>1
    <3>2. LET n == Record(j, Timeout, FALSE)
          IN /\ n \in JobSet /\ ~n.called /\ n.round = j.round /\ n.aborted = j.aborted
             /\ n.silent = j.silent
             /\ n.confirmed = (j.confirmed \/ (Timeout.status = "timeout" /\ FALSE))
      BY <3>1, RecordFields
    <3>3. j.confirmed \in BOOLEAN
      BY DEF JobSet
    <3>4. QED
      BY <2>1, <3>2, <3>3
  <2>2. CASE ~j.called
    BY <2>2
  <2>3. QED
    BY <2>1, <2>2
<1>3. Aborted(j) = [m EXCEPT !.aborted = TRUE]
  BY DEF Aborted
<1> HIDE DEF m
<1>4. QED
  BY <1>2, <1>3 DEF JobSet

LEMMA NewListing == [NoListing EXCEPT !.stage = "paging"] \in ListingSet
                    /\ Whole([NoListing EXCEPT !.stage = "paging"])
<1> DEFINE l == [NoListing EXCEPT !.stage = "paging"]
<1>1. /\ l.stage = "paging" /\ l.page = 0 /\ l.values = {} /\ l.refs = {} /\ l.told = {}
      /\ l.more
  BY DEF NoListing
<1>2. l \in ListingSet
  BY DEF NoListing, ListingSet
<1>3. Cardinality(l.values) = 0
  BY <1>1, FS_EmptySet
<1>4. MaxPages > 0 /\ MaxResources > 0 /\ MaxPages \in Nat /\ MaxResources \in Nat
  BY InspectionAssumption DEF InspectionAssumption
<1>5. Whole(l)
  BY <1>1, <1>3, <1>4 DEF Whole, Consistent
<1>6. QED
  BY <1>2, <1>5

\* An outcome other than a page ends an inventory that is being paged.
LEMMA ListEnds ==
  ASSUME NEW l \in ListingSet, Whole(l), NEW status \in Partial
  PROVE  [l EXCEPT !.stage = status] \in ListingSet /\ Whole([l EXCEPT !.stage = status])
BY DEF ListingSet, Whole, Partial, Consistent

\* The next item is taken only where it fits.
LEMMA TakenFits ==
  ASSUME NEW l \in ListingSet, Whole(l), NEW p \in Page, NEW n \in 0..Len(p.items),
         \A i \in 1..n : ~Refused(l, p, i)
  PROVE  /\ Taken(l, p, n) \in SUBSET Item
         /\ l.values \subseteq Taken(l, p, n)
         /\ Taken(l, p, n) \subseteq l.values \cup ToSet(p.items)
         /\ Cardinality(Taken(l, p, n)) <= MaxResources
<1>1. p.items \in Seq(Item) /\ Len(p.items) \in Nat /\ \A i \in 1..Len(p.items) : p.items[i] \in Item
  <2>1. PICK k \in 0..2 : p.items \in [1..k -> Token \X {1, 2}]
    BY DEF Page
  <2>2. QED
    BY <2>1 DEF Item
<1>2. Taken(l, p, n) \in SUBSET Item
  BY <1>1 DEF Taken, ListingSet
<1>3. l.values \subseteq Taken(l, p, n) /\ Taken(l, p, n) \subseteq l.values \cup ToSet(p.items)
  BY <1>1 DEF Taken, ToSet
<1>4. CASE n = 0
  <2>1. Taken(l, p, n) = l.values
    BY <1>4 DEF Taken
  <2>2. QED
    BY <1>2, <1>3, <2>1 DEF Whole
<1>5. CASE n # 0
  <2>1. n \in 1..Len(p.items) /\ n - 1 \in Nat
    BY <1>1, <1>5
  <2>2. ~Full(Taken(l, p, n - 1))
    BY <2>1 DEF Refused
  <2>3. Taken(l, p, n) = Taken(l, p, n - 1) \cup {p.items[n]}
    <3>1. 1..n = 1..(n - 1) \cup {n}
      BY <2>1
    <3>2. QED
      BY <3>1 DEF Taken
  <2>4. IsFiniteSet(Taken(l, p, n - 1)) /\ Cardinality(Taken(l, p, n - 1)) \in Nat
    <3>1. Taken(l, p, n - 1) \subseteq Item
      BY <1>2, <2>3
    <3>2. QED
      BY <3>1, ItemsFinite, FS_CardinalityType
  <2>5. Cardinality(Taken(l, p, n)) <= Cardinality(Taken(l, p, n - 1)) + 1
    <3>1. Cardinality(Taken(l, p, n - 1) \cup {p.items[n]})
            = IF p.items[n] \in Taken(l, p, n - 1) THEN Cardinality(Taken(l, p, n - 1))
              ELSE Cardinality(Taken(l, p, n - 1)) + 1
      BY <2>4, FS_AddElement
    <3>2. QED
      BY <2>3, <2>4, <3>1
  <2>6. Cardinality(Taken(l, p, n - 1)) < MaxResources
    BY <2>2, <2>4, InspectionAssumption DEF Full, InspectionAssumption
  <2>7. Cardinality(Taken(l, p, n)) \in Nat
    BY <1>2, ItemsFinite, FS_CardinalityType
  <2>8. QED
    BY <1>2, <1>3, <2>4, <2>5, <2>6, <2>7, InspectionAssumption DEF InspectionAssumption
<1>6. QED
  BY <1>4, <1>5

\* Items of which none was refused contradict neither one another nor what was
\* there before.
LEMMA AllConsistent ==
  ASSUME NEW l \in ListingSet, Consistent(l.values), NEW p \in Page,
         \A i \in 1..Len(p.items) : ~Refused(l, p, i)
  PROVE  /\ Taken(l, p, Len(p.items)) = l.values \cup ToSet(p.items)
         /\ Consistent(l.values \cup ToSet(p.items))
<1>1. Len(p.items) \in Nat /\ DOMAIN p.items = 1..Len(p.items)
  <2>1. PICK k \in 0..2 : p.items \in [1..k -> Token \X {1, 2}]
    BY DEF Page
  <2>2. p.items \in Seq(Token \X {1, 2})
    BY <2>1
  <2>3. QED
    BY <2>2
<1>2. Taken(l, p, Len(p.items)) = l.values \cup ToSet(p.items)
  BY <1>1 DEF Taken, ToSet
<1>3. ASSUME NEW i \in 1..Len(p.items), NEW v \in Taken(l, p, i - 1), v[1] = p.items[i][1]
      PROVE  v = p.items[i]
  BY <1>3 DEF Refused, Changes
<1>4. ASSUME NEW i \in 1..Len(p.items), NEW v \in l.values, v[1] = p.items[i][1]
      PROVE  v = p.items[i]
  BY <1>3, <1>4 DEF Taken
<1>5. ASSUME NEW i \in 1..Len(p.items), NEW j \in 1..Len(p.items), i < j,
             p.items[i][1] = p.items[j][1]
      PROVE  p.items[i] = p.items[j]
  <2>1. p.items[i] \in Taken(l, p, j - 1)
    BY <1>1, <1>5 DEF Taken
  <2>2. QED
    BY <1>3, <1>5, <2>1
<1>6. ASSUME NEW i \in 1..Len(p.items), NEW j \in 1..Len(p.items),
             p.items[i][1] = p.items[j][1]
      PROVE  p.items[i] = p.items[j]
  <2>1. i < j \/ j < i \/ i = j
    BY <1>1
  <2>2. QED
    BY <1>5, <1>6, <2>1
<1>7. ASSUME NEW v \in l.values \cup ToSet(p.items), NEW w \in l.values \cup ToSet(p.items),
             v[1] = w[1]
      PROVE  v = w
  <2>1. CASE v \in l.values /\ w \in l.values
    BY <1>7, <2>1 DEF Consistent
  <2>2. CASE v \in l.values /\ w \in ToSet(p.items)
    BY <1>1, <1>4, <1>7, <2>2 DEF ToSet
  <2>3. CASE v \in ToSet(p.items) /\ w \in l.values
    BY <1>1, <1>4, <1>7, <2>3 DEF ToSet
  <2>4. CASE v \in ToSet(p.items) /\ w \in ToSet(p.items)
    BY <1>1, <1>6, <1>7, <2>4 DEF ToSet
  <2>5. QED
    BY <2>1, <2>2, <2>3, <2>4
<1>8. QED
  BY <1>2, <1>7 DEF Consistent

\* A page leaves the inventory whole, or ends it.
LEMMA PageTurns ==
  ASSUME NEW l \in ListingSet, Whole(l), l.stage = "paging", NEW p \in Page
  PROVE  TurnPage(l, p) \in ListingSet /\ Whole(TurnPage(l, p))
<1> DEFINE refused == {n \in 1..Len(p.items) : Refused(l, p, n)}
           values == Taken(l, p, IF refused = {} THEN Len(p.items) ELSE Min(refused) - 1)
           turned == [l EXCEPT !.values = values, !.told = l.told \cup ToSet(p.items), !.page = l.page + 1]
<1>1. Len(p.items) \in Nat /\ ToSet(p.items) \subseteq Item
  <2>1. PICK k \in 0..2 : p.items \in [1..k -> Token \X {1, 2}]
    BY DEF Page
  <2>2. p.items \in Seq(Item)
    BY <2>1 DEF Item
  <2>3. QED
    BY <2>2 DEF ToSet
<1>2. refused # {} => Min(refused) \in refused /\ \A n \in refused : Min(refused) <= n
  <2>1. SUFFICES ASSUME refused # {} PROVE \E m \in refused : \A n \in refused : m <= n
    BY DEF Min
  <2>2. refused \subseteq {1, 2} /\ refused # {}
    <3>1. PICK k \in 0..2 : p.items \in [1..k -> Token \X {1, 2}]
      BY DEF Page
    <3>2. Len(p.items) = k
      BY <3>1
    <3>3. QED
      BY <2>1, <3>2
  <2> HIDE DEF refused
  <2>3. CASE 1 \in refused
    BY <2>2, <2>3
  <2>4. CASE 1 \notin refused
    <3>1. refused = {2}
      BY <2>2, <2>4
    <3>2. QED
      BY <3>1
  <2>5. QED
    BY <2>3, <2>4
<1>3. /\ values \in SUBSET Item /\ l.values \subseteq values
      /\ values \subseteq l.values \cup ToSet(p.items) /\ Cardinality(values) <= MaxResources
  <2> DEFINE n == IF refused = {} THEN Len(p.items) ELSE Min(refused) - 1
  <2>1. n \in 0..Len(p.items) /\ \A i \in 1..n : i \notin refused /\ i \in 1..Len(p.items)
    <3>1. CASE refused = {}
      BY <1>1, <3>1
    <3>2. CASE refused # {}
      <4>1. Min(refused) \in 1..Len(p.items) /\ \A i \in refused : Min(refused) <= i
        BY <1>2, <3>2
      <4> DEFINE m == Min(refused)
      <4>2. n = m - 1 /\ m \in 1..Len(p.items) /\ \A i \in refused : m <= i
        BY <3>2, <4>1
      <4> HIDE DEF m, n, refused
      <4>3. QED
        BY <1>1, <4>2
    <3>3. QED
      BY <3>1, <3>2
  <2>2. \A i \in 1..n : ~Refused(l, p, i)
    BY <2>1
  <2> HIDE DEF n, refused
  <2>3. QED
    BY <2>1, <2>2, TakenFits DEF n
<1>4. /\ turned \in ListingSet /\ turned.values = values /\ turned.told = l.told \cup ToSet(p.items)
      /\ turned.page = l.page + 1 /\ turned.page <= MaxPages
      /\ values \subseteq turned.told
  <2> HIDE DEF values
  <2>1. l.page \in Nat /\ l.page < MaxPages /\ MaxPages \in Nat /\ l.values = l.told
        /\ l.told \in SUBSET Item
    BY InspectionAssumption DEF Whole, ListingSet, InspectionAssumption
  <2> DEFINE told == l.told \cup ToSet(p.items)
  <2>2. told \in SUBSET Item /\ values \subseteq told /\ values \in SUBSET Item
    BY <1>1, <1>3, <2>1
  <2>3. l.page + 1 \in Nat /\ l.page + 1 <= MaxPages
    BY <2>1
  <2> HIDE DEF told
  <2>4. turned = [l EXCEPT !.values = values, !.told = told, !.page = l.page + 1]
    BY DEF told
  <2> HIDE DEF turned
  <2>6. /\ turned \in ListingSet /\ turned.values = values /\ turned.told = told
        /\ turned.page = l.page + 1
    BY <2>2, <2>3, <2>4 DEF ListingSet
  <2>5. QED
    BY <2>2, <2>3, <2>6 DEF told
<1>5. refused = {} => values = turned.told /\ Consistent(turned.told)
  <2>1. SUFFICES ASSUME refused = {} PROVE values = l.told \cup ToSet(p.items)
                                           /\ Consistent(l.told \cup ToSet(p.items))
    BY <1>4
  <2>2. l.values = l.told /\ Consistent(l.values)
    BY DEF Whole
  <2>3. \A i \in 1..Len(p.items) : ~Refused(l, p, i)
    BY <2>1
  <2>4. values = Taken(l, p, Len(p.items))
    BY <2>1
  <2> HIDE DEF values, refused, turned
  <2>5. QED
    BY <2>2, <2>3, <2>4, AllConsistent
<1>6. TurnPage(l, p) =
        IF refused # {} THEN [turned EXCEPT !.stage = IF Full(values) THEN "truncated" ELSE "fault"]
        ELSE IF p.next = 0 THEN [turned EXCEPT !.stage = "known", !.more = FALSE]
        ELSE IF p.next \in l.refs THEN [turned EXCEPT !.stage = "fault"]
        ELSE [turned EXCEPT !.refs = l.refs \cup {p.next},
                            !.stage = IF turned.page = MaxPages THEN "truncated" ELSE "paging"]
  BY DEF TurnPage
<1>7. p.next \in Nat /\ turned.refs = l.refs /\ l.refs \subseteq Nat /\ MaxPages \in Nat
  BY InspectionAssumption DEF Page, ListingSet, InspectionAssumption
<1> DEFINE t == TurnPage(l, p)
<1> HIDE DEF refused, values, turned, t
<1>8. CASE refused # {}
  <2>1. PICK s \in {"truncated", "fault"} : t = [turned EXCEPT !.stage = s]
    BY <1>6, <1>8 DEF t
  <2>2. QED
    BY <1>3, <1>4, <2>1 DEF ListingSet, Partial, Whole, t
<1>9. CASE refused = {} /\ p.next = 0
  <2>1. t = [turned EXCEPT !.stage = "known", !.more = FALSE]
    BY <1>6, <1>9 DEF t
  <2>2. QED
    BY <1>3, <1>4, <1>5, <1>9, <2>1 DEF ListingSet, Whole, t
<1>10. CASE refused = {} /\ p.next # 0 /\ p.next \in l.refs
  <2>1. t = [turned EXCEPT !.stage = "fault"]
    BY <1>6, <1>10 DEF t
  <2>2. QED
    BY <1>3, <1>4, <2>1 DEF ListingSet, Partial, Whole, t
<1>11. CASE refused = {} /\ p.next # 0 /\ p.next \notin l.refs
  <2>1. t = [turned EXCEPT !.refs = l.refs \cup {p.next},
                           !.stage = IF turned.page = MaxPages THEN "truncated" ELSE "paging"]
    BY <1>6, <1>11 DEF t
  <2>2. /\ t \in ListingSet /\ t.values = values /\ t.told = turned.told /\ t.page = turned.page
        /\ t.stage = IF turned.page = MaxPages THEN "truncated" ELSE "paging"
    BY <1>4, <1>7, <2>1 DEF ListingSet, Partial
  <2>3. turned.page \in Nat
    BY <1>4 DEF ListingSet
  <2>4. Whole(t)
    BY <1>3, <1>4, <1>5, <1>7, <1>11, <2>2, <2>3 DEF Whole
  <2>5. QED
    BY <2>2, <2>4 DEF t
<1>12. QED
  BY <1>8, <1>9, <1>10, <1>11

-----------------------------------------------------------------------------
\* Requests and sends.
NetworkStep ==
  \/ Probe \/ Fallback \/ Resolve \/ HungSettles
  \/ \E s \in Slot : Sent(s) \/ SendFails(s) \/ Retransmit(s) \/ WindowOver(s) \/ Expire(s) \/ Matches(s)
NetworkOK ==
  /\ requests \in [Slot -> RequestSet] /\ probing \in ProbingSet /\ hung \in Nat
  /\ hung + Cardinality(Open(requests)) <= 2 * MaxRequests - 1
NetworkOver == Open(requests) = {} /\ probing = NotProbing

LEMMA ProbingLearns ==
  ASSUME InspectionTypeOK, NEW s \in Slot, NEW failed \in BOOLEAN, Learns(s, failed)
  PROVE  probing' \in ProbingSet
<1>1. probing \in ProbingSet /\ requests[s].matches \in Nat
  BY DEF InspectionTypeOK, RequestSet
<1>2. probing.count + requests[s].matches \in Nat /\ probing.slots \ {s} \in SUBSET Slot
  BY <1>1 DEF ProbingSet
<1>3. NotProbing \in ProbingSet
  BY DEF NotProbing, ProbingSet
<1>4. QED
  BY <1>1, <1>2, <1>3 DEF Learns, ProbingSet

\* One request changes and stays open, or ends.
LEMMA RequestChanges ==
  ASSUME InspectionTypeOK, Outstanding, NEW s \in Slot, requests[s].stage # "none",
         NEW n \in RequestSet, n.stage # "none", requests' = [requests EXCEPT ![s] = n],
         UNCHANGED <<probing, hung>>
  PROVE  NetworkOK' /\ Open(requests) # {}
<1>1. requests' \in [Slot -> RequestSet] /\ Open(requests') = Open(requests)
  BY RequestStays DEF InspectionTypeOK
<1>2. s \in Open(requests)
  BY DEF Open
<1>3. QED
  BY <1>1, <1>2 DEF NetworkOK, InspectionTypeOK, Outstanding, Open

LEMMA RequestOver ==
  ASSUME InspectionTypeOK, Outstanding, NEW s \in Slot, requests[s].stage # "none",
         requests' = [requests EXCEPT ![s] = NoRequest], NEW failed \in BOOLEAN, Learns(s, failed),
         hung' \in {hung, hung + 1}
  PROVE  NetworkOK' /\ Open(requests) # {}
<1>1. /\ requests' \in [Slot -> RequestSet] /\ s \in Open(requests)
      /\ Cardinality(Open(requests')) = Cardinality(Open(requests)) - 1
  BY RequestEnds DEF InspectionTypeOK
<1>2. probing' \in ProbingSet
  BY ProbingLearns
<1>3. /\ hung \in Nat /\ Cardinality(Open(requests)) \in Nat /\ MaxRequests \in Nat
      /\ hung + Cardinality(Open(requests)) <= 2 * MaxRequests - 1
  BY OpenFinite, InspectionAssumption DEF InspectionTypeOK, Outstanding, InspectionAssumption
<1>4. hung' \in Nat /\ hung' + Cardinality(Open(requests')) <= 2 * MaxRequests - 1
  BY <1>1, <1>3
<1>5. Open(requests)' = Open(requests')
  BY DEF Open
<1>6. QED
  BY <1>1, <1>2, <1>4, <1>5 DEF NetworkOK

LEMMA NetworkSteps ==
  ASSUME InspectionTypeOK, Outstanding, Shutdown, NetworkStep
  PROVE  /\ NetworkOK' /\ round' \in Nat
         /\ UNCHANGED <<life, unconfirmed, dev, job, stuck, listing, missed>>
         /\ life # "running" => NetworkOver' /\ hung' <= hung
<1> DEFINE Goal == /\ NetworkOK' /\ round' \in Nat
                   /\ UNCHANGED <<life, unconfirmed, dev, job, stuck, listing, missed>>
                   /\ life # "running" => NetworkOver' /\ hung' <= hung
<1> SUFFICES Goal
  OBVIOUS
<1>1. /\ requests \in [Slot -> RequestSet] /\ probing \in ProbingSet /\ hung \in Nat /\ round \in Nat
      /\ hung + Cardinality(Open(requests)) <= 2 * MaxRequests - 1
      /\ life # "running" => Open(requests) = {} /\ probing = NotProbing
  BY DEF InspectionTypeOK, Outstanding, Shutdown
<1>2. \A r : Open(r) \subseteq Slot
  BY DEF Open
<1>3. CASE Probe
  <2> DEFINE first == Request(requests, "device")
             both == Request(first, "legacy")
  <2>1. /\ first \in [Slot -> RequestSet]
        /\ hung + Cardinality(Open(first)) <= 2 * MaxRequests - 1
    BY <1>1, RequestAdds
  <2>2. /\ both \in [Slot -> RequestSet]
        /\ hung + Cardinality(Open(both)) <= 2 * MaxRequests - 1
    <3> HIDE DEF first
    <3>1. QED
      BY <1>1, <2>1, RequestAdds
  <2>3. /\ life = "running" /\ round' = round + 1 /\ requests' = both
        /\ probing' = [stage |-> "typed", slots |-> Open(both) \ Open(requests), count |-> 0]
        /\ UNCHANGED <<life, unconfirmed, hung, dev, reading, missed>>
    BY <1>3 DEF Probe
  <2> HIDE DEF both
  <2>4. probing' \in ProbingSet
    BY <1>2, <2>3 DEF ProbingSet
  <2>5. Open(requests)' = Open(both)
    BY <2>3 DEF Open
  <2>6. QED
    BY <1>1, <2>2, <2>3, <2>4, <2>5 DEF NetworkOK, reading
<1>4. CASE Fallback
  <2>1. probing # NotProbing
    BY <1>4 DEF Fallback, NotProbing
  <2>2. UNCHANGED <<life, unconfirmed, round, hung, dev, reading, missed>>
    BY <1>4 DEF Fallback
  <2>3. CASE requests' = Request(requests, "untyped")
             /\ probing' = [probing EXCEPT !.stage = "untyped", !.slots = Open(requests') \ Open(requests)]
    <3>1. /\ requests' \in [Slot -> RequestSet]
          /\ hung + Cardinality(Open(requests')) <= 2 * MaxRequests - 1
      BY <1>1, <2>3, RequestAdds
    <3>2. probing' \in ProbingSet
      BY <1>1, <1>2, <2>3 DEF ProbingSet
    <3>3. Open(requests)' = Open(requests')
      BY DEF Open
    <3>4. QED
      BY <1>1, <2>1, <2>2, <3>1, <3>2, <3>3 DEF NetworkOK, reading
  <2>4. CASE probing' = NotProbing /\ UNCHANGED requests
    <3>1. NotProbing \in ProbingSet
      BY DEF NotProbing, ProbingSet
    <3>2. Open(requests)' = Open(requests)
      BY <2>4 DEF Open
    <3>3. QED
      BY <1>1, <2>1, <2>2, <2>4, <3>1, <3>2 DEF NetworkOK, reading
  <2>5. QED
    BY <1>4, <2>3, <2>4 DEF Fallback
<1>5. CASE Resolve
  <2>1. /\ requests' \in [Slot -> RequestSet]
        /\ hung + Cardinality(Open(requests')) <= 2 * MaxRequests - 1
    BY <1>1, <1>5, RequestAdds DEF Resolve
  <2>2. Open(requests)' = Open(requests')
    BY DEF Open
  <2>3. QED
    BY <1>1, <1>5, <2>1, <2>2 DEF Resolve, NetworkOK, reading
<1>6. CASE HungSettles
  <2>1. Open(requests)' = Open(requests) /\ Cardinality(Open(requests)) \in Nat /\ MaxRequests \in Nat
    BY <1>6, OpenFinite, InspectionAssumption DEF HungSettles, Open, InspectionAssumption
  <2>2. /\ hung > 0 /\ hung' = hung - 1
        /\ UNCHANGED <<life, unconfirmed, round, requests, probing, dev, reading, missed>>
    BY <1>6 DEF HungSettles
  <2>3. QED
    BY <1>1, <2>1, <2>2 DEF NetworkOK, NetworkOver, reading
<1>7. ASSUME NEW s \in Slot, NEW n \in RequestSet, requests[s].stage # "none", n.stage # "none",
             requests' = [requests EXCEPT ![s] = n],
             UNCHANGED <<life, unconfirmed, round, probing, hung, dev, reading, missed>>
      PROVE  Goal
  BY <1>1, <1>7, RequestChanges DEF reading
<1>8. ASSUME NEW s \in Slot, NEW failed \in BOOLEAN, requests[s].stage # "none",
             requests' = [requests EXCEPT ![s] = NoRequest], Learns(s, failed),
             hung' \in {hung, hung + 1},
             UNCHANGED <<life, unconfirmed, round, dev, reading, missed>>
      PROVE  Goal
  BY <1>1, <1>8, RequestOver DEF reading
<1> HIDE DEF Goal
<1>9. ASSUME NEW s \in Slot, Sent(s) PROVE Goal
  <2> DEFINE r == requests[s]
             n == [r EXCEPT !.stage = IF r.attempt + 1 < Retransmissions THEN "pause" ELSE "window",
                            !.attempt = r.attempt + 1]
  <2>1. requests' = [requests EXCEPT ![s] = n]
    BY <1>1, <1>9 DEF Sent
  <2>2. n \in RequestSet /\ n.stage # "none"
    <3> DEFINE stage == IF r.attempt + 1 < Retransmissions THEN "pause" ELSE "window"
    <3>1. r \in RequestSet /\ r.attempt + 1 \in Nat /\ stage \in {"pause", "window"}
      BY <1>1 DEF RequestSet
    <3>2. n = [r EXCEPT !.stage = stage, !.attempt = r.attempt + 1]
      OBVIOUS
    <3> HIDE DEF r, stage, n
    <3>3. QED
      BY <3>1, <3>2 DEF RequestSet
  <2>3. r.stage # "none" /\ UNCHANGED <<life, unconfirmed, round, probing, hung, dev, reading, missed>>
    BY <1>9 DEF Sent
  <2> HIDE DEF n
  <2>4. QED
    BY <1>7, <2>1, <2>2, <2>3
<1>10. ASSUME NEW s \in Slot, SendFails(s) PROVE Goal
  <2>1. /\ requests[s].stage # "none" /\ requests' = [requests EXCEPT ![s] = NoRequest]
        /\ Learns(s, TRUE) /\ hung' \in {hung, hung + 1}
        /\ UNCHANGED <<life, unconfirmed, round, dev, reading, missed>>
    BY <1>10 DEF SendFails
  <2>2. QED
    BY <1>8, <2>1
<1>11. ASSUME NEW s \in Slot, Retransmit(s) PROVE Goal
  <2> DEFINE n == [requests[s] EXCEPT !.stage = "sending"]
  <2>1. requests' = [requests EXCEPT ![s] = n]
    BY <1>1, <1>11 DEF Retransmit
  <2>2. n \in RequestSet /\ n.stage # "none"
    BY <1>1 DEF RequestSet
  <2>3. requests[s].stage # "none"
        /\ UNCHANGED <<life, unconfirmed, round, probing, hung, dev, reading, missed>>
    BY <1>11 DEF Retransmit
  <2> HIDE DEF n
  <2>4. QED
    BY <1>7, <2>1, <2>2, <2>3
<1>12. ASSUME NEW s \in Slot, WindowOver(s) PROVE Goal
  <2> DEFINE n == [requests[s] EXCEPT !.late = TRUE]
  <2>1. requests' = [requests EXCEPT ![s] = n]
    BY <1>1, <1>12 DEF WindowOver
  <2>2. requests[s].stage # "none"
        /\ UNCHANGED <<life, unconfirmed, round, probing, hung, dev, reading, missed>>
    BY <1>12 DEF WindowOver
  <2>3. n \in RequestSet /\ n.stage # "none"
    BY <1>1, <2>2 DEF RequestSet
  <2> HIDE DEF n
  <2>4. QED
    BY <1>7, <2>1, <2>2, <2>3
<1>13. ASSUME NEW s \in Slot, Expire(s) PROVE Goal
  <2>1. /\ requests' = [requests EXCEPT ![s] = NoRequest]
        /\ Learns(s, FALSE) /\ hung' \in {hung, hung + 1}
        /\ UNCHANGED <<life, unconfirmed, round, dev, reading, missed>>
    <3>1. hung' = hung + IF requests[s].stage = "sending" THEN 1 ELSE 0
      BY <1>13 DEF Expire, Ends
    <3>2. hung' \in {hung, hung + 1}
      BY <1>1, <3>1
    <3>3. QED
      BY <1>13, <3>2 DEF Expire, Ends
  <2>2. requests[s].stage # "none"
    BY <1>1, <1>13 DEF Expire, RequestSet
  <2>3. QED
    BY <1>8, <2>1, <2>2
<1>14. ASSUME NEW s \in Slot, Matches(s) PROVE Goal
  <2> DEFINE n == [requests[s] EXCEPT !.matches = 1]
  <2>1. requests' = [requests EXCEPT ![s] = n]
    BY <1>1, <1>14 DEF Matches
  <2>2. requests[s].stage # "none"
        /\ UNCHANGED <<life, unconfirmed, round, probing, hung, dev, reading, missed>>
    BY <1>14 DEF Matches
  <2>3. n \in RequestSet /\ n.stage # "none"
    BY <1>1, <2>2 DEF RequestSet
  <2> HIDE DEF n
  <2>4. QED
    BY <1>7, <2>1, <2>2, <2>3
<1>15. QED
  BY <1>3, <1>4, <1>5, <1>6, <1>9, <1>10, <1>11, <1>12, <1>13, <1>14 DEF NetworkStep

-----------------------------------------------------------------------------
\* Native reads.
ReadingStep ==
  \/ BudgetSpent \/ ReadConcurrency \/ Call \/ Answer \/ ReadDeadline \/ InspectionDeadline
  \/ StuckSettles \/ Inspect
ReadingOK ==
  /\ job \in JobSet \cup {NoJob} /\ stuck \in Nat /\ listing \in ListingSet /\ Paging
  /\ job # NoJob /\ job.confirmed => job.silent
  /\ stuck + Called <= MaxReads
ReadingOver == job # NoJob => job.aborted /\ ~job.called

LEMMA JobFields ==
  ASSUME job \in JobSet \cup {NoJob}
  PROVE  /\ job.stage = "reading" <=> job # NoJob
         /\ job # NoJob => job \in JobSet
         /\ NoJob.stage = "none" /\ NoJob \notin JobSet
BY DEF JobSet, NoJob

LEMMA ListingEnds ==
  ASSUME listing \in ListingSet, Paging, NEW status \in Partial, EndsList(status)
  PROVE  listing' \in ListingSet /\ Paging'
<1>1. listing' \in {listing, [listing EXCEPT !.stage = status]}
  BY DEF EndsList
<1>2. listing' \in ListingSet /\ Whole(listing')
  BY <1>1, ListEnds DEF Paging
<1>3. QED
  BY <1>2 DEF Paging, Whole

\* The job goes on with n, and s reads have been left behind.
LEMMA JobGoesOn ==
  ASSUME NEW n \in JobSet, NEW s \in Nat, n.confirmed => n.silent,
         s + (IF n.called THEN 1 ELSE 0) <= MaxReads,
         job' = n, stuck' = s, listing' \in ListingSet, Paging'
  PROVE  ReadingOK'
<1>1. n.stage = "reading" /\ n # NoJob
  BY DEF JobSet, NoJob
<1>2. Called' = IF n.called THEN 1 ELSE 0
  BY <1>1 DEF Called
<1>3. QED
  BY <1>1, <1>2 DEF ReadingOK

LEMMA Abandons ==
  ASSUME ReadingOK, Abandon
  PROVE  /\ ReadingOK' /\ ReadingOver'
         /\ ReadingOver => UNCHANGED stuck
<1>1. /\ job \in JobSet \cup {NoJob} /\ stuck \in Nat /\ listing \in ListingSet /\ Paging
      /\ job # NoJob /\ job.confirmed => job.silent
      /\ stuck + Called <= MaxReads /\ MaxReads \in Nat
  BY InspectionAssumption DEF ReadingOK, InspectionAssumption
<1>2. CASE job.stage = "reading"
  <2>1. job \in JobSet /\ job # NoJob
    BY <1>1, <1>2, JobFields
  <2> DEFINE n == Aborted(job)
  <2>2. /\ n \in JobSet /\ ~n.called /\ n.aborted
        /\ n.silent = job.silent /\ n.confirmed = job.confirmed
    BY <2>1, AbortedFields
  <2>3. /\ job' = n /\ stuck' = stuck + IF job.called THEN 1 ELSE 0
        /\ IF job.called THEN EndsList("timeout") ELSE UNCHANGED listing
    BY <1>2 DEF Abandon
  <2>4. listing' \in ListingSet /\ Paging'
    <3>1. CASE job.called
      <4>1. "timeout" \in Partial
        BY DEF Partial
      <4>2. QED
        BY <1>1, <2>3, <3>1, <4>1, ListingEnds
    <3>2. CASE ~job.called
      BY <1>1, <2>3, <3>2 DEF Paging, Whole
    <3>3. QED
      BY <3>1, <3>2
  <2>5. stuck' \in Nat /\ stuck' <= MaxReads
    BY <1>1, <1>2, <2>3 DEF Called
  <2> HIDE DEF n
  <2>6. ReadingOK'
    BY <1>1, <2>1, <2>2, <2>3, <2>4, <2>5, JobGoesOn
  <2>7. ReadingOver'
    BY <2>2, <2>3 DEF ReadingOver
  <2>8. ReadingOver => UNCHANGED stuck
    BY <1>1, <2>1, <2>3 DEF ReadingOver
  <2>9. QED
    BY <2>6, <2>7, <2>8
<1>3. CASE job.stage # "reading"
  <2>1. UNCHANGED reading /\ job = NoJob
    BY <1>1, <1>3, JobFields DEF Abandon
  <2>2. QED
    BY <1>1, <2>1 DEF ReadingOK, ReadingOver, Called, reading, Paging, Whole
<1>4. QED
  BY <1>2, <1>3

LEMMA ReadingSteps ==
  ASSUME InspectionTypeOK, ReadingOK, ReadingStep, life # "running" => ReadingOver
  PROVE  /\ ReadingOK'
         /\ UNCHANGED <<life, unconfirmed, round, requests, probing, hung, dev, missed>>
         /\ life # "running" => ReadingOver' /\ stuck' <= stuck
<1> DEFINE Goal == /\ ReadingOK'
                   /\ UNCHANGED <<life, unconfirmed, round, requests, probing, hung, dev, missed>>
                   /\ life # "running" => ReadingOver' /\ stuck' <= stuck
<1> SUFFICES Goal
  OBVIOUS
<1>1. /\ job \in JobSet \cup {NoJob} /\ stuck \in Nat /\ listing \in ListingSet /\ Paging
      /\ job # NoJob /\ job.confirmed => job.silent
      /\ stuck + Called <= MaxReads /\ MaxReads \in Nat
  BY InspectionAssumption DEF ReadingOK, InspectionAssumption
<1>2. ASSUME job.stage = "reading"
      PROVE  /\ job \in JobSet /\ job # NoJob /\ stuck + (IF job.called THEN 1 ELSE 0) <= MaxReads
             /\ job.confirmed => job.silent
             /\ life # "running" => job.aborted /\ ~job.called
  BY <1>1, <1>2, JobFields DEF Called, ReadingOver
<1>3. \A o \in Partial : o # "known"
  BY DEF Partial
<1>4. {"truncated", "timeout", "fault"} \subseteq Partial
  BY DEF Partial
<1>5. {Truncated, Timeout, Known, Misshapen} \subseteq Outcomes
  BY <1>4 DEF Truncated, Timeout, Known, Misshapen, Outcomes
<1>6. CASE BudgetSpent
  <2>1. job.stage = "reading" /\ ~job.called
    BY <1>6 DEF BudgetSpent, MayRead
  <2> DEFINE n == [job EXCEPT !.step = IF Current(job) = "page" THEN @ ELSE @ + 1]
  <2>2. job' = n /\ EndsList("truncated") /\ stuck' = stuck
        /\ UNCHANGED <<life, unconfirmed, round, requests, probing, hung, dev, missed>>
    BY <1>6 DEF BudgetSpent, network
  <2>3. /\ n \in JobSet /\ n.called = job.called /\ n.confirmed = job.confirmed
        /\ n.silent = job.silent /\ n.aborted = job.aborted
    BY <1>2, <2>1 DEF JobSet
  <2>4. listing' \in ListingSet /\ Paging'
    BY <1>1, <1>4, <2>2, ListingEnds
  <2> HIDE DEF n
  <2>5. ReadingOK'
    BY <1>1, <1>2, <2>1, <2>2, <2>3, <2>4, JobGoesOn
  <2>6. QED
    BY <1>1, <1>2, <2>1, <2>2, <2>3, <2>5 DEF ReadingOver
<1>7. CASE ReadConcurrency
  <2>1. job.stage = "reading" /\ ~job.called /\ ~job.aborted
    BY <1>7 DEF ReadConcurrency, MayRead
  <2> DEFINE n == Record(job, Truncated, FALSE)
  <2>2. job' = n /\ EndsList("truncated") /\ stuck' = stuck
        /\ UNCHANGED <<life, unconfirmed, round, requests, probing, hung, dev, missed>>
    BY <1>7 DEF ReadConcurrency, network
  <2>3. /\ n \in JobSet /\ ~n.called /\ n.silent = job.silent
        /\ n.confirmed = (job.confirmed \/ (Truncated.status = "timeout" /\ FALSE))
    BY <1>2, <1>5, <2>1, RecordFields
  <2>4. listing' \in ListingSet /\ Paging'
    BY <1>1, <1>4, <2>2, ListingEnds
  <2> HIDE DEF n
  <2>5. ReadingOK'
    BY <1>1, <1>2, <2>1, <2>2, <2>3, <2>4, JobGoesOn
  <2>6. QED
    BY <1>2, <2>1, <2>2, <2>5
<1>8. CASE Call
  <2>1. job.stage = "reading" /\ ~job.called /\ ~job.aborted /\ stuck < MaxReads
    BY <1>8 DEF Call, MayRead
  <2> DEFINE n == [job EXCEPT !.called = TRUE]
  <2>2. job' = n /\ listing' = listing /\ stuck' = stuck
        /\ UNCHANGED <<life, unconfirmed, round, requests, probing, hung, dev, missed>>
    BY <1>8 DEF Call, network
  <2>3. /\ n \in JobSet /\ n.called /\ n.confirmed = job.confirmed /\ n.silent = job.silent
    BY <1>2, <2>1 DEF JobSet
  <2>4. listing' \in ListingSet /\ Paging'
    BY <1>1, <2>2 DEF Paging, Whole
  <2> HIDE DEF n
  <2>5. ReadingOK'
    BY <1>1, <1>2, <2>1, <2>2, <2>3, <2>4, JobGoesOn
  <2>6. QED
    BY <1>2, <2>1, <2>2, <2>5
<1>9. CASE Answer
  <2>1. job.stage = "reading" /\ job.called /\ stuck' = stuck
        /\ UNCHANGED <<life, unconfirmed, round, requests, probing, hung, dev, missed>>
    BY <1>9 DEF Answer, network
  <2>2. job \in JobSet /\ life = "running" /\ stuck + 1 <= MaxReads
    BY <1>2, <2>1
  <2>3. ASSUME NEW o \in Outcomes, job' = Record(job, o, FALSE), listing' \in ListingSet, Paging'
        PROVE  Goal
    <3> DEFINE n == Record(job, o, FALSE)
    <3>1. /\ n \in JobSet /\ ~n.called /\ n.silent = job.silent
          /\ n.confirmed = (job.confirmed \/ (o.status = "timeout" /\ FALSE))
      BY <2>2, RecordFields
    <3>2. job' = n
      BY <2>3
    <3> HIDE DEF n
    <3>3. n.confirmed => n.silent
      <4>1. job.confirmed => job.silent
        BY <1>2, <2>1
      <4>2. job.confirmed \in BOOLEAN
        BY <2>2 DEF JobSet
      <4>3. QED
        BY <3>1, <4>1, <4>2
    <3>4. stuck + (IF n.called THEN 1 ELSE 0) <= MaxReads
      BY <1>1, <2>2, <3>1
    <3>5. ReadingOK'
      BY <1>1, <2>1, <2>3, <3>1, <3>2, <3>3, <3>4, JobGoesOn
    <3>6. QED
      BY <2>1, <2>2, <3>5
  <2>8. Known \in Outcomes /\ Misshapen \in Outcomes
    BY <1>5
  <2> HIDE DEF Goal
  <2>4. CASE /\ job' = Record(job, Known, FALSE)
             /\ IF Pages(job) THEN \E p \in Page : listing' = TurnPage(listing, p) ELSE UNCHANGED listing
    <3>1. CASE Pages(job)
      <4>1. PICK p \in Page : listing' = TurnPage(listing, p)
        BY <2>4, <3>1
      <4>2. listing.stage = "paging"
        BY <3>1 DEF Pages
      <4>3. TurnPage(listing, p) \in ListingSet /\ Whole(TurnPage(listing, p))
        BY <1>1, <4>2, PageTurns DEF Paging
      <4>4. listing' \in ListingSet /\ Paging'
        BY <4>1, <4>3 DEF Paging, Whole
      <4>5. QED
        BY <2>3, <2>4, <2>8, <4>4
    <3>2. CASE ~Pages(job)
      <4>1. listing' \in ListingSet /\ Paging'
        BY <1>1, <2>4, <3>2 DEF Paging, Whole
      <4>2. QED
        BY <2>3, <2>4, <2>8, <4>1
    <3>3. QED
      BY <3>1, <3>2
  <2>5. CASE job' = Record(job, Misshapen, FALSE) /\ EndsList("fault")
    <3>1. listing' \in ListingSet /\ Paging'
      BY <1>1, <1>4, <2>5, ListingEnds
    <3>2. QED
      BY <2>3, <2>5, <2>8, <3>1
  <2>6. ASSUME NEW error, job' = Record(job, NativeFailure(error), FALSE),
               EndsList(NativeFailure(error).status)
        PROVE  Goal
    <3>1. listing' \in ListingSet /\ Paging'
      BY <1>1, <2>6, FailureOutcomes, ListingEnds
    <3>2. QED
      BY <2>3, <2>6, <3>1, FailureOutcomes
  <2>7. QED
    <3>1. \/ /\ job' = Record(job, Known, FALSE)
             /\ IF Pages(job) THEN \E p \in Page : listing' = TurnPage(listing, p) ELSE UNCHANGED listing
          \/ job' = Record(job, Misshapen, FALSE) /\ EndsList("fault")
          \/ \E error \in Errors : /\ job' = Record(job, NativeFailure(error), FALSE)
                                   /\ EndsList(NativeFailure(error).status)
      BY <1>9 DEF Answer
    <3>2. QED
      BY <2>4, <2>5, <2>6, <3>1
<1>10. CASE ReadDeadline
  <2>1. job.stage = "reading" /\ job.called
    BY <1>10 DEF ReadDeadline
  <2> DEFINE r == Record(job, Timeout, TRUE)
             n == [r EXCEPT !.silent = TRUE]
  <2>2. job' = n /\ EndsList("timeout") /\ stuck' = stuck + 1
        /\ UNCHANGED <<life, unconfirmed, round, requests, probing, hung, dev, missed>>
    BY <1>10 DEF ReadDeadline, network
  <2>3. r \in JobSet /\ ~r.called
    BY <1>2, <1>5, <2>1, RecordFields
  <2> HIDE DEF r
  <2>4. n \in JobSet /\ ~n.called /\ n.silent
    BY <2>3 DEF JobSet
  <2>5. listing' \in ListingSet /\ Paging'
    BY <1>1, <1>4, <2>2, ListingEnds
  <2> HIDE DEF n
  <2>6. ReadingOK'
    BY <1>1, <1>2, <2>1, <2>2, <2>4, <2>5, JobGoesOn
  <2>7. QED
    BY <1>2, <2>1, <2>2, <2>6
<1>11. CASE InspectionDeadline
  <2>1. Abandon /\ job.stage = "reading" /\ ~job.aborted
        /\ UNCHANGED <<life, unconfirmed, round, requests, probing, hung, dev, missed>>
    BY <1>11 DEF InspectionDeadline, network
  <2>2. QED
    BY <1>2, <2>1, Abandons
<1>12. CASE StuckSettles
  <2>1. /\ stuck > 0 /\ stuck' = stuck - 1
        /\ UNCHANGED <<life, unconfirmed, round, requests, probing, hung, dev, missed, job, listing>>
    BY <1>12 DEF StuckSettles, network
  <2>2. Called' = Called /\ Called \in {0, 1}
    BY <2>1 DEF Called
  <2>3. Paging' /\ (ReadingOver => ReadingOver')
    BY <1>1, <2>1 DEF Paging, Whole, ReadingOver
  <2>4. QED
    BY <1>1, <2>1, <2>2, <2>3 DEF ReadingOK
<1>13. CASE Inspect
  <2>1. /\ life = "running" /\ job = NoJob /\ job' = NewJob /\ stuck' = stuck
        /\ listing' = [NoListing EXCEPT !.stage = "paging"]
        /\ UNCHANGED <<life, unconfirmed, round, requests, probing, hung, dev, missed>>
    BY <1>13 DEF Inspect, Starts, network
  <2>2. NewJob \in JobSet /\ ~NewJob.called /\ ~NewJob.confirmed
    BY NewJobFields DEF InspectionTypeOK
  <2>3. listing' \in ListingSet /\ Paging'
    BY <2>1, NewListing DEF Paging, Whole
  <2>4. stuck <= MaxReads
    BY <1>1 DEF Called
  <2>5. ReadingOK'
    BY <1>1, <2>1, <2>2, <2>3, <2>4, JobGoesOn
  <2>6. QED
    BY <2>1, <2>5
<1> HIDE DEF Goal
<1>14. QED
  BY <1>6, <1>7, <1>8, <1>9, <1>10, <1>11, <1>12, <1>13 DEF ReadingStep

-----------------------------------------------------------------------------
\* Announcements, liveness rounds and the end of an inspection.
DeviceStep == Bye \/ Hello \/ Overdue \/ GraceOver \/ Reconcile \/ Complete
Counted(d, m) == m \subseteq 0..d.last /\ d.failed <= Cardinality(m)

LEMMA RoundsFinite ==
  ASSUME NEW n \in Nat, NEW m, m \subseteq 0..n
  PROVE  IsFiniteSet(m) /\ Cardinality(m) \in Nat /\ m \subseteq Nat
<1>1. 0 \in Int /\ n \in Int
  OBVIOUS
<1>2. IsFiniteSet(0..n)
  BY <1>1, FS_Interval
<1>3. IsFiniteSet(m)
  BY <1>2, FS_Subset
<1>4. QED
  BY <1>3, FS_CardinalityType

LEMMA ReconciledFields ==
  ASSUME NEW d \in DeviceSet, NEW e \in Reconciled(d)
  PROVE  /\ e \in DeviceSet /\ e.failed = d.failed /\ e.last = d.last
         /\ e.state = "departed" /\ d.state # "departed" => e.suspect = "over" /\ d.failed >= 2
<1>1. PICK since \in {"recent", "over"} :
        e = Retired(IF d.overdue /\ d.state \notin {"suspect", "departed"}
                    THEN [d EXCEPT !.state = "stale", !.suspect = IF @ = "no" THEN since ELSE @] ELSE d)
  BY DEF Reconciled
<1> DEFINE s == IF d.overdue /\ d.state \notin {"suspect", "departed"}
                THEN [d EXCEPT !.state = "stale", !.suspect = IF @ = "no" THEN since ELSE @] ELSE d
<1>2. /\ s \in DeviceSet /\ s.failed = d.failed /\ s.last = d.last
      /\ s.state = "departed" => d.state = "departed"
  BY DEF DeviceSet
<1>3. e = Retired(s)
  BY <1>1
<1> HIDE DEF s
<1>4. QED
  BY <1>2, <1>3 DEF Retired, DeviceSet

\* What is committed of an inspection counts its round at most once, and only
\* when it left a read unanswered.
Missed(j) == IF j.responsive THEN {} ELSE IF j.silent THEN missed \cup {j.round} ELSE missed
LEMMA CommitCounts ==
  ASSUME NEW d \in DeviceSet, NEW j \in JobSet, j.confirmed => j.silent, Counted(d, missed)
  PROVE  LET c == Liveness(CommitInspection(d, j), j)
         IN /\ c \in DeviceSet /\ Counted(c, Missed(j)) /\ Missed(j) \subseteq Nat
            /\ c.state = "departed" => d.state = "departed"
<1> DEFINE v == CommitInspection(d, j)
           c == Liveness(v, j)
<1>1. /\ v \in DeviceSet /\ v.last = d.last
      /\ v.failed = IF j.responsive THEN 0 ELSE d.failed
      /\ v.state = "departed" => d.state = "departed"
  <2> DEFINE w == IF {"GetEndpointReference", "GetDeviceInformation"} \subseteq j.known
                  THEN [d EXCEPT !.state = "verified", !.suspect = "no", !.verified = TRUE,
                                 !.overdue = FALSE]
                  ELSE d
  <2>1. /\ w \in DeviceSet /\ w.last = d.last /\ w.failed = d.failed
        /\ w.state = "departed" => d.state = "departed"
    BY DEF DeviceSet
  <2>2. v = IF j.responsive THEN [w EXCEPT !.failed = 0] ELSE w
    BY DEF CommitInspection
  <2> HIDE DEF w, v
  <2>3. QED
    BY <2>1, <2>2 DEF DeviceSet
<1>2. /\ d.last \in Nat /\ j.round \in Nat /\ d.failed \in Nat
      /\ missed \subseteq 0..d.last /\ d.failed <= Cardinality(missed)
  BY DEF DeviceSet, JobSet, Counted
<1> HIDE DEF v
<1>3. IsFiniteSet(missed) /\ Cardinality(missed) \in Nat
  BY <1>2, RoundsFinite
<1>4. Cardinality({}) = 0
  BY FS_EmptySet
<1>5. /\ IsFiniteSet(missed \cup {j.round})
      /\ Cardinality(missed \cup {j.round})
           = IF j.round \in missed THEN Cardinality(missed) ELSE Cardinality(missed) + 1
  BY <1>3, FS_AddElement
<1>6. CASE j.round <= d.last
  <2>1. c = v
    BY <1>1, <1>6 DEF Liveness
  <2>2. Missed(j) \subseteq 0..d.last
    <3>1. j.round \in 0..d.last
      BY <1>2, <1>6
    <3>2. Missed(j) \subseteq missed \cup {j.round}
      BY DEF Missed
    <3>3. QED
      BY <1>2, <3>1, <3>2
  <2>3. v.failed <= Cardinality(Missed(j))
    BY <1>1, <1>2, <1>3, <1>4, <1>5 DEF Missed
  <2>4. Missed(j) \subseteq Nat
    BY <1>2, <2>2, RoundsFinite
  <2>5. Counted(v, Missed(j))
    BY <1>1, <2>2, <2>3 DEF Counted
  <2>6. QED
    BY <1>1, <2>1, <2>4, <2>5 DEF v
<1>7. CASE j.round > d.last
  <2> DEFINE f == IF j.responsive THEN 0 ELSE IF j.confirmed /\ v.failed < 2 THEN v.failed + 1 ELSE v.failed
  <2>1. c = [v EXCEPT !.last = j.round, !.failed = f]
    BY <1>1, <1>2, <1>7 DEF Liveness
  <2>2. f \in Nat /\ f <= (IF j.responsive THEN 0 ELSE IF j.confirmed THEN d.failed + 1 ELSE d.failed)
    BY <1>1, <1>2
  <2> HIDE DEF f
  <2>3. c \in DeviceSet /\ c.last = j.round /\ c.failed = f /\ (c.state = "departed" => d.state = "departed")
    BY <1>1, <1>2, <2>1, <2>2 DEF DeviceSet
  <2>4. Missed(j) \subseteq 0..j.round /\ Missed(j) \subseteq Nat
    <3>1. j.round \in 0..j.round /\ 0..d.last \subseteq 0..j.round
      BY <1>2, <1>7
    <3>2. Missed(j) \subseteq missed \cup {j.round}
      BY DEF Missed
    <3>3. Missed(j) \subseteq 0..j.round
      BY <1>2, <3>1, <3>2
    <3>4. QED
      BY <1>2, <3>3, RoundsFinite
  <2>5. j.round \notin missed
    BY <1>2, <1>7
  <2>6. f <= Cardinality(Missed(j))
    BY <1>2, <1>3, <1>4, <1>5, <2>2, <2>5 DEF Missed
  <2> HIDE DEF c
  <2>7. Counted(c, Missed(j))
    <3>1. Missed(j) \subseteq 0..c.last
      BY <2>3, <2>4
    <3>2. c.failed <= Cardinality(Missed(j))
      BY <2>3, <2>6
    <3>3. QED
      BY <3>1, <3>2 DEF Counted
  <2>8. QED
    BY <2>3, <2>4, <2>7 DEF c, v
<1>8. QED
  BY <1>2, <1>6, <1>7 DEF v

Retirement == dev'.state = "departed" /\ dev.state # "departed" =>
                Cardinality(missed') >= 2 /\ dev'.suspect = "over"
LEMMA DeviceSteps ==
  ASSUME InspectionTypeOK, Rounds, ReadingOK, DeviceStep, life # "running" => ReadingOver
  PROVE  /\ dev' \in DeviceSet /\ round' \in Nat /\ missed' \subseteq Nat /\ Counted(dev', missed')
         /\ ReadingOK' /\ Retirement
         /\ UNCHANGED <<life, unconfirmed, requests, probing, hung, stuck>>
         /\ life # "running" => ReadingOver'
<1> DEFINE Goal == /\ dev' \in DeviceSet /\ round' \in Nat /\ missed' \subseteq Nat
                   /\ Counted(dev', missed') /\ ReadingOK' /\ Retirement
                   /\ UNCHANGED <<life, unconfirmed, requests, probing, hung, stuck>>
                   /\ life # "running" => ReadingOver'
<1> SUFFICES Goal
  OBVIOUS
<1>1. /\ job \in JobSet \cup {NoJob} /\ stuck \in Nat /\ listing \in ListingSet /\ Paging
      /\ job # NoJob /\ job.confirmed => job.silent
      /\ stuck + Called <= MaxReads /\ MaxReads \in Nat
  BY InspectionAssumption DEF ReadingOK, InspectionAssumption
<1>2. dev \in DeviceSet /\ missed \subseteq Nat /\ round \in Nat /\ Counted(dev, missed)
  BY DEF InspectionTypeOK, Rounds, Counted
<1>3. dev.failed <= Cardinality(missed) /\ dev.failed \in Nat /\ Cardinality(missed) \in Nat
  <2>1. dev.last \in Nat /\ dev.failed \in Nat /\ missed \subseteq 0..dev.last
    BY <1>2 DEF DeviceSet, Counted
  <2>2. Cardinality(missed) \in Nat
    BY <2>1, RoundsFinite
  <2>3. QED
    BY <1>2, <2>1, <2>2 DEF Counted
<1>4. ASSUME UNCHANGED <<job, stuck, listing>> PROVE ReadingOK' /\ (ReadingOver => ReadingOver')
  BY <1>1, <1>4 DEF ReadingOK, ReadingOver, Called, Paging, Whole
\* A running inspection is superseded, or not.
<1>5. ASSUME job' = IF job = NoJob THEN job ELSE [job EXCEPT !.fenced = TRUE],
             UNCHANGED <<stuck, listing>>
      PROVE  ReadingOK'
  <2>1. CASE job = NoJob
    BY <1>4, <1>5, <2>1
  <2>2. CASE job # NoJob
    <3> DEFINE n == [job EXCEPT !.fenced = TRUE]
    <3>1. job \in JobSet
      BY <1>1, <2>2
    <3>2. n \in JobSet /\ n.confirmed = job.confirmed /\ n.silent = job.silent /\ n.called = job.called
      BY <3>1 DEF JobSet
    <3>3. stuck + (IF job.called THEN 1 ELSE 0) <= MaxReads
      BY <1>1, <2>2, JobFields DEF Called
    <3>4. listing' \in ListingSet /\ Paging'
      BY <1>1, <1>5 DEF Paging, Whole
    <3>5. job' = n
      BY <1>5, <2>2
    <3> HIDE DEF n
    <3>6. QED
      BY <1>1, <1>5, <2>2, <3>2, <3>3, <3>4, <3>5, JobGoesOn
  <2>3. QED
    BY <2>1, <2>2
<1>6. ASSUME NEW d \in DeviceSet, Announced(d), d.failed = dev.failed, d.last = dev.last,
             d.state = "departed" => dev.state = "departed"
      PROVE  Goal
  <2>1. /\ life = "running" /\ dev' = d /\ missed' = missed /\ round' = round
        /\ job' = IF job = NoJob THEN job ELSE [job EXCEPT !.fenced = TRUE]
        /\ UNCHANGED <<life, unconfirmed, requests, probing, hung, stuck, listing>>
    BY <1>1, <1>6, JobFields DEF Announced, network
  <2>2. ReadingOK'
    BY <1>5, <2>1
  <2>3. QED
    BY <1>2, <1>6, <2>1, <2>2 DEF Counted, Retirement
<1>7. CASE Bye
  <2> DEFINE d == [dev EXCEPT !.state = "suspect", !.suspect = IF @ = "no" THEN "recent" ELSE @]
  <2>1. d \in DeviceSet /\ d.failed = dev.failed /\ d.last = dev.last /\ d.state # "departed"
    BY <1>2 DEF DeviceSet
  <2>2. Announced(d)
    BY <1>7 DEF Bye
  <2> HIDE DEF d, Goal
  <2>3. QED
    BY <1>6, <2>1, <2>2
<1>8. CASE Hello
  <2> DEFINE d == [dev EXCEPT !.state = IF @ \in {"departed", "verified"} THEN "candidate" ELSE @,
                              !.overdue = IF dev.verified THEN @ ELSE FALSE]
  <2>1. d \in DeviceSet /\ d.failed = dev.failed /\ d.last = dev.last /\ d.state # "departed"
    BY <1>2 DEF DeviceSet
  <2>2. Announced(d)
    BY <1>8 DEF Hello
  <2> HIDE DEF d, Goal
  <2>3. QED
    BY <1>6, <2>1, <2>2
<1>9. ASSUME NEW d \in DeviceSet, dev' = d, d.failed = dev.failed, d.last = dev.last,
             d.state = dev.state,
             UNCHANGED <<life, unconfirmed, round, network, reading, scenario, missed>>
      PROVE  Goal
  BY <1>2, <1>4, <1>9 DEF Counted, Retirement, network, reading
<1>10. CASE Overdue
  <2> DEFINE d == [dev EXCEPT !.overdue = TRUE]
  <2>1. d \in DeviceSet /\ d.failed = dev.failed /\ d.last = dev.last /\ d.state = dev.state
    BY <1>2 DEF DeviceSet
  <2>2. dev' = d /\ UNCHANGED <<life, unconfirmed, round, network, reading, scenario, missed>>
    BY <1>10 DEF Overdue
  <2> HIDE DEF d, Goal
  <2>3. QED
    BY <1>9, <2>1, <2>2
<1>11. CASE GraceOver
  <2> DEFINE d == [dev EXCEPT !.suspect = "over"]
  <2>1. d \in DeviceSet /\ d.failed = dev.failed /\ d.last = dev.last /\ d.state = dev.state
    BY <1>2 DEF DeviceSet
  <2>2. dev' = d /\ UNCHANGED <<life, unconfirmed, round, network, reading, scenario, missed>>
    BY <1>11 DEF GraceOver
  <2> HIDE DEF d, Goal
  <2>3. QED
    BY <1>9, <2>1, <2>2
<1>12. CASE Reconcile
  <2>1. /\ life = "running" /\ round' = round + 1 /\ dev' \in Reconciled(dev) /\ missed' = missed
        /\ UNCHANGED <<life, unconfirmed, requests, probing, hung, stuck>>
    BY <1>12 DEF Reconcile, network
  <2>2. /\ dev' \in DeviceSet /\ dev'.failed = dev.failed /\ dev'.last = dev.last
        /\ dev'.state = "departed" /\ dev.state # "departed" => dev'.suspect = "over" /\ dev.failed >= 2
    BY <1>2, <2>1, ReconciledFields
  <2>3. Counted(dev', missed') /\ Retirement
    BY <1>2, <1>3, <2>1, <2>2 DEF Counted, Retirement
  <2>4. ReadingOK'
    <3>1. CASE job = NoJob /\ job' = [NewJob EXCEPT !.round = round']
                           /\ listing' = [NoListing EXCEPT !.stage = "paging"]
      <4> DEFINE n == [NewJob EXCEPT !.round = round']
      <4>1. NewJob \in JobSet /\ ~NewJob.called /\ ~NewJob.confirmed
        BY <1>2, NewJobFields
      <4>2. n \in JobSet /\ ~n.called /\ ~n.confirmed
        BY <1>2, <2>1, <4>1 DEF JobSet
      <4>3. stuck <= MaxReads
        BY <1>1 DEF Called
      <4>4. listing' \in ListingSet /\ Paging'
        BY <3>1, NewListing DEF Paging, Whole
      <4>5. job' = n
        BY <3>1
      <4> HIDE DEF n
      <4>6. QED
        BY <1>1, <2>1, <4>2, <4>3, <4>4, <4>5, JobGoesOn
    <3>2. CASE Starts(FALSE)
      <4>1. listing' = listing
            /\ job' \in {job, IF job = NoJob THEN job ELSE [job EXCEPT !.fenced = TRUE]}
        BY <1>1, <3>2, JobFields DEF Starts
      <4>2. QED
        BY <1>4, <1>5, <2>1, <4>1
    <3>3. QED
      BY <1>12, <3>1, <3>2 DEF Reconcile
  <2>5. round' \in Nat
    BY <1>2, <2>1
  <2>6. QED
    BY <1>2, <2>1, <2>2, <2>3, <2>4, <2>5
<1>13. CASE Complete
  <2>1. job \in JobSet /\ job # NoJob /\ job' = NoJob
        /\ UNCHANGED <<life, unconfirmed, round, requests, probing, hung, stuck, listing>>
    BY <1>1, <1>13, JobFields DEF Complete, network
  <2>2. ReadingOK' /\ ReadingOver'
    <3>1. Called' = 0 /\ Called \in {0, 1}
      BY <2>1, JobFields DEF Called, NoJob
    <3>2. QED
      BY <1>1, <2>1, <3>1 DEF ReadingOK, ReadingOver, Paging, Whole
  <2>3. \/ /\ dev' \in Reconciled(Liveness(CommitInspection(dev, job), job)) /\ missed' = Missed(job)
        \/ dev' \in Reconciled(dev) /\ missed' = missed
        \/ dev' = dev /\ missed' = missed
    BY <1>13 DEF Complete, Missed
  <2>4. ASSUME NEW c \in DeviceSet, NEW m, m \subseteq Nat, Counted(c, m),
               c.state = "departed" => dev.state = "departed", dev' \in Reconciled(c), missed' = m
        PROVE  dev' \in DeviceSet /\ missed' \subseteq Nat /\ Counted(dev', missed') /\ Retirement
    <3>1. /\ dev' \in DeviceSet /\ dev'.failed = c.failed /\ dev'.last = c.last
          /\ dev'.state = "departed" /\ c.state # "departed" => dev'.suspect = "over" /\ c.failed >= 2
      BY <2>4, ReconciledFields
    <3>2. c.last \in Nat /\ c.failed \in Nat /\ m \subseteq 0..c.last /\ c.failed <= Cardinality(m)
      BY <2>4 DEF DeviceSet, Counted
    <3>3. Cardinality(m) \in Nat
      BY <3>2, RoundsFinite
    <3>4. QED
      BY <2>4, <3>1, <3>2, <3>3 DEF Counted, Retirement
  <2>5. dev' \in DeviceSet /\ missed' \subseteq Nat /\ Counted(dev', missed') /\ Retirement
    <3>1. CASE dev' \in Reconciled(Liveness(CommitInspection(dev, job), job)) /\ missed' = Missed(job)
      <4> DEFINE c == Liveness(CommitInspection(dev, job), job)
      <4>1. /\ c \in DeviceSet /\ Counted(c, Missed(job)) /\ Missed(job) \subseteq Nat
            /\ c.state = "departed" => dev.state = "departed"
        BY <1>1, <1>2, <2>1, CommitCounts
      <4>2. dev' \in Reconciled(c)
        BY <3>1
      <4> HIDE DEF c
      <4>3. QED
        BY <2>4, <3>1, <4>1, <4>2
    <3>2. CASE dev' \in Reconciled(dev) /\ missed' = missed
      BY <1>2, <2>4, <3>2
    <3>3. CASE dev' = dev /\ missed' = missed
      BY <1>2, <3>3 DEF Retirement
    <3>4. QED
      BY <2>3, <3>1, <3>2, <3>3
  <2>6. QED
    BY <1>2, <2>1, <2>2, <2>5
<1> HIDE DEF Goal
<1>14. QED
  BY <1>7, <1>8, <1>10, <1>11, <1>12, <1>13 DEF DeviceStep

-----------------------------------------------------------------------------
\* The shutdown: what is under way is over at once, and what may be left is told.
EndStep == Close \/ InspectorClosed \/ InspectorDeadline \/ Closed
LEMMA EndSteps ==
  ASSUME InspectionTypeOK, Outstanding, Shutdown, NetworkOK, ReadingOK, EndStep
  PROVE  /\ life' \in {"running", "closing", "waiting", "closed"}
         /\ unconfirmed' \subseteq {"reads", "sends"}
         /\ NetworkOK' /\ ReadingOK' /\ Shutdown' /\ UNCHANGED <<round, dev, missed>>
<1> DEFINE Goal == /\ life' \in {"running", "closing", "waiting", "closed"}
                   /\ unconfirmed' \subseteq {"reads", "sends"}
                   /\ NetworkOK' /\ ReadingOK' /\ Shutdown' /\ UNCHANGED <<round, dev, missed>>
<1> SUFFICES Goal
  OBVIOUS
<1>1. unconfirmed \subseteq {"reads", "sends"} /\ hung \in Nat /\ stuck \in Nat
  BY DEF InspectionTypeOK
<1>2. ASSUME UNCHANGED <<network, reading>>
      PROVE  /\ NetworkOK' /\ ReadingOK' /\ hung' = hung /\ stuck' = stuck
             /\ NetworkOver => NetworkOver'
             /\ ReadingOver => ReadingOver'
  BY <1>2 DEF network, reading, NetworkOK, ReadingOK, NetworkOver, ReadingOver, Called, Paging, Whole, Open
<1>3. CASE Close
  <2>1. /\ life = "running" /\ life' = "closing" /\ hung' = Sending(requests)
        /\ requests' = [s \in Slot |-> NoRequest] /\ probing' = NotProbing /\ Abandon
        /\ UNCHANGED <<unconfirmed, round, dev, missed>>
    BY <1>3 DEF Close
  <2>2. ReadingOK' /\ ReadingOver'
    BY <2>1, Abandons
  <2>3. requests' \in [Slot -> RequestSet] /\ Open(requests') = {} /\ Cardinality(Open(requests')) = 0
    BY <2>1, AllEnd
  <2>4. hung' \in Nat /\ hung' <= 2 * MaxRequests - 1
    <3>1. Cardinality(Open(requests)) \in Nat /\ Sending(requests) \in Nat
          /\ Sending(requests) <= hung + Cardinality(Open(requests))
      BY <1>1, OpenFinite, SendingOpen
    <3>2. hung + Cardinality(Open(requests)) <= 2 * MaxRequests - 1 /\ MaxRequests \in Nat
      BY InspectionAssumption DEF Outstanding, InspectionAssumption
    <3>3. QED
      BY <1>1, <2>1, <3>1, <3>2
  <2>5. NotProbing \in ProbingSet
    BY DEF NotProbing, ProbingSet
  <2>6. NetworkOK'
    <3>1. hung' + Cardinality(Open(requests')) <= 2 * MaxRequests - 1
      BY <2>3, <2>4
    <3>2. Open(requests)' = Open(requests')
      BY DEF Open
    <3>3. QED
      BY <2>1, <2>3, <2>4, <2>5, <3>1, <3>2 DEF NetworkOK
  <2>7. Shutdown'
    <3>1. Open(requests)' = {}
      BY <2>3 DEF Open
    <3>2. QED
      BY <2>1, <2>2, <3>1 DEF Shutdown, ReadingOver
  <2>8. QED
    BY <1>1, <2>1, <2>2, <2>6, <2>7
<1>4. ASSUME life # "running" PROVE NetworkOver /\ ReadingOver
  BY <1>4 DEF Shutdown, NetworkOver, ReadingOver
<1>5. CASE InspectorClosed
  <2>1. /\ life = "closing" /\ stuck = 0 /\ life' = "waiting" /\ unconfirmed' = unconfirmed
        /\ UNCHANGED <<network, reading>> /\ UNCHANGED <<round, dev, missed>>
    BY <1>5 DEF InspectorClosed
  <2>2. Shutdown'
    BY <1>2, <1>4, <2>1 DEF Shutdown, NetworkOver, ReadingOver
  <2>3. QED
    BY <1>1, <1>2, <2>1, <2>2
<1>6. CASE InspectorDeadline
  <2>1. /\ life = "closing" /\ life' = "waiting" /\ unconfirmed' = unconfirmed \cup {"reads"}
        /\ UNCHANGED <<network, reading>> /\ UNCHANGED <<round, dev, missed>>
    BY <1>6 DEF InspectorDeadline
  <2>2. Shutdown'
    BY <1>2, <1>4, <2>1 DEF Shutdown, NetworkOver, ReadingOver
  <2>3. QED
    BY <1>1, <1>2, <2>1, <2>2
<1>7. CASE Closed
  <2>1. /\ life = "waiting" /\ life' = "closed"
        /\ unconfirmed' = unconfirmed \cup (IF hung > 0 THEN {"sends"} ELSE {})
        /\ UNCHANGED <<network, reading>> /\ UNCHANGED <<round, dev, missed>>
    BY <1>7 DEF Closed
  <2>2. Shutdown'
    <3>1. "sends" \notin unconfirmed' => hung' = 0
      BY <1>1, <1>2, <2>1
    <3>2. "reads" \notin unconfirmed' => stuck' = 0
      BY <1>2, <2>1 DEF Shutdown
    <3>3. QED
      BY <1>2, <1>4, <2>1, <3>1, <3>2 DEF Shutdown, NetworkOver, ReadingOver
  <2>3. QED
    BY <1>1, <1>2, <2>1, <2>2
<1> HIDE DEF Goal
<1>8. QED
  BY <1>3, <1>5, <1>6, <1>7 DEF EndStep

-----------------------------------------------------------------------------
LEMMA InspectionInit == InspectInit => InspectionInv
<1> SUFFICES ASSUME InspectInit PROVE InspectionInv
  OBVIOUS
<1>1. InspectionTypeOK
  <2>1. [s \in Slot |-> NoRequest] \in [Slot -> RequestSet] /\ NotProbing \in ProbingSet
    BY AllEnd DEF NotProbing, ProbingSet
  <2>2. dev \in DeviceSet
    BY DEF InspectInit, DeviceSet
  <2>3. NoListing \in ListingSet
    BY DEF NoListing, ListingSet
  <2>4. QED
    BY <2>1, <2>2, <2>3 DEF InspectInit, InspectionTypeOK
<1>2. Rounds
  <2>1. Cardinality({}) = 0
    BY FS_EmptySet
  <2>2. QED
    BY <2>1 DEF InspectInit, Rounds
<1>3. Outstanding
  <2>1. Cardinality(Open(requests)) = 0
    BY AllEnd DEF InspectInit
  <2>2. hung = 0 /\ stuck = 0 /\ Called = 0
    BY DEF InspectInit, Called, NoJob
  <2>3. MaxRequests \in Nat \ {0} /\ MaxReads \in Nat
    BY InspectionAssumption DEF InspectionAssumption
  <2>4. QED
    BY <2>1, <2>2, <2>3 DEF Outstanding
<1>4. Shutdown
  BY DEF InspectInit, Shutdown
<1>5. Paging
  <2>1. Cardinality({}) = 0
    BY FS_EmptySet
  <2>2. MaxPages \in Nat /\ MaxResources \in Nat
    BY InspectionAssumption DEF InspectionAssumption
  <2>3. QED
    BY <2>1, <2>2 DEF InspectInit, NoListing, Paging, Whole
<1>6. QED
  BY <1>1, <1>2, <1>3, <1>4, <1>5 DEF InspectionInv

LEMMA InspectionNext ==
  ASSUME InspectionInv, [InspectNext]_inspectVars
  PROVE  InspectionInv' /\ (dev' # dev => Retirement)
<1> DEFINE Goal == InspectionInv' /\ (dev' # dev => Retirement)
<1> SUFFICES Goal
  OBVIOUS
<1>1. InspectionTypeOK /\ Rounds /\ Outstanding /\ Shutdown /\ Paging
  BY DEF InspectionInv
<1>2. NetworkOK /\ ReadingOK
  BY <1>1 DEF InspectionTypeOK, Outstanding, Rounds, NetworkOK, ReadingOK
<1>3. life # "running" => NetworkOver /\ ReadingOver
  BY <1>1 DEF Shutdown, NetworkOver, ReadingOver
<1>4. /\ life \in {"running", "closing", "waiting", "closed"} /\ unconfirmed \subseteq {"reads", "sends"}
      /\ round \in Nat /\ dev \in DeviceSet /\ missed \subseteq Nat /\ Counted(dev, missed)
      /\ hung \in Nat /\ stuck \in Nat
  BY <1>1 DEF InspectionTypeOK, Rounds, Counted
\* The parts make up the invariant.
<1>5. ASSUME life' \in {"running", "closing", "waiting", "closed"},
             unconfirmed' \subseteq {"reads", "sends"}, round' \in Nat, dev' \in DeviceSet,
             missed' \subseteq Nat, Counted(dev', missed'), NetworkOK', ReadingOK', Shutdown'
      PROVE  InspectionInv'
  BY <1>5 DEF InspectionInv, InspectionTypeOK, Rounds, Outstanding, Counted, NetworkOK, ReadingOK
\* Outside the shutdown's own steps nothing begins and nothing is left behind anew.
<1>6. ASSUME UNCHANGED <<life, unconfirmed>>, hung' \in Nat, stuck' \in Nat,
             life # "running" => NetworkOver' /\ ReadingOver' /\ hung' <= hung /\ stuck' <= stuck
      PROVE  Shutdown'
  <2>1. CASE life = "running"
    BY <1>6, <2>1 DEF Shutdown
  <2>2. CASE life # "running"
    <3>1. /\ "reads" \notin unconfirmed' /\ life' \in {"waiting", "closed"} => stuck' = 0
          /\ "sends" \notin unconfirmed' /\ life' = "closed" => hung' = 0
      BY <1>1, <1>4, <1>6, <2>2 DEF Shutdown
    <3>2. QED
      BY <1>6, <2>2, <3>1 DEF Shutdown, NetworkOver, ReadingOver
  <2>3. QED
    BY <2>1, <2>2
<1>7. CASE NetworkStep
  <2>1. /\ NetworkOK' /\ round' \in Nat
        /\ UNCHANGED <<life, unconfirmed, dev, job, stuck, listing, missed>>
        /\ life # "running" => NetworkOver' /\ hung' <= hung
    BY <1>1, <1>7, NetworkSteps
  <2>2. ReadingOK' /\ (ReadingOver => ReadingOver')
    BY <1>2, <2>1 DEF ReadingOK, ReadingOver, Called, Paging, Whole
  <2>3. hung' \in Nat
    BY <2>1 DEF NetworkOK
  <2>4. Shutdown'
    BY <1>3, <1>4, <1>6, <2>1, <2>2, <2>3
  <2>5. QED
    BY <1>4, <1>5, <2>1, <2>2, <2>4
<1>8. ASSUME UNCHANGED <<requests, probing, hung>> PROVE NetworkOK' /\ (NetworkOver => NetworkOver')
  BY <1>2, <1>8 DEF NetworkOK, NetworkOver, Open
<1>9. CASE ReadingStep
  <2>1. /\ ReadingOK'
        /\ UNCHANGED <<life, unconfirmed, round, requests, probing, hung, dev, missed>>
        /\ life # "running" => ReadingOver' /\ stuck' <= stuck
    BY <1>1, <1>2, <1>3, <1>9, ReadingSteps
  <2>2. stuck' \in Nat
    BY <2>1 DEF ReadingOK
  <2>3. Shutdown'
    BY <1>3, <1>4, <1>6, <1>8, <2>1, <2>2
  <2>4. QED
    BY <1>4, <1>5, <1>8, <2>1, <2>3
<1>10. CASE DeviceStep
  <2>1. /\ dev' \in DeviceSet /\ round' \in Nat /\ missed' \subseteq Nat /\ Counted(dev', missed')
        /\ ReadingOK' /\ Retirement
        /\ UNCHANGED <<life, unconfirmed, requests, probing, hung, stuck>>
        /\ life # "running" => ReadingOver'
    BY <1>1, <1>2, <1>3, <1>10, DeviceSteps
  <2>2. Shutdown'
    BY <1>3, <1>4, <1>6, <1>8, <2>1
  <2>3. QED
    BY <1>4, <1>5, <1>8, <2>1, <2>2
<1>11. CASE EndStep
  <2>1. /\ life' \in {"running", "closing", "waiting", "closed"}
        /\ unconfirmed' \subseteq {"reads", "sends"}
        /\ NetworkOK' /\ ReadingOK' /\ Shutdown' /\ UNCHANGED <<round, dev, missed>>
    BY <1>1, <1>2, <1>11, EndSteps
  <2>2. QED
    BY <1>4, <1>5, <2>1
<1>12. CASE UNCHANGED inspectVars
  <2>1. UNCHANGED <<life, unconfirmed, round, requests, probing, hung, dev, job, stuck, listing, missed>>
    BY <1>12 DEF inspectVars, network, reading
  <2>2. ReadingOK' /\ (ReadingOver => ReadingOver')
    BY <1>2, <2>1 DEF ReadingOK, ReadingOver, Called, Paging, Whole
  <2>3. Shutdown'
    BY <1>3, <1>4, <1>6, <1>8, <2>1, <2>2
  <2>4. QED
    BY <1>4, <1>5, <1>8, <2>1, <2>2, <2>3
<1> HIDE DEF Goal
<1>13. QED
  BY <1>7, <1>9, <1>10, <1>11, <1>12 DEF InspectNext, NetworkStep, ReadingStep, DeviceStep, EndStep

-----------------------------------------------------------------------------
\* In every behaviour of the engine's requests, reads and liveness rounds the
\* invariant holds: the variables keep their shapes, a round counts once,
\* a request leaves at most one send behind, a closing engine begins nothing, and
\* an inventory that is paged on holds all that it was told.
THEOREM InspectionInvariant == InspectSpec => []InspectionInv
<1>1. InspectionInv /\ [InspectNext]_inspectVars => InspectionInv'
  BY InspectionNext
<1>2. QED
  BY <1>1, InspectionInit, PTL DEF InspectSpec

\* shutdown() that reports no error leaves no native read and no send behind, and
\* whatever never settles, at most maxConcurrentInspections reads and fewer than
\* twice maxPendingRequests sends are outstanding (request(), executeReadonly()).
THEOREM OutstandingAlwaysBounded == InspectSpec => []OutstandingBounded
<1>1. InspectionInv => OutstandingBounded
  <2> SUFFICES ASSUME InspectionInv PROVE OutstandingBounded
    OBVIOUS
  <2>1. InspectionTypeOK /\ Outstanding /\ Shutdown
    BY DEF InspectionInv
  <2>2. Sending(requests) <= 2 * MaxRequests - 1
    <3>1. hung \in Nat /\ MaxRequests \in Nat
      BY <2>1, InspectionAssumption DEF InspectionTypeOK, InspectionAssumption
    <3>2. /\ Cardinality(Open(requests)) \in Nat /\ Sending(requests) \in Nat
          /\ Sending(requests) <= hung + Cardinality(Open(requests))
      BY <3>1, OpenFinite, SendingOpen
    <3>3. hung + Cardinality(Open(requests)) <= 2 * MaxRequests - 1
      BY <2>1 DEF Outstanding
    <3>4. QED
      BY <3>1, <3>2, <3>3
  <2>3. life = "closed" /\ unconfirmed = {} => stuck = 0 /\ hung = 0
    BY <2>1 DEF Shutdown
  <2>4. stuck + (IF job.stage = "reading" /\ job.called THEN 1 ELSE 0) <= MaxReads
    BY <2>1 DEF Outstanding, Called
  <2>5. QED
    BY <2>2, <2>3, <2>4 DEF OutstandingBounded
<1>2. QED
  BY <1>1, InspectionInvariant, PTL

\* list(): an inventory is "known" only when the device said that there is no
\* more, with every item it gave and one content per token; and no inventory
\* exceeds maxPages or maxResources.
THEOREM ListsComplete == InspectSpec => []ListComplete
<1>1. InspectionInv => ListComplete
  <2> SUFFICES ASSUME InspectionInv PROVE ListComplete
    OBVIOUS
  <2>1. Whole(listing)
    BY DEF InspectionInv, Paging
  <2>2. QED
    BY <2>1 DEF Whole, Consistent, ListComplete
<1>2. QED
  BY <1>1, InspectionInvariant, PTL

\* liveness() and reconcile(): a device is retired only after the grace time and
\* two rounds that left a native read unanswered since it last answered.
THEOREM RetirementsJustified == InspectSpec => RetirementJustified
<1> DEFINE Justified == dev'.state = "departed" /\ dev.state # "departed"
                          => Cardinality(missed') >= 2 /\ dev'.suspect = "over"
<1>1. InspectionInv /\ [InspectNext]_inspectVars => [Justified]_inspectVars
  BY InspectionNext DEF Retirement
<1>2. QED
  BY <1>1, InspectionInvariant, PTL DEF InspectSpec, RetirementJustified

=============================================================================
