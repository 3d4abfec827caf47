---------------------------- MODULE MediaProofs ----------------------------
(***************************************************************************)
(* For every bound, every number of subscribers and every mode, the media  *)
(* queue releases each unit exactly once, keeps its slots within their     *)
(* unit bound, strands no reader, serves every reader in order, evicts     *)
(* nothing in recorded mode, counts the bytes of every slot exactly, and   *)
(* implements the ledger of its producer.                                  *)
(* For every request, trust policy and answer of the camera, both ends of  *)
(* a media session agree on what is opened.  For every loss, duplicate and *)
(* delay of packets and every control, what leaves a track is whole, and   *)
(* a document that is given up is reported.                                *)
(***************************************************************************)
EXTENDS MediaQueue, MediaInput, FiniteSetTheorems, SequenceTheorems, WellFoundedInduction, TLAPS

\* A slot outside the subscriber set holds nothing and nobody waits on it.
DetachedEmpty ==
  \A s \in Slot : s \notin subscribers => slot[s].entries = << >> /\ ~slot[s].pending

\* The units of a slot were published, in the order of its entries.
Ordered ==
  \A s \in Slot :
    /\ \A i \in 1..Len(slot[s].entries) : slot[s].entries[i].id <= published
    /\ \A i, j \in 1..Len(slot[s].entries) :
         i < j => slot[s].entries[i].id < slot[s].entries[j].id

\* The reference count of a unit is the number of slots that hold it.
CountExact == \A u \in Unit : references[u] = Cardinality(Holders(u))

\* A created slot that is still open is attached, and nobody iterates over a
\* slot that does not exist yet.
OpenAttached ==
  \A s \in Slot : /\ s <= slots /\ s \notin subscribers => slot[s].ended
                  /\ s > slots => ~slot[s].claimed

\* The inductive invariant: ReleasedOnceUnheld needs the counts to be exact,
\* these need a slot to hold a unit at most once and no unit to be left in a
\* detached slot; NoReaderStranded needs an open slot to be attached.
IInv == /\ TypeOK /\ DetachedEmpty /\ OpenAttached /\ Ordered /\ CountExact
        /\ ReleasedOnceUnheld /\ Bounded /\ NoReaderStranded

-----------------------------------------------------------------------------
\* Subscribers are slots.
LEMMA SubscribersSlots == TypeOK => subscribers \in SUBSET Slot
<1> SUFFICES ASSUME TypeOK, NEW s \in subscribers PROVE s \in Slot
  OBVIOUS
<1>1. s \in 1..slots /\ slots \in 1..MaxSlots
  BY DEF TypeOK, Slot
<1>2. QED
  BY <1>1, QueueAssumption DEF Slot

\* Any set of slots is finite.
LEMMA SlotsFinite == IsFiniteSet(Slot) /\ \A S \in SUBSET Slot :
                       IsFiniteSet(S) /\ Cardinality(S) \in Nat
<1>1. IsFiniteSet(Slot)
  BY FS_Interval, QueueAssumption DEF Slot
<1>2. QED
  BY <1>1, FS_Subset, FS_CardinalityType

\* Removing slots from a set of holders subtracts their number.
LEMMA CardDiff ==
  ASSUME NEW S \in SUBSET Slot, NEW G \in SUBSET S
  PROVE  /\ Cardinality(S \ G) = Cardinality(S) - Cardinality(G)
         /\ Cardinality(S) = Cardinality(G) <=> S = G
         /\ Cardinality(S) \in Nat /\ Cardinality(G) \in Nat
<1>1. IsFiniteSet(S) /\ IsFiniteSet(G) /\ IsFiniteSet(S \ G)
      /\ Cardinality(S) \in Nat /\ Cardinality(G) \in Nat /\ Cardinality(S \ G) \in Nat
  BY SlotsFinite
<1>2. S = (S \ G) \cup G /\ (S \ G) \cap G = {}
  OBVIOUS
<1>3. Cardinality(S) = Cardinality(S \ G) + Cardinality(G) - 0
  BY <1>1, <1>2, FS_Union, FS_EmptySet
<1>4. Cardinality(S) = Cardinality(G) => S = G
  BY <1>1, FS_Subset
<1>5. QED
  BY <1>1, <1>3, <1>4

\* relinquish(): dropping exactly the slots of gone[u] from the holders of
\* each unit u keeps the counts exact and the callbacks at one per unit.
LEMMA RelinquishExact ==
  ASSUME TypeOK, CountExact, ReleasedOnceUnheld,
         NEW STATE gone, gone \in [Unit -> SUBSET Slot], Relinquish(gone), published' = published,
         \A u \in Unit : gone[u] \subseteq Holders(u),
         \A u \in Unit : Holders(u)' = Holders(u) \ gone[u],
         \A u \in Unit : Holders(u) # {} => u <= published
  PROVE  /\ references' \in [Unit -> Int] /\ released' \in [Unit -> Nat]
         /\ CountExact' /\ ReleasedOnceUnheld'
<1> SUFFICES ASSUME NEW u \in Unit
             PROVE  /\ references'[u] \in Int /\ released'[u] \in Nat
                    /\ references'[u] = Cardinality(Holders(u)')
                    /\ released'[u] = IF u <= published /\ Holders(u)' = {} THEN 1 ELSE 0
  BY DEF CountExact, ReleasedOnceUnheld, Relinquish
<1>1. Holders(u) \in SUBSET Slot /\ gone[u] \in SUBSET Holders(u)
  BY DEF Holders
<1>2. /\ Cardinality(Holders(u) \ gone[u]) = Cardinality(Holders(u)) - Cardinality(gone[u])
      /\ Cardinality(Holders(u)) = Cardinality(gone[u]) <=> Holders(u) = gone[u]
      /\ Cardinality(Holders(u)) \in Nat /\ Cardinality(gone[u]) \in Nat
  BY <1>1, CardDiff
<1>3. references[u] = Cardinality(Holders(u)) /\ references'[u] = references[u] - Cardinality(gone[u])
  BY DEF CountExact, Relinquish
<1>4. released[u] = IF u <= published /\ Holders(u) = {} THEN 1 ELSE 0
  BY DEF ReleasedOnceUnheld
<1>5. released'[u] = IF gone[u] # {} /\ references[u] = Cardinality(gone[u])
                     THEN released[u] + 1 ELSE released[u]
  BY DEF Relinquish
<1>6. /\ Holders(u)' = Holders(u) \ gone[u]
      /\ Holders(u)' = {} <=> gone[u] = Holders(u)
      /\ Holders(u) # {} => u <= published
  BY <1>1
<1>7. references'[u] = Cardinality(Holders(u)') /\ references'[u] \in Int
  BY <1>2, <1>3, <1>6
<1>8. released'[u] = IF u <= published /\ Holders(u)' = {} THEN 1 ELSE 0
  <2>1. CASE gone[u] = {}
    BY <1>4, <1>5, <1>6, <2>1
  <2>2. CASE gone[u] # {}
    BY <1>1, <1>2, <1>3, <1>4, <1>5, <1>6, <2>2
  <2>3. QED
    BY <2>1, <2>2
<1>9. QED
  BY <1>7, <1>8

\* Only published units are held, and each slot that holds one is attached.
LEMMA HoldersPublished ==
  ASSUME TypeOK, DetachedEmpty, Ordered
  PROVE  \A u \in Unit : /\ Holders(u) # {} => u <= published
                         /\ Holders(u) \subseteq subscribers
<1>1. \A s \in Slot : slot[s].entries \in Seq(Entry)
  BY DEF TypeOK, SlotRecord
<1>2. \A s \in Slot, u \in Unit : Holds(s, u) => u <= published
  BY DEF Holds, Ordered
<1>3. \A s \in Slot, u \in Unit : Holds(s, u) => s \in subscribers
  BY <1>1 DEF Holds, DetachedEmpty
<1>4. QED
  BY <1>2, <1>3 DEF Holders

\* Emptying the slots of S (detach, discard) releases what only they held.
LEMMA EmptySlots ==
  ASSUME IInv, NEW STATE S, S \in SUBSET subscribers, published' = published,
         \A s \in Slot : slot'[s].entries = IF s \in S THEN << >> ELSE slot[s].entries,
         Relinquish([u \in Unit |-> Holders(u) \cap S])
  PROVE  /\ references' \in [Unit -> Int] /\ released' \in [Unit -> Nat]
         /\ Ordered' /\ CountExact' /\ ReleasedOnceUnheld'
<1> DEFINE gone == [u \in Unit |-> Holders(u) \cap S]
<1>1. gone \in [Unit -> SUBSET Slot] /\ \A u \in Unit : gone[u] \subseteq Holders(u)
  BY DEF Holders
<1>2. \A u \in Unit : Holders(u)' = Holders(u) \ gone[u]
  BY DEF Holders, Holds, IInv, TypeOK, SlotRecord
<1>3. \A u \in Unit : Holders(u) # {} => u <= published
  BY HoldersPublished DEF IInv
<1>4. Ordered'
  BY DEF Ordered, IInv
<1>5. QED
  <2> HIDE DEF gone
  <2>1. Relinquish(gone)
    BY DEF gone
  <2>2. QED
    BY <1>1, <1>2, <1>3, <1>4, <2>1, RelinquishExact DEF IInv

\* detach(): the slots of S leave the subscriber set with nothing in them.
LEMMA DetachSlots ==
  ASSUME IInv, NEW STATE S, S \in SUBSET subscribers, Detach(S), published' = published
  PROVE  /\ slot' \in [Slot -> SlotRecord]
         /\ references' \in [Unit -> Int] /\ released' \in [Unit -> Nat]
         /\ Ordered' /\ CountExact' /\ ReleasedOnceUnheld'
         /\ \A s \in Slot : s \in S => slot'[s].entries = << >> /\ ~slot'[s].pending
         /\ \A s \in Slot : s \notin S => slot'[s] = slot[s]
         /\ \A s \in Slot : s \in S => slot'[s].ended /\ slot'[s].claimed = slot[s].claimed
<1>1. slot \in [Slot -> SlotRecord]
  BY DEF IInv, TypeOK
<1>2. /\ slot' \in [Slot -> SlotRecord]
      /\ \A s \in Slot : s \in S => slot'[s].entries = << >> /\ ~slot'[s].pending
      /\ \A s \in Slot : s \notin S => slot'[s] = slot[s]
      /\ \A s \in Slot : s \in S => slot'[s].ended /\ slot'[s].claimed = slot[s].claimed
  <2>1. slot' = [s \in Slot |->
          IF s \in S THEN [slot[s] EXCEPT !.entries = << >>, !.ended = TRUE, !.pending = FALSE]
                     ELSE slot[s]]
    BY DEF Detach
  <2>2. << >> \in Seq(Entry)
    OBVIOUS
  <2>3. \A r \in SlotRecord :
          LET d == [r EXCEPT !.entries = << >>, !.ended = TRUE, !.pending = FALSE]
          IN /\ d \in SlotRecord /\ d.entries = << >> /\ ~d.pending
             /\ d.ended /\ d.claimed = r.claimed
    BY <2>2 DEF SlotRecord
  <2>4. QED
    BY <1>1, <2>1, <2>3
<1>3. \A s \in Slot : slot'[s].entries = IF s \in S THEN << >> ELSE slot[s].entries
  BY <1>2
<1>4. Relinquish([u \in Unit |-> Holders(u) \cap S])
  BY DEF Detach
<1>5. QED
  BY <1>2, <1>3, <1>4, EmptySlots

\* The slot bound of the entries and of the subscribers after a detach.
LEMMA DetachBounded ==
  ASSUME IInv, NEW STATE S, S \in SUBSET subscribers, Detach(S), published' = published,
         subscribers' = subscribers \ S, slots' = slots
  PROVE  Bounded' /\ DetachedEmpty' /\ OpenAttached'
<1>1. /\ \A s \in Slot : s \in S => slot'[s].entries = << >> /\ ~slot'[s].pending
      /\ \A s \in Slot : s \notin S => slot'[s] = slot[s]
      /\ \A s \in Slot : s \in S => slot'[s].ended /\ slot'[s].claimed = slot[s].claimed
  BY DetachSlots
<1>2. subscribers \in SUBSET Slot /\ subscribers' \in SUBSET subscribers
  BY SubscribersSlots DEF IInv
<1>3. Cardinality(subscribers') <= Cardinality(subscribers)
      /\ Cardinality(subscribers) \in Nat /\ Cardinality(subscribers') \in Nat
  BY <1>2, SlotsFinite, FS_Subset
<1>4. Bounded'
  BY <1>1, <1>3, QueueAssumption DEF IInv, Bounded
<1>5. OpenAttached'
  BY <1>1 DEF IInv, OpenAttached
<1>6. QED
  BY <1>1, <1>4, <1>5 DEF IInv, DetachedEmpty

-----------------------------------------------------------------------------
\* The constructor establishes the invariant.
LEMMA InitInv == Init => IInv
<1> SUFFICES ASSUME Init PROVE IInv
  OBVIOUS
<1>1. << >> \in Seq(Entry) /\ << >> \in Seq(Unit) /\ Len(<< >>) = 0
  OBVIOUS
<1>2. NewSlot(FALSE) \in SlotRecord /\ NewSlot(FALSE).entries = << >>
      /\ ~NewSlot(FALSE).pending /\ ~NewSlot(FALSE).claimed
  BY <1>1 DEF NewSlot, SlotRecord
<1>3. /\ slot \in [Slot -> SlotRecord]
      /\ \A s \in Slot : slot[s].entries = << >> /\ ~slot[s].pending /\ ~slot[s].claimed
  BY <1>2 DEF Init
<1>4. TypeOK
  <2>1. 1 \in Slot /\ {1} \in SUBSET (1..1) /\ 1 \in 1..1 /\ 0 \in 0..MaxPublish
    BY QueueAssumption DEF Slot
  <2>2. references \in [Unit -> Int] /\ released \in [Unit -> Nat] /\ taken \in [Slot -> Seq(Unit)]
    BY <1>1 DEF Init
  <2>3. QED
    BY <1>3, <2>1, <2>2 DEF Init, TypeOK
<1>5. \A u \in Unit : Holders(u) = {}
  BY <1>3 DEF Holders, Holds
<1>6. CountExact /\ ReleasedOnceUnheld
  <2>1. CountExact
    BY <1>5, FS_EmptySet DEF Init, CountExact
  <2>2. \A u \in Unit : ~(u <= published) /\ released[u] = 0
    BY QueueAssumption DEF Init, Unit
  <2>3. QED
    BY <2>1, <2>2 DEF ReleasedOnceUnheld
<1>7. Cardinality(subscribers) = 1
  BY FS_Singleton DEF Init
<1>8. OpenAttached
  <2>1. \A s \in Slot : s <= 1 => s = 1
    BY QueueAssumption DEF Slot
  <2>2. QED
    BY <1>3, <2>1 DEF Init, OpenAttached
<1>9. QED
  BY <1>3, <1>4, <1>6, <1>7, <1>8, QueueAssumption
  DEF IInv, DetachedEmpty, Ordered, Bounded, NoReaderStranded

\* discard() keeps the invariant.
LEMMA DiscardInv == IInv /\ Discard => IInv'
<1> SUFFICES ASSUME IInv, Discard PROVE IInv'
  OBVIOUS
<1>1. slot \in [Slot -> SlotRecord] /\ << >> \in Seq(Entry)
  BY DEF IInv, TypeOK
<1>2. \A r \in SlotRecord : LET d == [r EXCEPT !.entries = << >>]
        IN /\ d \in SlotRecord /\ d.entries = << >> /\ d.pending = r.pending
           /\ d.ended = r.ended /\ d.claimed = r.claimed
  BY <1>1 DEF SlotRecord
<1>3. /\ slot' \in [Slot -> SlotRecord]
      /\ \A s \in Slot : slot'[s].entries = IF s \in subscribers THEN << >> ELSE slot[s].entries
      /\ \A s \in Slot : /\ slot'[s].pending = slot[s].pending /\ slot'[s].ended = slot[s].ended
                         /\ slot'[s].claimed = slot[s].claimed
  BY <1>1, <1>2 DEF Discard
<1>4. /\ references' \in [Unit -> Int] /\ released' \in [Unit -> Nat]
      /\ Ordered' /\ CountExact' /\ ReleasedOnceUnheld'
  <2>1. Relinquish([u \in Unit |-> Holders(u) \cap subscribers]) /\ published' = published
    BY DEF Discard
  <2>2. QED
    BY <1>3, <2>1, EmptySlots
<1>5. TypeOK'
  BY <1>3, <1>4 DEF IInv, TypeOK, Discard
<1>6. DetachedEmpty' /\ OpenAttached' /\ NoReaderStranded'
  BY <1>3 DEF IInv, DetachedEmpty, OpenAttached, NoReaderStranded, Discard
<1>7. Bounded'
  BY <1>3, QueueAssumption DEF IInv, Bounded, Discard
<1>8. QED
  BY <1>4, <1>5, <1>6, <1>7 DEF IInv

\* end() keeps the invariant: a waiting reader has an empty slot, so it is
\* among the detached ones.
LEMMA EndInv == IInv /\ End => IInv'
<1> SUFFICES ASSUME IInv, End PROVE IInv'
  OBVIOUS
<1> DEFINE empty == {s \in subscribers : slot[s].entries = << >>}
<1>1. /\ empty \in SUBSET subscribers /\ Detach(empty) /\ subscribers' = subscribers \ empty
      /\ published' = published /\ slots' = slots
  BY DEF End
<1>2. /\ slot' \in [Slot -> SlotRecord]
      /\ references' \in [Unit -> Int] /\ released' \in [Unit -> Nat]
      /\ Ordered' /\ CountExact' /\ ReleasedOnceUnheld'
      /\ \A s \in Slot : s \in empty => slot'[s].entries = << >> /\ ~slot'[s].pending
      /\ \A s \in Slot : s \notin empty => slot'[s] = slot[s]
  <2> HIDE DEF empty
  <2> QED BY <1>1, DetachSlots
<1>3. Bounded' /\ DetachedEmpty' /\ OpenAttached'
  <2> HIDE DEF empty
  <2> QED BY <1>1, DetachBounded
<1>4. TypeOK'
  BY <1>1, <1>2 DEF IInv, TypeOK, End
<1>5. \A s \in Slot : ~slot'[s].pending
  BY <1>2 DEF IInv, NoReaderStranded
<1>6. QED
  BY <1>2, <1>3, <1>4, <1>5 DEF IInv, NoReaderStranded

\* finish() keeps the invariant.
LEMMA FinishInv == IInv /\ Finish => IInv'
<1> SUFFICES ASSUME IInv, Finish PROVE IInv'
  OBVIOUS
<1>1. /\ Detach(subscribers) /\ subscribers' = subscribers \ subscribers
      /\ published' = published /\ slots' = slots
  BY DEF Finish
<1>2. /\ slot' \in [Slot -> SlotRecord]
      /\ references' \in [Unit -> Int] /\ released' \in [Unit -> Nat]
      /\ Ordered' /\ CountExact' /\ ReleasedOnceUnheld'
      /\ \A s \in Slot : s \in subscribers => slot'[s].entries = << >> /\ ~slot'[s].pending
      /\ \A s \in Slot : s \notin subscribers => slot'[s] = slot[s]
  BY <1>1, DetachSlots
<1>3. Bounded' /\ DetachedEmpty' /\ OpenAttached'
  BY <1>1, DetachBounded
<1>4. TypeOK'
  BY <1>1, <1>2 DEF IInv, TypeOK, Finish
<1>5. \A s \in Slot : ~slot'[s].pending
  BY <1>2 DEF IInv, NoReaderStranded
<1>6. QED
  BY <1>2, <1>3, <1>4, <1>5 DEF IInv, NoReaderStranded

\* return() and throw() keep the invariant, and so does the last read of a
\* draining queue: one slot is detached and nothing else changes.
LEMMA DetachOneInv ==
  ASSUME IInv, NEW s \in Slot, s \in subscribers,
         Detach({s}), subscribers' = subscribers \ {s},
         UNCHANGED <<live, initial, slots, ended, draining, published, taken>>
  PROVE  IInv'
<1>1. {s} \in SUBSET subscribers /\ published' = published /\ slots' = slots
  OBVIOUS
<1>2. /\ slot' \in [Slot -> SlotRecord]
      /\ references' \in [Unit -> Int] /\ released' \in [Unit -> Nat]
      /\ Ordered' /\ CountExact' /\ ReleasedOnceUnheld'
      /\ \A t \in Slot : t \in {s} => slot'[t].entries = << >> /\ ~slot'[t].pending
      /\ \A t \in Slot : t \notin {s} => slot'[t] = slot[t]
  BY <1>1, DetachSlots
<1>3. Bounded' /\ DetachedEmpty' /\ OpenAttached'
  BY <1>1, DetachBounded
<1>4. TypeOK'
  BY <1>1, <1>2 DEF IInv, TypeOK
<1>5. NoReaderStranded'
  BY <1>2 DEF IInv, NoReaderStranded
<1>6. QED
  BY <1>2, <1>3, <1>4, <1>5 DEF IInv

\* resume() keeps the invariant: while draining nobody waits, and the fresh
\* slot has never held anything.
LEMMA ResumeInv == IInv /\ Resume => IInv'
<1> SUFFICES ASSUME IInv, Resume PROVE IInv'
  OBVIOUS
<1>1. Detach(subscribers) /\ published' = published /\ subscribers' = {slots + 1}
      /\ slots < MaxSlots /\ slots' = slots + 1 /\ initial' = slots + 1
  BY DEF Resume
<1>2. /\ slot' \in [Slot -> SlotRecord]
      /\ references' \in [Unit -> Int] /\ released' \in [Unit -> Nat]
      /\ Ordered' /\ CountExact' /\ ReleasedOnceUnheld'
      /\ \A s \in Slot : s \in subscribers => slot'[s].entries = << >> /\ ~slot'[s].pending
      /\ \A s \in Slot : s \notin subscribers => slot'[s] = slot[s]
      /\ \A s \in Slot : s \in subscribers => slot'[s].ended /\ slot'[s].claimed = slot[s].claimed
  BY <1>1, DetachSlots
<1>3. \A s \in Slot : slot'[s].entries = << >> /\ ~slot'[s].pending
  BY <1>2 DEF IInv, DetachedEmpty
<1>4. slots + 1 \in Slot
  BY <1>1, QueueAssumption DEF IInv, TypeOK, Slot
<1>5. TypeOK'
  <2>1. slots' \in Slot /\ initial' \in 1..slots' /\ subscribers' \in SUBSET (1..slots')
    BY <1>1, <1>4 DEF Slot
  <2>2. draining' \in BOOLEAN /\ UNCHANGED <<live, ended, published, taken>>
    BY DEF Resume
  <2>3. QED
    BY <1>2, <2>1, <2>2 DEF IInv, TypeOK
<1>6. Cardinality(subscribers') = 1
  BY <1>1, FS_Singleton
<1>7. Bounded'
  BY <1>3, <1>6, QueueAssumption DEF Bounded
<1>8. OpenAttached'
  <2> SUFFICES ASSUME NEW s \in Slot
               PROVE  /\ s <= slots' /\ s \notin subscribers' => slot'[s].ended
                      /\ s > slots' => ~slot'[s].claimed
    BY DEF OpenAttached
  <2>1. s \in Nat /\ slots \in Nat
    BY QueueAssumption DEF IInv, TypeOK, Slot
  <2>2. s <= slots' /\ s \notin subscribers' => s <= slots
    BY <1>1, <2>1
  <2>3. s > slots' => s > slots
    BY <1>1, <2>1
  <2>4. QED
    BY <1>2, <2>2, <2>3 DEF IInv, OpenAttached
<1>9. QED
  BY <1>2, <1>3, <1>5, <1>7, <1>8 DEF IInv, DetachedEmpty, NoReaderStranded

\* A step that leaves every slot's entries alone keeps what is said of them.
LEMMA SameEntries ==
  ASSUME IInv, UNCHANGED <<published, references, released>>,
         \A s \in Slot : slot'[s].entries = slot[s].entries
  PROVE  Ordered' /\ CountExact' /\ ReleasedOnceUnheld'
<1>1. \A u \in Unit : Holders(u)' = Holders(u)
  BY DEF Holders, Holds
<1>2. QED
  BY <1>1 DEF IInv, Ordered, CountExact, ReleasedOnceUnheld

\* [Symbol.asyncIterator]() keeps the invariant.
LEMMA SubscribeInv == IInv /\ Subscribe => IInv'
<1> SUFFICES ASSUME IInv, Subscribe PROVE IInv'
  OBVIOUS
<1>1. slot \in [Slot -> SlotRecord] /\ slots \in Slot /\ initial \in 1..slots
      /\ subscribers \in SUBSET Slot /\ initial \in Slot
  BY SubscribersSlots, QueueAssumption DEF IInv, TypeOK, Slot
<1>2. CASE ~slot[initial].claimed
  <2>1. /\ slot' = [slot EXCEPT ![initial].claimed = TRUE]
        /\ UNCHANGED <<live, subscribers, slots, initial, ended, draining, published,
                       references, released, taken>>
    BY <1>2 DEF Subscribe
  <2>2. /\ slot' \in [Slot -> SlotRecord]
        /\ \A s \in Slot : slot'[s].entries = slot[s].entries /\ slot'[s].pending = slot[s].pending
        /\ \A s \in Slot : slot'[s].ended = slot[s].ended
        /\ \A s \in Slot : s # initial => slot'[s].claimed = slot[s].claimed
    BY <1>1, <2>1 DEF SlotRecord
  <2>3. Ordered' /\ CountExact' /\ ReleasedOnceUnheld'
    BY <2>1, <2>2, SameEntries
  <2>4. OpenAttached'
    BY <1>1, <2>1, <2>2, QueueAssumption DEF IInv, OpenAttached, Slot
  <2>5. QED
    BY <2>1, <2>2, <2>3, <2>4 DEF IInv, TypeOK, DetachedEmpty, Bounded, NoReaderStranded
<1>3. CASE slot[initial].claimed
  <2> DEFINE fresh == [NewSlot(ended \/ draining) EXCEPT !.claimed = TRUE]
  <2>1. /\ Cardinality(subscribers) < MaxSubscribers /\ slots < MaxSlots
        /\ slots' = slots + 1
        /\ slot' = [slot EXCEPT ![slots + 1] = fresh]
        /\ subscribers' = IF ended \/ draining THEN subscribers
                                               ELSE subscribers \cup {slots + 1}
        /\ UNCHANGED <<live, initial, ended, draining, published, references, released, taken>>
    BY <1>3 DEF Subscribe
  <2>2. fresh \in SlotRecord /\ fresh.entries = << >> /\ ~fresh.pending
        /\ fresh.ended = (ended \/ draining)
    <3>1. (ended \/ draining) \in BOOLEAN /\ << >> \in Seq(Entry)
      BY DEF IInv, TypeOK
    <3>2. \A e \in BOOLEAN : LET r == [NewSlot(e) EXCEPT !.claimed = TRUE]
            IN r \in SlotRecord /\ r.entries = << >> /\ ~r.pending /\ r.ended = e
      BY <3>1 DEF NewSlot, SlotRecord
    <3>3. QED
      BY <3>1, <3>2
  <2>3. slots + 1 \in Slot /\ slots + 1 \notin subscribers
    BY <2>1, QueueAssumption DEF IInv, TypeOK, Slot
  <2>4. slot[slots + 1].entries = << >> /\ ~slot[slots + 1].pending
    BY <2>3 DEF IInv, DetachedEmpty
  <2>5. /\ slot' \in [Slot -> SlotRecord]
        /\ \A s \in Slot : slot'[s].entries = slot[s].entries
                           /\ (slot'[s].pending <=> slot[s].pending)
        /\ \A s \in Slot : s # slots + 1 => slot'[s] = slot[s]
        /\ slot'[slots + 1] = fresh
    <3> HIDE DEF fresh
    <3>1. slot'[slots + 1] = fresh /\ \A s \in Slot : s # slots + 1 => slot'[s] = slot[s]
      BY <1>1, <2>1, <2>3
    <3>2. slot' \in [Slot -> SlotRecord]
      BY <1>1, <2>1, <2>2, <2>3
    <3>3. ASSUME NEW s \in Slot
          PROVE  slot'[s].entries = slot[s].entries /\ (slot'[s].pending <=> slot[s].pending)
      BY <2>2, <2>4, <3>1
    <3>4. QED
      BY <3>1, <3>2, <3>3
  <2>6. Ordered' /\ CountExact' /\ ReleasedOnceUnheld'
    BY <2>1, <2>5, SameEntries
  <2>7. TypeOK'
    <3>1. slots' \in Slot /\ initial' \in 1..slots' /\ subscribers' \in SUBSET (1..slots')
      BY <2>1, <2>3 DEF IInv, TypeOK, Slot
    <3>2. QED
      BY <2>1, <2>5, <3>1 DEF IInv, TypeOK
  <2>8. Cardinality(subscribers') <= MaxSubscribers
    <3>1. Cardinality(subscribers \cup {slots + 1}) = Cardinality(subscribers) + 1
          /\ Cardinality(subscribers) \in Nat
      BY <1>1, <2>3, SlotsFinite, FS_AddElement
    <3>2. QED
      BY <2>1, <3>1, QueueAssumption
  <2>9. Bounded'
    BY <2>5, <2>8 DEF IInv, Bounded
  <2>10. DetachedEmpty' /\ NoReaderStranded'
    BY <2>1, <2>5 DEF IInv, DetachedEmpty, NoReaderStranded
  <2>11. OpenAttached'
    <3> HIDE DEF fresh
    <3> SUFFICES ASSUME NEW s \in Slot
                 PROVE  /\ s <= slots' /\ s \notin subscribers' => slot'[s].ended
                        /\ s > slots' => ~slot'[s].claimed
      BY DEF OpenAttached
    <3>1. s \in Nat /\ slots \in Nat
      BY QueueAssumption DEF IInv, TypeOK, Slot
    <3>2. CASE s = slots + 1
      <4>1. slot'[s] = fresh /\ ~(s > slots')
        BY <2>1, <2>5, <3>1, <3>2
      <4>2. s \notin subscribers' => (ended \/ draining)
        BY <2>1, <3>2
      <4>3. (ended \/ draining) => fresh.ended
        BY <2>2
      <4>4. QED
        BY <4>1, <4>2, <4>3
    <3>3. CASE s # slots + 1
      <4>1. slot'[s] = slot[s] /\ (s <= slots' => s <= slots) /\ (s > slots' => s > slots)
        BY <2>1, <2>5, <3>1, <3>3
      <4>2. s \notin subscribers' => s \notin subscribers
        BY <2>1
      <4>3. QED
        BY <4>1, <4>2 DEF IInv, OpenAttached
    <3>4. QED
      BY <3>2, <3>3
  <2>12. QED
    BY <2>6, <2>7, <2>9, <2>10, <2>11 DEF IInv
<1>4. QED
  BY <1>2, <1>3

\* A readable slot is attached.
LEMMA ReadableAttached ==
  ASSUME IInv, NEW s \in Slot, slot[s].entries # << >>
  PROVE  s \in subscribers
  BY DEF IInv, DetachedEmpty

\* next() with a queued unit keeps the invariant: the slot held the unit of
\* its first entry once, so it stops holding exactly that unit.
LEMMA ReadInv == ASSUME IInv, NEW s \in Slot, Read(s) PROVE IInv'
<1> DEFINE old == slot[s].entries
           entry == Head(slot[s].entries)
           gone == [u \in Unit |-> IF u = entry.id THEN {s} ELSE {}]
<1>1. /\ old # << >>
      /\ slot' = [slot EXCEPT ![s].entries = Tail(@)]
      /\ taken' = [taken EXCEPT ![s] = Append(@, entry.id)]
      /\ Relinquish(gone)
      /\ UNCHANGED <<live, subscribers, initial, slots, ended, draining, published>>
  BY DEF Read
<1>2. slot \in [Slot -> SlotRecord] /\ old \in Seq(Entry) /\ taken \in [Slot -> Seq(Unit)]
  BY DEF IInv, TypeOK, SlotRecord
<1>3. /\ Tail(old) \in Seq(Entry) /\ Len(Tail(old)) = Len(old) - 1 /\ Len(old) \in Nat \ {0}
      /\ \A i \in 1..Len(old) - 1 : Tail(old)[i] = old[i + 1]
      /\ entry = old[1] /\ entry \in Entry /\ entry.id \in Unit
  <2>1. \A q \in Seq(Entry) : q # << >> =>
          /\ Tail(q) \in Seq(Entry) /\ Len(Tail(q)) = Len(q) - 1 /\ Len(q) \in Nat \ {0}
          /\ Head(q) = q[1] /\ q[1] \in Entry
    OBVIOUS
  <2>2. \A q \in Seq(Entry) : q # << >> => \A i \in 1..Len(q) - 1 : Tail(q)[i] = q[i + 1]
    OBVIOUS
  <2>3. \A e \in Entry : e.id \in Unit
    BY DEF Entry
  <2>4. QED
    BY <1>1, <1>2, <2>1, <2>2, <2>3
<1>4. /\ slot' \in [Slot -> SlotRecord]
      /\ slot'[s].entries = Tail(old)
      /\ \A t \in Slot : t # s => slot'[t] = slot[t]
      /\ \A t \in Slot : /\ slot'[t].pending = slot[t].pending /\ slot'[t].ended = slot[t].ended
                         /\ slot'[t].claimed = slot[t].claimed
  BY <1>1, <1>2, <1>3 DEF SlotRecord
<1>5. \A i, j \in 1..Len(old) : i < j => old[i].id < old[j].id
  BY DEF IInv, Ordered
<1>6. Ordered'
  <2> SUFFICES ASSUME NEW t \in Slot
               PROVE  /\ \A i \in 1..Len(slot'[t].entries) : slot'[t].entries[i].id <= published'
                      /\ \A i, j \in 1..Len(slot'[t].entries) :
                           i < j => slot'[t].entries[i].id < slot'[t].entries[j].id
    BY DEF Ordered
  <2>1. CASE t # s
    BY <1>1, <1>4, <2>1 DEF IInv, Ordered
  <2>2. CASE t = s
    <3>1. \A i \in 1..Len(Tail(old)) : i + 1 \in 1..Len(old) /\ Tail(old)[i] = old[i + 1]
      BY <1>3
    <3>2. \A i \in 1..Len(old) : old[i].id <= published
      BY DEF IInv, Ordered
    <3> DEFINE rest == Tail(old)
    <3>3. /\ \A i \in 1..Len(rest) : rest[i].id <= published
          /\ \A i, j \in 1..Len(rest) : i < j => rest[i].id < rest[j].id
      <4> HIDE DEF old
      <4>1. \A i \in 1..Len(rest) : rest[i].id <= published
        BY <3>1, <3>2
      <4>2. ASSUME NEW i \in 1..Len(rest), NEW j \in 1..Len(rest), i < j
            PROVE  rest[i].id < rest[j].id
        <5>1. i + 1 \in 1..Len(old) /\ j + 1 \in 1..Len(old) /\ i + 1 < j + 1
          BY <3>1, <4>2
        <5>2. QED
          BY <1>5, <3>1, <5>1
      <4>3. QED
        BY <4>1, <4>2
    <3>4. slot'[t].entries = rest /\ published' = published
      BY <1>1, <1>4, <2>2
    <3> HIDE DEF rest, old
    <3>5. QED
      BY <3>3, <3>4
  <2>3. QED
    BY <2>1, <2>2
<1>7. \A u \in Unit : (\E i \in 1..Len(Tail(old)) : Tail(old)[i].id = u)
                      <=> (\E i \in 1..Len(old) : old[i].id = u) /\ u # entry.id
  <2> TAKE u \in Unit
  <2>1. ASSUME NEW i \in 1..Len(Tail(old)), Tail(old)[i].id = u
        PROVE  (\E k \in 1..Len(old) : old[k].id = u) /\ u # entry.id
    <3>1. i + 1 \in 1..Len(old) /\ old[i + 1].id = u /\ 1 \in 1..Len(old) /\ 1 < i + 1
      BY <1>3, <2>1
    <3>2. old[1].id < old[i + 1].id /\ old[1].id \in Nat /\ old[i + 1].id \in Nat
      <4>1. old[1] \in Entry /\ old[i + 1] \in Entry
        BY <1>2, <3>1
      <4>2. \A e \in Entry : e.id \in Nat
        BY QueueAssumption DEF Entry, Unit
      <4>3. old[1].id \in Nat /\ old[i + 1].id \in Nat
        BY ONLY <4>1, <4>2
      <4>4. old[1].id < old[i + 1].id
        BY ONLY <1>5, <3>1
      <4>5. QED
        BY <4>3, <4>4
    <3>3. QED
      BY <1>3, <3>1, <3>2
  <2>2. ASSUME NEW k \in 1..Len(old), old[k].id = u, u # entry.id
        PROVE  \E i \in 1..Len(Tail(old)) : Tail(old)[i].id = u
    <3>1. k # 1 /\ k - 1 \in 1..Len(old) - 1 /\ Tail(old)[k - 1] = old[k]
      BY <1>3, <2>2
    <3>2. QED
      BY <1>3, <2>2, <3>1
  <2>3. QED
    BY <2>1, <2>2
<1>8. /\ gone \in [Unit -> SUBSET Slot]
      /\ \A u \in Unit : gone[u] \subseteq Holders(u)
  BY <1>3 DEF Holders, Holds
<1>9. \A u \in Unit : Holders(u)' = Holders(u) \ gone[u]
  <2> TAKE u \in Unit
  <2>1. \A t \in Slot : Holds(t, u)' <=> Holds(t, u) /\ t \notin gone[u]
    <3> TAKE t \in Slot
    <3>1. CASE t # s
      BY <1>4, <3>1 DEF Holds
    <3>2. CASE t = s
      <4>1. Holds(s, u)' <=> \E i \in 1..Len(Tail(old)) : Tail(old)[i].id = u
        BY <1>4 DEF Holds
      <4>2. Holds(s, u) <=> \E i \in 1..Len(old) : old[i].id = u
        BY DEF Holds
      <4>3. s \notin gone[u] <=> u # entry.id
        OBVIOUS
      <4>4. QED
        BY <1>7, <3>2, <4>1, <4>2, <4>3
    <3>3. QED
      BY <3>1, <3>2
  <2>2. QED
    BY <2>1 DEF Holders
<1>10. \A u \in Unit : Holders(u) # {} => u <= published
  BY HoldersPublished DEF IInv
<1>11. /\ references' \in [Unit -> Int] /\ released' \in [Unit -> Nat]
       /\ CountExact' /\ ReleasedOnceUnheld'
  <2> HIDE DEF gone
  <2> QED BY <1>1, <1>8, <1>9, <1>10, RelinquishExact DEF IInv
<1>12. TypeOK'
  <2>1. taken' \in [Slot -> Seq(Unit)]
    BY <1>1, <1>2, <1>3
  <2>2. QED
    BY <1>1, <1>4, <1>11, <2>1 DEF IInv, TypeOK
<1>13. Bounded'
  BY <1>1, <1>3, <1>4, QueueAssumption DEF IInv, Bounded
<1>14. DetachedEmpty' /\ OpenAttached' /\ NoReaderStranded'
  <2>1. DetachedEmpty' /\ NoReaderStranded'
    BY <1>1, <1>4, ReadableAttached DEF IInv, DetachedEmpty, NoReaderStranded
  <2>2. OpenAttached'
    BY <1>1, <1>4 DEF IInv, OpenAttached
  <2>3. QED
    BY <2>1, <2>2
<1>15. QED
  BY <1>6, <1>11, <1>12, <1>13, <1>14 DEF IInv

\* next() on an empty slot keeps the invariant: an open slot is attached, so
\* the reader that starts to wait will be served or settled.
LEMMA ReadEmptyInv == ASSUME IInv, NEW s \in Slot, ReadEmpty(s) PROVE IInv'
<1>1. Readable(s) /\ slot[s].entries = << >>
      /\ UNCHANGED <<live, initial, slots, ended, draining, published, taken>>
  BY DEF ReadEmpty
<1>2. s \in subscribers
  <2>1. s \in Nat /\ slots \in Nat
    BY QueueAssumption DEF IInv, TypeOK, Slot
  <2>2. s <= slots
    BY <1>1, <2>1 DEF IInv, OpenAttached, Readable
  <2>3. QED
    BY <1>1, <2>2 DEF IInv, OpenAttached, Readable
<1>3. CASE Detach({s}) /\ subscribers' = subscribers \ {s}
  BY <1>1, <1>2, <1>3, DetachOneInv
<1>4. CASE /\ ~draining /\ slot' = [slot EXCEPT ![s].pending = TRUE]
           /\ UNCHANGED <<bytes, subscribers, references, released>>
  <2>1. slot \in [Slot -> SlotRecord]
    BY DEF IInv, TypeOK
  <2>2. /\ slot' \in [Slot -> SlotRecord]
        /\ \A t \in Slot : /\ slot'[t].entries = slot[t].entries /\ slot'[t].ended = slot[t].ended
                           /\ slot'[t].claimed = slot[t].claimed
        /\ \A t \in Slot : t # s => slot'[t].pending = slot[t].pending
    BY <1>4, <2>1 DEF SlotRecord
  <2>3. Ordered' /\ CountExact' /\ ReleasedOnceUnheld'
    BY <1>1, <1>4, <2>2, SameEntries
  <2>4. TypeOK' /\ Bounded'
    BY <1>1, <1>4, <2>2 DEF IInv, TypeOK, Bounded
  <2>5. DetachedEmpty' /\ OpenAttached'
    BY <1>1, <1>2, <1>4, <2>2 DEF IInv, DetachedEmpty, OpenAttached
  <2>6. NoReaderStranded'
    BY <1>1, <1>2, <1>4, <2>2 DEF IInv, NoReaderStranded, Readable
  <2>7. QED
    BY <2>3, <2>4, <2>5, <2>6 DEF IInv
<1>5. QED
  BY <1>3, <1>4 DEF ReadEmpty

\* return() and throw() keep the invariant.
LEMMA ReturnInv == ASSUME IInv, NEW s \in Slot, Return(s) PROVE IInv'
  BY DetachOneInv DEF Return

\* The units of e are at most p and in order.
OrderedUpTo(e, p) ==
  /\ \A i \in 1..Len(e) : e[i].id <= p
  /\ \A i, j \in 1..Len(e) : i < j => e[i].id < e[j].id

\* The entries e less the k oldest, and unit p + 1; and what q then holds.
Pushed(e, k, p, b) == Append(SubSeq(e, k + 1, Len(e)), [id |-> p + 1, bytes |-> b])
PushedOnto(q, e, k, p) ==
  /\ q \in Seq(Entry) /\ Len(q) = Len(e) - k + 1
  /\ OrderedUpTo(q, p + 1)
  /\ \A v \in Unit : (\E i \in 1..Len(q) : q[i].id = v) <=>
       \/ v = p + 1
       \/ (\E i \in 1..Len(e) : e[i].id = v) /\ ~(\E i \in 1..k : e[i].id = v)

\* What publish() leaves in a slot whose k oldest entries e it evicted: the
\* rest and the new unit, still in order; the slot holds exactly what it held
\* before, less the evicted units, and the new one.
LEMMA AppendRest ==
  ASSUME NEW e \in Seq(Entry), NEW k \in 0..Len(e), NEW p \in Nat, p + 1 \in Unit,
         NEW b \in Nat,
         OrderedUpTo(e, p)
  PROVE  PushedOnto(Pushed(e, k, p, b), e, k, p)
<1> DEFINE rest == SubSeq(e, k + 1, Len(e))
           new == [id |-> p + 1, bytes |-> b]
           q == Append(rest, new)
           n == Len(e) - k
<1>0. /\ \A i \in 1..Len(e) : e[i].id <= p
      /\ \A i, j \in 1..Len(e) : i < j => e[i].id < e[j].id
  BY DEF OrderedUpTo
<1>1. rest \in Seq(Entry) /\ Len(rest) = n /\ n \in Nat /\ Len(e) \in Nat /\ k \in Nat
  OBVIOUS
<1>2. \A i \in 1..n : rest[i] = e[k + i] /\ k + i \in 1..Len(e)
  OBVIOUS
<1>3. new \in Entry /\ new.id = p + 1
  BY DEF Entry
<1>4. \A i \in 1..Len(e) : e[i].id \in Nat
  <2>1. \A i \in 1..Len(e) : e[i] \in Entry
    OBVIOUS
  <2>2. \A r \in Entry : r.id \in Nat
    BY QueueAssumption DEF Entry, Unit
  <2>3. QED
    BY <2>1, <2>2
<1> HIDE DEF rest, new
<1>5. q \in Seq(Entry) /\ Len(q) = n + 1 /\ q[n + 1] = new /\ \A i \in 1..n : q[i] = rest[i]
  BY <1>1, <1>3
<1> HIDE DEF q, n
<1>6. \A i \in 1..n : q[i].id = e[k + i].id /\ q[i].id <= p /\ q[i].id \in Nat
  BY <1>0, <1>2, <1>4, <1>5
<1>7. \A i \in 1..Len(q) : i \in 1..n \/ i = n + 1
  BY <1>1, <1>5
<1>8. \A i \in 1..Len(q) : q[i].id <= p + 1
  BY <1>3, <1>5, <1>6, <1>7
<1>9. ASSUME NEW i \in 1..Len(q), NEW j \in 1..Len(q), i < j PROVE q[i].id < q[j].id
  <2>1. CASE j = n + 1
    <3>1. i \in 1..n
      BY <1>1, <1>5, <1>9, <2>1
    <3>2. QED
      BY <1>3, <1>5, <1>6, <2>1, <3>1
  <2>2. CASE j \in 1..n
    <3>1. i \in 1..n
      BY <1>1, <1>5, <1>9, <2>2
    <3>2. k + i \in 1..Len(e) /\ k + j \in 1..Len(e) /\ k + i < k + j
      BY <1>1, <1>2, <1>9, <2>2, <3>1
    <3>3. QED
      BY <1>0, <1>6, <2>2, <3>1, <3>2
  <2>3. QED
    BY <1>7, <2>1, <2>2
<1>10. ASSUME NEW v \in Unit
       PROVE  (\E i \in 1..Len(q) : q[i].id = v) <=>
                \/ v = p + 1
                \/ (\E i \in 1..Len(e) : e[i].id = v) /\ ~(\E i \in 1..k : e[i].id = v)
  <2>1. ASSUME NEW i \in 1..n, q[i].id = v
        PROVE  (\E j \in 1..Len(e) : e[j].id = v) /\ ~(\E j \in 1..k : e[j].id = v)
    <3>1. k + i \in 1..Len(e) /\ e[k + i].id = v
      BY <1>2, <1>6, <2>1
    <3>2. \A j \in 1..k : j \in 1..Len(e) /\ j < k + i
      BY <1>1, <3>1
    <3>3. \A j \in 1..k : e[j].id < e[k + i].id /\ e[j].id \in Nat /\ e[k + i].id \in Nat
      BY <1>0, <1>4, <3>1, <3>2
    <3>4. \A j \in 1..k : e[j].id # v
      BY <3>1, <3>3
    <3>5. QED
      BY <3>1, <3>4
  <2>2. ASSUME NEW j \in 1..Len(e), e[j].id = v, ~(\E i \in 1..k : e[i].id = v)
        PROVE  \E i \in 1..Len(q) : q[i].id = v
    <3>1. j \notin 1..k
      BY <2>2
    <3>2. j - k \in 1..n /\ k + (j - k) = j
      BY <1>1, <3>1 DEF n
    <3>3. q[j - k].id = v /\ j - k \in 1..Len(q)
      BY <1>1, <1>5, <1>6, <2>2, <3>2
    <3>4. QED
      BY <3>3
  <2>3. v = p + 1 => \E i \in 1..Len(q) : q[i].id = v
    <3>1. n + 1 \in 1..Len(q)
      BY <1>1, <1>5
    <3>2. QED
      BY <1>3, <1>5, <3>1
  <2>4. ASSUME NEW i \in 1..Len(q), q[i].id = v, i = n + 1 PROVE v = p + 1
    BY <1>3, <1>5, <2>4
  <2>5. QED
    BY <1>7, <2>1, <2>2, <2>3, <2>4
<1>11. Len(q) = Len(e) - k + 1
  BY <1>5 DEF n
<1>12. QED
  BY <1>5, <1>8, <1>9, <1>10, <1>11 DEF q, rest, new, Pushed, PushedOnto, OrderedUpTo

\* The fan-out of publish() keeps the invariant: every slot keeps its order
\* and its bound, the new unit is held by exactly the slots it was queued in,
\* and an older one loses exactly the slots it was evicted from.
LEMMA FanoutInv ==
  ASSUME IInv, NEW b \in Nat, NEW STATE direct, direct \in SUBSET subscribers,
         NEW STATE queued, queued \in SUBSET subscribers, NEW cut \in [Slot -> 0..MaxUnits], published < MaxPublish, ~ended, ~draining,
         direct \cap queued = {},
         \A s \in subscribers : slot[s].pending => s \notin queued,
         \A s \in queued : Evicts(s, b, cut[s]),
         Fanout(published + 1, b, direct, queued, cut), published' = published + 1,
         UNCHANGED <<live, subscribers, initial, slots, ended, draining>>
  PROVE  IInv'
<1> DEFINE u == published + 1
           new(s) == Append(Rest(s, cut[s]), [id |-> u, bytes |-> b])
           evicted(v) == {s \in queued : \E i \in 1..cut[s] : slot[s].entries[i].id = v}
<1>1. slot \in [Slot -> SlotRecord] /\ taken \in [Slot -> Seq(Unit)] /\ subscribers \in SUBSET Slot
      /\ published \in Nat /\ u \in Unit /\ published \in 0..MaxPublish
  <2>1. slot \in [Slot -> SlotRecord] /\ taken \in [Slot -> Seq(Unit)] /\ subscribers \in SUBSET Slot
        /\ published \in 0..MaxPublish
    BY SubscribersSlots DEF IInv, TypeOK
  <2>2. published \in Nat /\ u \in Unit
    BY <2>1, QueueAssumption DEF Unit
  <2>3. QED
    BY <2>1, <2>2
<1>2. \A s \in Slot : slot[s].entries \in Seq(Entry)
  BY <1>1 DEF SlotRecord
<1>3. \A s \in queued : /\ cut[s] \in 0..Len(slot[s].entries)
                         /\ Len(slot[s].entries) - cut[s] < MaxUnits
  <2> SUFFICES ASSUME NEW s \in queued
               PROVE  /\ cut[s] \in 0..Len(slot[s].entries)
                      /\ Len(slot[s].entries) - cut[s] < MaxUnits
    OBVIOUS
  <2>1. s \in Slot /\ cut[s] \in 0..MaxUnits /\ Len(slot[s].entries) \in Nat
    BY <1>1, <1>2
  <2>2. QED
    BY <2>1, QueueAssumption DEF Evicts, Fits
<1>4. \A s \in queued :
        /\ new(s) \in Seq(Entry) /\ Len(new(s)) <= MaxUnits
        /\ \A i \in 1..Len(new(s)) : new(s)[i].id <= u
        /\ \A i, j \in 1..Len(new(s)) : i < j => new(s)[i].id < new(s)[j].id
        /\ \A v \in Unit : (\E i \in 1..Len(new(s)) : new(s)[i].id = v) <=>
             v = u \/ (Holds(s, v) /\ ~(\E i \in 1..cut[s] : slot[s].entries[i].id = v))
  <2> SUFFICES ASSUME NEW s \in queued
        PROVE  /\ new(s) \in Seq(Entry) /\ Len(new(s)) <= MaxUnits
               /\ \A i \in 1..Len(new(s)) : new(s)[i].id <= u
               /\ \A i, j \in 1..Len(new(s)) : i < j => new(s)[i].id < new(s)[j].id
               /\ \A v \in Unit : (\E i \in 1..Len(new(s)) : new(s)[i].id = v) <=>
                    v = u \/ (Holds(s, v) /\ ~(\E i \in 1..cut[s] : slot[s].entries[i].id = v))
    OBVIOUS
  <2> DEFINE e == slot[s].entries
             k == cut[s]
  <2>1. /\ e \in Seq(Entry) /\ k \in 0..Len(e) /\ Len(e) \in Nat /\ Len(e) - k < MaxUnits
        /\ \A i \in 1..Len(e) : e[i].id <= published
        /\ \A i, j \in 1..Len(e) : i < j => e[i].id < e[j].id
    <3>1. s \in Slot /\ e \in Seq(Entry) /\ Len(e) \in Nat
      BY <1>1, <1>2
    <3>2. k \in 0..Len(e) /\ Len(e) - k < MaxUnits
      BY <1>3
    <3>3. QED
      BY <3>1, <3>2 DEF IInv, Ordered
  <2>2. \A v \in Unit : Holds(s, v) <=> \E i \in 1..Len(e) : e[i].id = v
    BY DEF Holds
  <2>3. new(s) = Append(SubSeq(e, k + 1, Len(e)), [id |-> u, bytes |-> b])
    BY DEF Rest
  <2> HIDE DEF e, k, new
  <2>4. /\ new(s) \in Seq(Entry) /\ Len(new(s)) = Len(e) - k + 1
        /\ \A i \in 1..Len(new(s)) : new(s)[i].id <= u
        /\ \A i, j \in 1..Len(new(s)) : i < j => new(s)[i].id < new(s)[j].id
        /\ \A v \in Unit : (\E i \in 1..Len(new(s)) : new(s)[i].id = v) <=>
             \/ v = u
             \/ (\E i \in 1..Len(e) : e[i].id = v) /\ ~(\E i \in 1..k : e[i].id = v)
    <3> DEFINE q == Pushed(e, k, published, b)
    <3>1. /\ q \in Seq(Entry) /\ Len(q) = Len(e) - k + 1
          /\ \A i \in 1..Len(q) : q[i].id <= published + 1
          /\ \A i, j \in 1..Len(q) : i < j => q[i].id < q[j].id
          /\ \A v \in Unit : (\E i \in 1..Len(q) : q[i].id = v) <=>
               \/ v = published + 1
               \/ (\E i \in 1..Len(e) : e[i].id = v) /\ ~(\E i \in 1..k : e[i].id = v)
      <4>1. published \in Nat /\ published + 1 \in Unit
        BY <1>1
      <4>2. OrderedUpTo(e, published)
        BY <2>1 DEF OrderedUpTo
      <4>3. PushedOnto(q, e, k, published)
        BY <2>1, <4>1, <4>2, AppendRest
      <4> HIDE DEF q
      <4>4. QED
        BY <4>3 DEF PushedOnto, OrderedUpTo
    <3>2. new(s) = q
      BY <2>3 DEF Pushed
    <3> HIDE DEF q
    <3>3. QED
      BY <3>1, <3>2
  <2>5. Len(new(s)) <= MaxUnits
    BY <2>1, <2>4, QueueAssumption
  <2>6. \A v \in Unit : (\E i \in 1..Len(new(s)) : new(s)[i].id = v) <=>
          v = u \/ (Holds(s, v) /\ ~(\E i \in 1..k : e[i].id = v))
    <3> HIDE DEF u
    <3> TAKE v \in Unit
    <3>1. (\E i \in 1..Len(new(s)) : new(s)[i].id = v) <=>
             \/ v = u
             \/ (\E i \in 1..Len(e) : e[i].id = v) /\ ~(\E i \in 1..k : e[i].id = v)
      BY <2>4
    <3>2. Holds(s, v) <=> \E i \in 1..Len(e) : e[i].id = v
      BY <2>2
    <3>3. QED
      BY <3>1, <3>2
  <2>7. QED
    BY <2>4, <2>5, <2>6 DEF e, k
<1> HIDE DEF new
<1>5. slot' = [s \in Slot |->
        CASE s \in direct -> [slot[s] EXCEPT !.pending = FALSE]
          [] s \in queued -> [slot[s] EXCEPT !.entries = new(s)]
          [] OTHER        -> slot[s]]
  BY DEF Fanout, new
<1>6. /\ \A s \in Slot : s \in direct => slot'[s] = [slot[s] EXCEPT !.pending = FALSE]
      /\ \A s \in Slot : s \in queued => slot'[s] = [slot[s] EXCEPT !.entries = new(s)]
      /\ \A s \in Slot : s \notin direct /\ s \notin queued => slot'[s] = slot[s]
      /\ DOMAIN slot' = Slot /\ slot' = [s \in Slot |-> slot'[s]]
  BY <1>5
<1>7. /\ references' = [v \in Unit |-> IF v = u THEN Cardinality(queued)
                                      ELSE references[v] - Cardinality(evicted(v))]
      /\ released' = [v \in Unit |->
           IF \/ v = u /\ queued = {}
              \/ v # u /\ evicted(v) # {} /\ references[v] = Cardinality(evicted(v))
           THEN released[v] + 1 ELSE released[v]]
  BY DEF Fanout
<1>8. \A s \in Slot :
        /\ slot'[s] \in SlotRecord
        /\ slot'[s].entries = IF s \in queued THEN new(s) ELSE slot[s].entries
        /\ slot'[s].pending => slot[s].pending /\ s \notin direct
        /\ slot'[s].ended = slot[s].ended /\ slot'[s].claimed = slot[s].claimed
  <2> SUFFICES ASSUME NEW s \in Slot
        PROVE  /\ slot'[s] \in SlotRecord
               /\ slot'[s].entries = IF s \in queued THEN new(s) ELSE slot[s].entries
               /\ slot'[s].pending => slot[s].pending /\ s \notin direct
               /\ slot'[s].ended = slot[s].ended /\ slot'[s].claimed = slot[s].claimed
    OBVIOUS
  <2>1. slot[s] \in SlotRecord
    BY <1>1
  <2>2. CASE s \in direct
    <3>1. slot'[s] = [slot[s] EXCEPT !.pending = FALSE] /\ s \notin queued
      BY <1>6, <2>2
    <3>2. QED
      BY <2>1, <3>1 DEF SlotRecord
  <2>3. CASE s \in queued
    <3>1. slot'[s] = [slot[s] EXCEPT !.entries = new(s)] /\ s \notin direct /\ new(s) \in Seq(Entry)
      BY <1>4, <1>6, <2>3
    <3>2. QED
      BY <2>1, <2>3, <3>1 DEF SlotRecord
  <2>4. CASE s \notin direct /\ s \notin queued
    BY <1>6, <2>1, <2>4
  <2>5. QED
    BY <2>2, <2>3, <2>4
<1>9. TypeOK' /\ Bounded'
  <2>1. slot' \in [Slot -> SlotRecord]
    BY <1>6, <1>8
  <2>2. taken' \in [Slot -> Seq(Unit)]
    <3>1. taken' = [s \in Slot |-> IF s \in direct THEN Append(taken[s], u) ELSE taken[s]]
      BY DEF Fanout
    <3>2. \A s \in Slot : Append(taken[s], u) \in Seq(Unit) /\ taken[s] \in Seq(Unit)
      BY <1>1
    <3> HIDE DEF u
    <3>3. QED
      BY <3>1, <3>2
  <2>3. published' \in 0..MaxPublish
    BY <1>1, QueueAssumption DEF u
  <2>4. references' \in [Unit -> Int] /\ released' \in [Unit -> Nat]
    <3>1. references \in [Unit -> Int] /\ released \in [Unit -> Nat]
      BY DEF IInv, TypeOK
    <3>2. \A v \in Unit : Cardinality(evicted(v)) \in Nat /\ Cardinality(queued) \in Nat
      BY <1>1, SlotsFinite
    <3> HIDE DEF evicted, u
    <3>3. QED
      BY <1>7, <3>1, <3>2
  <2>5. TypeOK'
    BY <2>1, <2>2, <2>3, <2>4 DEF IInv, TypeOK
  <2>6. QED
    BY <1>4, <1>8, <2>5 DEF IInv, Bounded
<1>10. Ordered'
  <2> SUFFICES ASSUME NEW s \in Slot
               PROVE  /\ \A i \in 1..Len(slot'[s].entries) : slot'[s].entries[i].id <= published'
                      /\ \A i, j \in 1..Len(slot'[s].entries) :
                           i < j => slot'[s].entries[i].id < slot'[s].entries[j].id
    BY DEF Ordered
  <2>1. CASE s \in queued
    BY <1>4, <1>8, <2>1
  <2>2. CASE s \notin queued
    <3>1. slot'[s].entries = slot[s].entries
      BY <1>8, <2>2
    <3>2. \A i \in 1..Len(slot[s].entries) :
            slot[s].entries[i].id \in Nat /\ slot[s].entries[i].id <= published
      <4>1. \A r \in Entry : r.id \in Nat
        BY QueueAssumption DEF Entry, Unit
      <4>2. QED
        BY <1>2, <4>1 DEF IInv, Ordered
    <3>3. \A i \in 1..Len(slot[s].entries) : slot[s].entries[i].id <= published'
      BY <1>1, <3>2
    <3>4. QED
      BY <3>1, <3>3 DEF IInv, Ordered
  <2>3. QED
    BY <2>1, <2>2
<1>11. DetachedEmpty' /\ OpenAttached' /\ NoReaderStranded'
  <2>1. DetachedEmpty' /\ OpenAttached'
    BY <1>8 DEF IInv, DetachedEmpty, OpenAttached
  <2>2. \A s \in Slot : slot'[s].pending => s \notin queued /\ slot[s].pending
    BY <1>8
  <2>3. QED
    BY <1>8, <2>1, <2>2 DEF IInv, NoReaderStranded
<1>12. \A v \in Unit : Holders(v)' = IF v = u THEN queued ELSE Holders(v) \ evicted(v)
  <2> SUFFICES ASSUME NEW v \in Unit, NEW s \in Slot
               PROVE  Holds(s, v)' <=> IF v = u THEN s \in queued
                                                ELSE Holds(s, v) /\ s \notin evicted(v)
    BY <1>1 DEF Holders
  <2>1. CASE s \in queued
    <3>1. Holds(s, v)' <=> \E i \in 1..Len(new(s)) : new(s)[i].id = v
      BY <1>8, <2>1 DEF Holds
    <3>2. s \in evicted(v) <=> \E i \in 1..cut[s] : slot[s].entries[i].id = v
      BY <2>1
    <3>3. (\E i \in 1..Len(new(s)) : new(s)[i].id = v) <=>
             v = u \/ (Holds(s, v) /\ ~(\E i \in 1..cut[s] : slot[s].entries[i].id = v))
      BY <1>4, <2>1
    <3> HIDE DEF evicted, u
    <3>4. QED
      BY <2>1, <3>1, <3>2, <3>3
  <2>2. CASE s \notin queued
    <3>1. Holds(s, v)' <=> Holds(s, v)
      BY <1>8, <2>2 DEF Holds
    <3>2. Holds(s, v) => v <= published
      BY HoldersPublished DEF IInv, Holders
    <3>3. v = u => ~Holds(s, v)
      BY <1>1, <3>2
    <3>4. QED
      BY <2>2, <3>1, <3>3
  <2>3. QED
    BY <2>1, <2>2
<1>13. ASSUME NEW v \in Unit
       PROVE  /\ references'[v] = Cardinality(Holders(v)')
              /\ released'[v] = IF v <= published' /\ Holders(v)' = {} THEN 1 ELSE 0
  <2>1. /\ references'[v] = IF v = u THEN Cardinality(queued)
                                     ELSE references[v] - Cardinality(evicted(v))
        /\ released'[v] = IF \/ v = u /\ queued = {}
                             \/ v # u /\ evicted(v) # {} /\ references[v] = Cardinality(evicted(v))
                          THEN released[v] + 1 ELSE released[v]
    <3> HIDE DEF evicted, u
    <3>1. references'[v] = IF v = u THEN Cardinality(queued)
                                    ELSE references[v] - Cardinality(evicted(v))
      BY <1>7
    <3>2. released'[v] = IF \/ v = u /\ queued = {}
                            \/ v # u /\ evicted(v) # {} /\ references[v] = Cardinality(evicted(v))
                         THEN released[v] + 1 ELSE released[v]
      BY <1>7
    <3>3. QED
      BY <3>1, <3>2
  <2>2. /\ references[v] = Cardinality(Holders(v))
        /\ released[v] = IF v <= published /\ Holders(v) = {} THEN 1 ELSE 0
        /\ Holders(v) # {} => v <= published
    BY HoldersPublished DEF IInv, CountExact, ReleasedOnceUnheld
  <2>3. v \in Nat
    BY QueueAssumption DEF Unit
  <2>4. CASE v = u
    <3>1. ~(v <= published) /\ v <= published' /\ released[v] = 0
      BY <1>1, <2>2, <2>3, <2>4
    <3>2. Holders(v)' = queued
      BY <1>12, <2>4
    <3> HIDE DEF evicted, u
    <3>3. references'[v] = Cardinality(Holders(v)')
      BY <2>1, <2>4, <3>2
    <3>4. released'[v] = IF queued = {} THEN 1 ELSE 0
      BY <2>1, <2>4, <3>1
    <3>5. QED
      BY <3>1, <3>2, <3>3, <3>4
  <2>5. CASE v # u
    <3>1. evicted(v) \in SUBSET Holders(v) /\ Holders(v) \in SUBSET Slot
      <4>1. \A s \in queued : \A i \in 1..cut[s] : i \in 1..Len(slot[s].entries)
        <5> SUFFICES ASSUME NEW s \in queued, NEW i \in 1..cut[s]
                     PROVE  i \in 1..Len(slot[s].entries)
          OBVIOUS
        <5>1. cut[s] \in 0..Len(slot[s].entries) /\ Len(slot[s].entries) \in Nat
          BY <1>1, <1>2, <1>3
        <5>2. QED
          BY <5>1
      <4>2. QED
        BY <1>1, <4>1 DEF Holders, Holds
    <3> HIDE DEF evicted
    <3>2. /\ Cardinality(Holders(v) \ evicted(v)) = Cardinality(Holders(v)) - Cardinality(evicted(v))
          /\ Cardinality(Holders(v)) = Cardinality(evicted(v)) <=> Holders(v) = evicted(v)
      BY <3>1, CardDiff
    <3>3. Holders(v)' = Holders(v) \ evicted(v) /\ (v <= published' <=> v <= published)
      BY <1>1, <1>12, <2>3, <2>5
    <3>4. references'[v] = Cardinality(Holders(v)')
      BY <2>1, <2>2, <2>5, <3>2, <3>3
    <3>5. CASE evicted(v) = {}
      <4>1. Holders(v)' = Holders(v) /\ released'[v] = released[v]
        BY <2>1, <2>5, <3>3, <3>5
      <4>2. QED
        BY <2>2, <3>3, <3>4, <4>1
    <3>6. CASE evicted(v) # {}
      <4>1. Holders(v) # {} /\ released[v] = 0 /\ v <= published
        BY <2>2, <3>1, <3>6
      <4>2. Holders(v)' = {} <=> references[v] = Cardinality(evicted(v))
        BY <2>2, <3>1, <3>2, <3>3
      <4>3. QED
        BY <2>1, <2>5, <3>3, <3>4, <3>6, <4>1, <4>2
    <3>7. QED
      BY <3>5, <3>6
  <2>6. QED
    BY <2>4, <2>5
<1>14. QED
  BY <1>9, <1>10, <1>11, <1>13 DEF IInv, CountExact, ReleasedOnceUnheld

\* publish() keeps the invariant.
LEMMA PublishInv == ASSUME IInv, NEW b \in Sizes, Publish(b) PROVE IInv'
<1> DEFINE u == published + 1
           direct == {s \in Reached(b) : slot[s].pending}
           queued == {s \in Reached(b) \ direct : b <= MaxBytes}
<1>1. /\ published < MaxPublish /\ published' = u
      /\ UNCHANGED <<live, subscribers, initial, slots, ended, draining>>
  BY DEF Publish
<1>2. b \in Nat /\ published \in 0..MaxPublish /\ u \in Unit /\ published \in Nat
  <2>1. published \in 0..MaxPublish
    BY DEF IInv, TypeOK
  <2>2. QED
    BY <1>1, <2>1, QueueAssumption DEF Unit
<1>3. CASE /\ released' = [released EXCEPT ![u] = @ + 1]
           /\ UNCHANGED <<slot, bytes, references, taken>>
  <2>1. \A v \in Unit : Holders(v)' = Holders(v)
    BY <1>3 DEF Holders, Holds
  <2>2. released \in [Unit -> Nat]
    BY DEF IInv, TypeOK
  <2>3. Holders(u) = {} /\ released[u] = 0
    <3>1. ~(u <= published)
      BY <1>2
    <3>2. QED
      BY <1>2, <3>1, HoldersPublished DEF IInv, ReleasedOnceUnheld
  <2>4. ReleasedOnceUnheld'
    <3> SUFFICES ASSUME NEW v \in Unit
                 PROVE  released'[v] = IF v <= published' /\ Holders(v)' = {} THEN 1 ELSE 0
      BY DEF ReleasedOnceUnheld
    <3>1. v \in Nat
      BY QueueAssumption DEF Unit
    <3>2. CASE v = u
      BY <1>1, <1>2, <1>3, <2>1, <2>2, <2>3, <3>1, <3>2
    <3>3. CASE v # u
      <4>1. released'[v] = released[v] /\ (v <= published' <=> v <= published)
        BY <1>1, <1>2, <1>3, <2>2, <3>1, <3>3
      <4>2. QED
        BY <2>1, <4>1 DEF IInv, ReleasedOnceUnheld
    <3>4. QED
      BY <3>2, <3>3
  <2>5. CountExact'
    BY <1>3, <2>1 DEF IInv, CountExact
  <2>6. Ordered'
    <3>1. \A s \in Slot : \A i \in 1..Len(slot[s].entries) : slot[s].entries[i].id \in Nat
      <4>1. \A s \in Slot : slot[s].entries \in Seq(Entry)
        BY DEF IInv, TypeOK, SlotRecord
      <4>2. \A r \in Entry : r.id \in Nat
        BY QueueAssumption DEF Entry, Unit
      <4>3. QED
        BY <4>1, <4>2
    <3>2. \A s \in Slot : \A i \in 1..Len(slot[s].entries) : slot[s].entries[i].id <= published
      BY DEF IInv, Ordered
    <3>3. \A s \in Slot : \A i \in 1..Len(slot[s].entries) : slot[s].entries[i].id <= published'
      BY <1>1, <1>2, <3>1, <3>2
    <3>4. QED
      BY <1>3, <3>3 DEF IInv, Ordered
  <2>7. TypeOK'
    <3>1. released' \in [Unit -> Nat]
      BY <1>2, <1>3, <2>2
    <3>2. published' \in 0..MaxPublish
      BY <1>1, <1>2, QueueAssumption
    <3>3. QED
      BY <1>1, <1>3, <3>1, <3>2 DEF IInv, TypeOK
  <2>8. DetachedEmpty' /\ OpenAttached' /\ Bounded' /\ NoReaderStranded'
    BY <1>1, <1>3 DEF IInv, DetachedEmpty, OpenAttached, Bounded, NoReaderStranded
  <2>9. QED
    BY <2>4, <2>5, <2>6, <2>7, <2>8 DEF IInv
<1>4. ASSUME ~ended, ~draining, NEW cut \in [Slot -> 0..MaxUnits],
             \A s \in Slot : IF s \in queued THEN Evicts(s, b, cut[s]) ELSE cut[s] = 0,
             Fanout(u, b, direct, queued, cut)
      PROVE  IInv'
  <2>1. direct \in SUBSET subscribers /\ queued \in SUBSET subscribers /\ direct \cap queued = {}
    BY DEF Reached
  <2>2. \A s \in subscribers : slot[s].pending => s \notin queued
    OBVIOUS
  <2>3. subscribers \in SUBSET Slot
    BY SubscribersSlots DEF IInv
  <2>4. \A s \in queued : Evicts(s, b, cut[s])
    BY <1>4, <2>1, <2>3
  <2>5. Fanout(published + 1, b, direct, queued, cut)
    BY <1>4
  <2> HIDE DEF direct, queued
  <2>6. QED
    BY <1>1, <1>2, <1>4, <2>1, <2>2, <2>4, <2>5, FanoutInv
<1>5. QED
  BY <1>3, <1>4 DEF Publish

-----------------------------------------------------------------------------
\* Every step of the queue keeps the invariant.
LEMMA NextInv == IInv /\ [Next]_vars => IInv'
<1> SUFFICES ASSUME IInv, [Next]_vars PROVE IInv'
  OBVIOUS
<1>1. ASSUME NEW b \in Sizes, Publish(b) PROVE IInv'
  BY <1>1, PublishInv
<1>2. CASE Discard
  BY <1>2, DiscardInv
<1>3. CASE End
  BY <1>3, EndInv
<1>4. CASE Resume
  BY <1>4, ResumeInv
<1>5. CASE Finish
  BY <1>5, FinishInv
<1>6. CASE Subscribe
  BY <1>6, SubscribeInv
<1>7. ASSUME NEW s \in Slot, Read(s) PROVE IInv'
  BY <1>7, ReadInv
<1>8. ASSUME NEW s \in Slot, ReadEmpty(s) PROVE IInv'
  BY <1>8, ReadEmptyInv
<1>9. ASSUME NEW s \in Slot, Return(s) PROVE IInv'
  BY <1>9, ReturnInv
<1>10. CASE UNCHANGED vars
  <2>1. \A u \in Unit : Holders(u)' = Holders(u)
    BY <1>10 DEF vars, Holders, Holds
  <2>2. QED
    BY <1>10, <2>1 DEF vars, IInv, TypeOK, DetachedEmpty, OpenAttached, Ordered, CountExact,
                       ReleasedOnceUnheld, Bounded, NoReaderStranded
<1>11. QED
  BY <1>1, <1>2, <1>3, <1>4, <1>5, <1>6, <1>7, <1>8, <1>9, <1>10 DEF Next

\* The inductive invariant holds in every reachable state.
THEOREM QueueInvariant == Spec => []IInv
  BY InitInv, NextInv, PTL DEF Spec

\* The fields of BoundedMediaQueue keep their types.
THEOREM TypeCorrect == Spec => []TypeOK
  BY QueueInvariant, PTL DEF IInv

\* publish() and relinquish() return the credit of every unit exactly once,
\* when and only when no subscriber's slot holds the unit, however reads,
\* evictions, discards, detaches, ends and resumptions mix.
THEOREM ReleaseExactlyOnce == Spec => []ReleasedOnceUnheld
  BY QueueInvariant, PTL DEF IInv

\* publish() and add() keep every slot and the subscriber set within their
\* bounds, in both modes.
THEOREM SlotsBounded == Spec => []Bounded
  BY QueueInvariant, PTL DEF IInv

\* No pending next() is left behind by publish(), end(), resume() or finish().
THEOREM ReadersServed == Spec => []NoReaderStranded
  BY QueueInvariant, PTL DEF IInv

-----------------------------------------------------------------------------
\* What one step of the queue may do to a slot: nothing, hand the new unit to
\* its waiting reader, empty it, give its oldest entry to its reader, or queue
\* the new unit behind what is left after evictions, which only a live queue
\* makes.
Kept(s) == slot'[s].entries = slot[s].entries /\ taken'[s] = taken[s]
Handed(s) ==
  /\ published' = published + 1 /\ published + 1 \in Unit
  /\ slot[s].entries = << >> /\ slot'[s].entries = << >>
  /\ taken'[s] = Append(taken[s], published + 1)
Emptied(s) ==
  published' = published /\ slot'[s].entries = << >> /\ taken'[s] = taken[s]
Taken(s) ==
  /\ published' = published /\ slot[s].entries # << >>
  /\ slot'[s].entries = Tail(slot[s].entries)
  /\ taken'[s] = Append(taken[s], Head(slot[s].entries).id)
Queued(s) ==
  /\ published' = published + 1 /\ published + 1 \in Unit
  /\ \E k \in 0..Len(slot[s].entries), b \in Nat :
       /\ ~live => k = 0
       /\ slot'[s].entries = Pushed(slot[s].entries, k, published, b)
  /\ taken'[s] = taken[s]
SlotStep(s) == Kept(s) \/ Handed(s) \/ Emptied(s) \/ Taken(s) \/ Queued(s)

\* detach() of some slots empties them and leaves the others alone.
LEMMA DetachSteps ==
  ASSUME IInv, NEW STATE S, Detach(S), UNCHANGED <<published, taken>>
  PROVE  \A s \in Slot : SlotStep(s)
<1> SUFFICES ASSUME NEW s \in Slot PROVE SlotStep(s)
  OBVIOUS
<1>1. slot[s] \in SlotRecord
  BY DEF IInv, TypeOK
<1>2. slot'[s] = IF s \in S
                 THEN [slot[s] EXCEPT !.entries = << >>, !.ended = TRUE, !.pending = FALSE]
                 ELSE slot[s]
  BY DEF Detach
<1>3. slot'[s].entries = << >> \/ slot'[s].entries = slot[s].entries
  BY <1>1, <1>2 DEF SlotRecord
<1>4. QED
  BY <1>3 DEF SlotStep, Kept, Emptied

\* publish() hands the unit over, queues it or leaves the slot alone; it has
\* to evict nothing in recorded mode, since it throws at a slot without room.
LEMMA PublishSteps ==
  ASSUME IInv, NEW b \in Sizes, Publish(b) PROVE \A s \in Slot : SlotStep(s)
<1> DEFINE u == published + 1
           direct == {s \in Reached(b) : slot[s].pending}
           queued == {s \in Reached(b) \ direct : b <= MaxBytes}
<1>1. published < MaxPublish /\ published' = u /\ b \in Nat /\ u \in Unit
  <2>1. published \in 0..MaxPublish
    BY DEF IInv, TypeOK
  <2>2. QED
    BY <2>1, QueueAssumption DEF Publish, Unit
<1>2. CASE UNCHANGED <<slot, taken>>
  BY <1>2 DEF SlotStep, Kept
<1>3. ASSUME NEW cut \in [Slot -> 0..MaxUnits],
             \A s \in Slot : IF s \in queued THEN Evicts(s, b, cut[s]) ELSE cut[s] = 0,
             Fanout(u, b, direct, queued, cut), ~ended, ~draining
      PROVE  \A s \in Slot : SlotStep(s)
  <2> SUFFICES ASSUME NEW s \in Slot PROVE SlotStep(s)
    OBVIOUS
  <2>1. s \in Nat /\ slot[s].entries \in Seq(Entry) /\ Len(slot[s].entries) \in Nat
    <3>1. slot[s] \in SlotRecord
      BY DEF IInv, TypeOK
    <3>2. QED
      BY <3>1, QueueAssumption DEF SlotRecord, Slot
  <2>2. /\ slot'[s] = CASE s \in direct -> [slot[s] EXCEPT !.pending = FALSE]
                        [] s \in queued -> [slot[s] EXCEPT
                             !.entries = Append(Rest(s, cut[s]), [id |-> u, bytes |-> b])]
                        [] OTHER        -> slot[s]
        /\ taken'[s] = IF s \in direct THEN Append(taken[s], u) ELSE taken[s]
    BY <1>3 DEF Fanout
  <2>3. slot[s] \in SlotRecord
    BY DEF IInv, TypeOK
  <2>4. CASE s \in direct
    <3>1. slot[s].entries = << >>
      BY <2>4 DEF IInv, NoReaderStranded
    <3>2. slot'[s] = [slot[s] EXCEPT !.pending = FALSE] /\ taken'[s] = Append(taken[s], u)
      BY <2>2, <2>4
    <3>3. slot'[s].entries = << >>
      BY <2>3, <3>1, <3>2 DEF SlotRecord
    <3>4. QED
      BY <1>1, <3>1, <3>2, <3>3 DEF SlotStep, Handed
  <2>5. CASE s \in queued
    <3>1. s \notin direct /\ s \in Reached(b) /\ ~slot[s].pending
      BY <2>5
    <3>2. slot'[s] = [slot[s] EXCEPT
                        !.entries = Append(Rest(s, cut[s]), [id |-> u, bytes |-> b])]
          /\ taken'[s] = taken[s]
      BY <2>2, <2>5, <3>1
    <3>3. slot'[s].entries = Pushed(slot[s].entries, cut[s], published, b)
      BY <2>3, <3>2 DEF SlotRecord, Rest, Pushed
    <3>4. Evicts(s, b, cut[s]) /\ cut[s] \in Nat
      BY <1>3, <2>5, QueueAssumption
    <3>5. cut[s] \in 0..Len(slot[s].entries)
      BY <2>1, <3>4 DEF Evicts
    <3>6. ~live => cut[s] = 0
      <4>1. ~live => Fits(s, 0, b)
        BY <2>1, <3>1 DEF Reached, Blocked
      <4>2. cut[s] # 0 => ~Fits(s, 0, b)
        BY <3>4 DEF Evicts
      <4>3. QED
        BY <4>1, <4>2
    <3> HIDE DEF u
    <3>7. QED
      BY <1>1, <3>2, <3>3, <3>5, <3>6 DEF SlotStep, Queued, u
  <2>6. CASE s \notin direct /\ s \notin queued
    BY <2>2, <2>6 DEF SlotStep, Kept
  <2>7. QED
    BY <2>4, <2>5, <2>6
<1>4. QED
  BY <1>2, <1>3 DEF Publish

\* Every step of the queue is such a step of every slot, and it publishes one
\* unit or none.
LEMMA SlotSteps ==
  ASSUME IInv, [Next]_vars
  PROVE  /\ published' = published \/ (published' = published + 1 /\ published + 1 \in Unit)
         /\ \A s \in Slot : SlotStep(s)
<1> slot \in [Slot -> SlotRecord] /\ taken \in [Slot -> Seq(Unit)] /\ published \in 0..MaxPublish
  BY DEF IInv, TypeOK
<1>1. ASSUME NEW b \in Sizes, Publish(b)
      PROVE  /\ published' = published + 1 /\ published + 1 \in Unit
             /\ \A s \in Slot : SlotStep(s)
  <2>1. published' = published + 1 /\ published + 1 \in Unit
    BY <1>1, QueueAssumption DEF Publish, Unit
  <2>2. QED
    BY <1>1, <2>1, PublishSteps
<1>2. CASE Discard
  BY <1>2 DEF Discard, SlotStep, Kept, Emptied
<1>3. CASE End
  BY <1>3, DetachSteps DEF End
<1>4. CASE Resume
  BY <1>4, DetachSteps DEF Resume
<1>5. CASE Finish
  BY <1>5, DetachSteps DEF Finish
<1>6. CASE Subscribe
  <2>1. ASSUME NEW s \in Slot PROVE slot'[s].entries \in {slot[s].entries, << >>}
    <3>1. slot[s] \in SlotRecord
      OBVIOUS
    <3>2. CASE slot' = [slot EXCEPT ![initial].claimed = TRUE]
      BY <3>1, <3>2 DEF SlotRecord
    <3>3. CASE slot' = [slot EXCEPT ![slots + 1] =
                          [NewSlot(ended \/ draining) EXCEPT !.claimed = TRUE]]
      <4>1. slot'[s] \in {slot[s], [NewSlot(ended \/ draining) EXCEPT !.claimed = TRUE]}
        BY <3>3
      <4>2. QED
        BY <4>1 DEF NewSlot
    <3>4. QED
      BY <1>6, <3>2, <3>3 DEF Subscribe
  <2>2. published' = published /\ taken' = taken
    BY <1>6 DEF Subscribe
  <2>3. QED
    BY <2>1, <2>2 DEF SlotStep, Kept, Emptied
<1>7. ASSUME NEW s \in Slot, Read(s)
      PROVE  published' = published /\ \A t \in Slot : SlotStep(t)
  <2>1. /\ slot' = [slot EXCEPT ![s].entries = Tail(@)] /\ published' = published
        /\ taken' = [taken EXCEPT ![s] = Append(@, Head(slot[s].entries).id)]
        /\ slot[s].entries # << >>
    BY <1>7 DEF Read
  <2>2. Taken(s)
    BY <2>1 DEF Taken, SlotRecord
  <2>3. \A t \in Slot \ {s} : Kept(t)
    BY <2>1 DEF Kept
  <2>4. QED
    BY <2>1, <2>2, <2>3 DEF SlotStep
<1>8. ASSUME NEW s \in Slot, ReadEmpty(s)
      PROVE  published' = published /\ \A t \in Slot : SlotStep(t)
  <2>1. UNCHANGED <<published, taken>>
    BY <1>8 DEF ReadEmpty
  <2>2. CASE Detach({s})
    BY <2>1, <2>2, DetachSteps
  <2>3. CASE slot' = [slot EXCEPT ![s].pending = TRUE]
    BY <2>1, <2>3 DEF SlotStep, Kept, SlotRecord
  <2>4. QED
    BY <1>8, <2>1, <2>2, <2>3 DEF ReadEmpty
<1>9. ASSUME NEW s \in Slot, Return(s)
      PROVE  published' = published /\ \A t \in Slot : SlotStep(t)
  BY <1>9, DetachSteps DEF Return
<1>10. CASE UNCHANGED vars
  BY <1>10 DEF vars, SlotStep, Kept
<1>11. QED
  BY <1>1, <1>2, <1>3, <1>4, <1>5, <1>6, <1>7, <1>8, <1>9, <1>10 DEF Next

\* A queued unit is behind what is left of the older entries of its slot.
LEMMA QueuedPushed ==
  ASSUME IInv, NEW s \in Slot, Queued(s)
  PROVE  \E k \in 0..Len(slot[s].entries) :
           /\ ~live => k = 0
           /\ PushedOnto(slot'[s].entries, slot[s].entries, k, published)
<1>1. slot[s].entries \in Seq(Entry) /\ published \in Nat
  <2>1. slot[s] \in SlotRecord /\ published \in 0..MaxPublish
    BY DEF IInv, TypeOK
  <2>2. QED
    BY <2>1, QueueAssumption DEF SlotRecord
<1>2. OrderedUpTo(slot[s].entries, published)
  BY DEF IInv, Ordered, OrderedUpTo
<1>3. published + 1 \in Unit
  BY DEF Queued
<1>4. PICK k \in 0..Len(slot[s].entries), b \in Nat :
        /\ ~live => k = 0
        /\ slot'[s].entries = Pushed(slot[s].entries, k, published, b)
  BY DEF Queued
<1>5. PushedOnto(Pushed(slot[s].entries, k, published, b), slot[s].entries, k, published)
  BY <1>1, <1>2, <1>3, AppendRest
<1>6. QED
  BY <1>4, <1>5

\* A slot holds nothing new but the unit just published.
LEMMA HoldsStep ==
  ASSUME IInv, NEW s \in Slot, SlotStep(s), NEW u \in Unit, Holds(s, u)'
  PROVE  Holds(s, u) \/ (u = published + 1 /\ published' = published + 1)
<1> DEFINE e == slot[s].entries
<1>1. e \in Seq(Entry)
  BY DEF IInv, TypeOK, SlotRecord
<1>2. \E i \in 1..Len(slot'[s].entries) : slot'[s].entries[i].id = u
  BY DEF Holds
<1>3. CASE Kept(s)
  BY <1>2, <1>3 DEF Kept, Holds
<1>4. CASE slot'[s].entries = << >>
  BY <1>2, <1>4
<1>5. CASE Taken(s)
  <2>1. /\ e # << >> /\ slot'[s].entries = Tail(e)
    BY <1>5 DEF Taken
  <2>2. /\ Len(Tail(e)) = Len(e) - 1 /\ Len(e) \in Nat
        /\ \A i \in 1..Len(Tail(e)) : i + 1 \in 1..Len(e) /\ Tail(e)[i] = e[i + 1]
    BY <1>1, <2>1
  <2>3. QED
    BY <1>2, <2>1, <2>2 DEF Holds
<1>6. CASE Queued(s)
  <2>1. PICK k \in 0..Len(e) : PushedOnto(slot'[s].entries, e, k, published)
    BY <1>6, QueuedPushed
  <2>2. u = published + 1 \/ \E i \in 1..Len(e) : e[i].id = u
    BY <1>2, <2>1 DEF PushedOnto
  <2>3. published' = published + 1
    BY <1>6 DEF Queued
  <2>4. QED
    BY <2>2, <2>3 DEF Holds
<1>7. QED
  BY <1>3, <1>4, <1>5, <1>6 DEF SlotStep, Handed, Emptied

\* Of the units only the one just published may come to be held.
LEMMA HoldersStep ==
  ASSUME IInv, [Next]_vars, NEW u \in Unit, Holders(u)' # {}
  PROVE  Holders(u) # {} \/ (u = published + 1 /\ published' = published + 1)
<1>1. PICK s \in Slot : Holds(s, u)'
  BY DEF Holders
<1>2. Holds(s, u) \/ (u = published + 1 /\ published' = published + 1)
  BY <1>1, SlotSteps, HoldsStep
<1>3. QED
  BY <1>2 DEF Holders

\* A step of the queue is a step of the ledger: what the step publishes is
\* accepted, and what it leaves in no slot is given back.
LEMMA LedgerStep == IInv /\ IInv' /\ [Next]_vars => [Ledger!Move]_(Ledger!vars)
<1> SUFFICES ASSUME IInv, IInv', [Next]_vars PROVE Ledger!Move
  OBVIOUS
<1> DEFINE accepted == {u \in Unit : u = published + 1 /\ published' = published + 1}
           back == {u \in Unit : u <= published' /\ Holders(u)' = {} /\ released[u] = 0}
           heldNow == {u \in Unit : Holders(u) # {}}
           heldNext == {u \in Unit : Holders(u)' # {}}
<1>1. /\ published \in Nat /\ published' \in Nat /\ Unit \subseteq Nat
      /\ published' = published \/ published' = published + 1
  <2>1. published \in 0..MaxPublish /\ published' \in 0..MaxPublish
    BY DEF IInv, TypeOK
  <2>2. published' = published \/ published' = published + 1
    BY SlotSteps
  <2>3. QED
    BY <2>1, <2>2, QueueAssumption DEF Unit
<1>2. \A u \in Unit : /\ released[u] = IF u <= published /\ Holders(u) = {} THEN 1 ELSE 0
                      /\ Holders(u) # {} => u <= published
  BY HoldersPublished DEF IInv, ReleasedOnceUnheld
<1>3. \A u \in Unit : released'[u] = IF u <= published' /\ Holders(u)' = {} THEN 1 ELSE 0
  BY DEF IInv, ReleasedOnceUnheld
<1>4. \A u \in Unit : Holders(u)' # {} =>
        Holders(u) # {} \/ (u = published + 1 /\ published' = published + 1)
  BY HoldersStep
<1>5. released' \in [Unit -> Nat]
  BY DEF IInv, TypeOK
<1>6. Ledger!Fresh = {u \in Unit : u > published}
  <2>1. \A u \in Unit : (~(Holders(u) # {}) /\ released[u] = 0) <=> u > published
    BY <1>1, <1>2
  <2>2. QED
    BY <2>1 DEF Ledger!Fresh
<1>7. accepted \in SUBSET Ledger!Fresh /\ \A u, v \in accepted : u = v
  BY <1>1, <1>6
<1>8. back \subseteq heldNow \cup accepted
  <2> SUFFICES ASSUME NEW u \in Unit, u <= published', released[u] = 0, Holders(u) = {}
               PROVE  u = published + 1 /\ published' = published + 1
    OBVIOUS
  <2>1. ~(u <= published)
    BY <1>2
  <2>2. QED
    BY <1>1, <2>1
<1>9. back \in SUBSET (heldNow \cup Ledger!Fresh)
  <2> HIDE DEF back, accepted, heldNow
  <2> QED BY <1>7, <1>8
<1>10. heldNext = (heldNow \cup accepted) \ back
  <2> SUFFICES ASSUME NEW u \in Unit
               PROVE  Holders(u)' # {} <=>
                        /\ Holders(u) # {} \/ (u = published + 1 /\ published' = published + 1)
                        /\ ~(u <= published' /\ Holders(u)' = {} /\ released[u] = 0)
    OBVIOUS
  <2>1. u \in Nat
    BY <1>1
  <2>2. Holders(u) # {} \/ (u = published + 1 /\ published' = published + 1)
        => u <= published' /\ released[u] = 0
    BY <1>1, <1>2, <2>1
  <2>3. QED
    BY <1>4, <2>2
<1>11. \A u \in Unit : released'[u] = IF u \in back THEN released[u] + 1 ELSE released[u]
  <2> TAKE u \in Unit
  <2>1. u \in Nat
    BY <1>1
  <2>2. CASE u <= published' /\ Holders(u)' = {}
    BY <1>2, <1>3, <2>2
  <2>3. CASE ~(u <= published' /\ Holders(u)' = {})
    <3>1. released'[u] = 0
      BY <1>3, <2>3
    <3>2. released[u] = 0
      BY <1>1, <1>2, <1>4, <2>1, <2>3
    <3>3. QED
      BY <2>3, <3>1, <3>2
  <2>4. QED
    BY <2>2, <2>3
<1>12. released' = [u \in Unit |-> IF u \in back THEN released[u] + 1 ELSE released[u]]
  <2> HIDE DEF back
  <2> QED BY <1>5, <1>11
<1> HIDE DEF accepted, back
<1>13. QED
  BY <1>7, <1>8, <1>9, <1>10, <1>12 DEF Ledger!Move

\* The queue implements the ledger of its producer: whatever its slots, modes
\* and ends do, each unit is accepted once and given back once, when no slot
\* holds it any more.
THEOREM LedgerImplemented == Spec => LedgerSpec
<1>1. Init => Ledger!Init
  <2> SUFFICES ASSUME Init PROVE Ledger!Init
    OBVIOUS
  <2>1. \A u \in Unit : Holders(u) = {}
    BY DEF Init, Holders, Holds, NewSlot
  <2>2. QED
    BY <2>1 DEF Init, Ledger!Init
<1>2. QED
  BY <1>1, QueueInvariant, LedgerStep, PTL DEF Spec, LedgerSpec, Ledger!Spec

\* A recorded publish() keeps every unit that some slot holds.
LEMMA RecordedStep ==
  ASSUME IInv, [Next]_vars, ~live, published' # published,
         NEW s \in Slot, NEW u \in Unit, Holds(s, u)
  PROVE  Holds(s, u)'
<1> DEFINE e == slot[s].entries
<1>1. e \in Seq(Entry)
  BY DEF IInv, TypeOK, SlotRecord
<1>2. Kept(s) \/ Handed(s) \/ Queued(s)
  BY SlotSteps DEF SlotStep, Emptied, Taken
<1>3. CASE Kept(s)
  BY <1>3 DEF Kept, Holds
<1>4. CASE Handed(s)
  BY <1>4 DEF Handed, Holds
<1>5. CASE Queued(s)
  <2>1. PushedOnto(slot'[s].entries, e, 0, published)
    BY <1>5, QueuedPushed
  <2>2. ~(\E i \in 1..0 : e[i].id = u)
    OBVIOUS
  <2>3. QED
    BY <2>1, <2>2 DEF PushedOnto, Holds
<1>6. QED
  BY <1>2, <1>3, <1>4, <1>5

\* In recorded mode publish() never removes a unit that a reader has not had.
THEOREM RecordedNeverEvicts == Spec => RecordedKeepsUnits
<1>1. IInv /\ [Next]_vars =>
        [~live /\ published' # published =>
           \A s \in Slot, u \in Unit : Holds(s, u) => Holds(s, u)']_vars
  BY RecordedStep
<1>2. QED
  BY <1>1, QueueInvariant, PTL DEF Spec, RecordedKeepsUnits

-----------------------------------------------------------------------------
\* What a reader has received is in order, was published, and is older than
\* everything its slot still holds.
Received(t, p) ==
  /\ \A i \in 1..Len(t) : t[i] <= p
  /\ \A i, j \in 1..Len(t) : i < j => t[i] < t[j]
Behind(e, t) == \A i \in 1..Len(t), j \in 1..Len(e) : t[i] < e[j].id
HistoryKept == \A s \in Slot : Received(taken[s], published) /\ Behind(slot[s].entries, taken[s])

\* One more unit behind those received.
LEMMA ReceivedOneMore ==
  ASSUME NEW t \in Seq(Unit), NEW p \in Nat, NEW q \in Nat, Received(t, p), p <= q,
         NEW u \in Unit, u <= q, \A i \in 1..Len(t) : t[i] < u
  PROVE  /\ Received(Append(t, u), q)
         /\ Append(t, u) \in Seq(Unit) /\ Len(Append(t, u)) = Len(t) + 1
         /\ \A i \in 1..Len(Append(t, u)) :
              Append(t, u)[i] = u \/ \E j \in 1..Len(t) : Append(t, u)[i] = t[j]
<1> DEFINE n == Len(t)
           a == Append(t, u)
<1>1. n \in Nat /\ a \in Seq(Unit) /\ Len(a) = n + 1 /\ a[n + 1] = u /\ \A i \in 1..n : a[i] = t[i]
  OBVIOUS
<1>2. \A i \in 1..n : t[i] \in Nat /\ t[i] <= p /\ t[i] < u
  <2>1. \A i \in 1..n : t[i] \in Unit
    OBVIOUS
  <2>2. QED
    BY <2>1 DEF Received, Unit
<1>3. \A i, j \in 1..n : i < j => t[i] < t[j]
  BY DEF Received
<1> HIDE DEF n, a
<1>4. \A i \in 1..Len(a) : i \in 1..n \/ i = n + 1
  BY <1>1
<1>5. \A i \in 1..Len(a) : a[i] <= q
  BY <1>1, <1>2, <1>4
<1>6. ASSUME NEW i \in 1..Len(a), NEW j \in 1..Len(a), i < j PROVE a[i] < a[j]
  <2>1. i \in 1..n
    BY <1>1, <1>4, <1>6
  <2>2. CASE j \in 1..n
    BY <1>1, <1>3, <1>6, <2>1, <2>2
  <2>3. CASE j = n + 1
    BY <1>1, <1>2, <2>1, <2>3
  <2>4. QED
    BY <1>4, <2>2, <2>3
<1>7. \A i \in 1..Len(a) : a[i] = u \/ \E j \in 1..n : a[i] = t[j]
  BY <1>1, <1>4
<1>8. QED
  BY <1>1, <1>5, <1>6, <1>7 DEF Received, n, a

\* Every step keeps what readers received in order and ahead of their slots.
LEMMA HistoryStep == IInv /\ HistoryKept /\ [Next]_vars => HistoryKept'
<1> SUFFICES ASSUME IInv, HistoryKept, [Next]_vars, NEW s \in Slot
             PROVE  Received(taken[s], published)' /\ Behind(slot[s].entries, taken[s])'
  BY DEF HistoryKept
<1> DEFINE e == slot[s].entries
           t == taken[s]
<1>1. e \in Seq(Entry) /\ t \in Seq(Unit) /\ published \in Nat /\ Unit \subseteq Nat
      /\ published' \in Nat /\ published <= published'
  <2>1. slot[s] \in SlotRecord /\ t \in Seq(Unit) /\ published \in 0..MaxPublish
    BY DEF IInv, TypeOK
  <2>2. published' = published \/ published' = published + 1
    BY SlotSteps
  <2>3. QED
    BY <2>1, <2>2, QueueAssumption DEF SlotRecord, Unit
<1>2. Received(t, published) /\ Behind(e, t) /\ OrderedUpTo(e, published)
  BY DEF HistoryKept, IInv, Ordered, OrderedUpTo
<1>3. \A i \in 1..Len(t) : t[i] \in Nat
  <2> HIDE DEF t
  <2>1. \A i \in 1..Len(t) : t[i] \in Unit
    BY <1>1
  <2>2. QED
    BY <1>1, <2>1
<1>4. \A i \in 1..Len(e) : e[i] \in Entry /\ e[i].id \in Nat /\ e[i].id \in Unit
  <2>1. \A i \in 1..Len(e) : e[i] \in Entry
    BY <1>1
  <2>2. \A r \in Entry : r.id \in Unit
    BY DEF Entry
  <2>3. QED
    BY <1>1, <2>1, <2>2
<1> HIDE DEF e, t
<1>5. Received(t, published')
  BY <1>1, <1>2, <1>3 DEF Received
<1>6. CASE Kept(s)
  BY <1>2, <1>5, <1>6 DEF Kept, e, t
<1>7. CASE Handed(s)
  <2>1. published' = published + 1 /\ published + 1 \in Unit /\ taken'[s] = Append(t, published + 1)
        /\ slot'[s].entries = << >>
    BY <1>7 DEF Handed, t
  <2>2. \A i \in 1..Len(t) : t[i] < published + 1
    BY <1>1, <1>2, <1>3 DEF Received
  <2>3. Received(Append(t, published + 1), published + 1)
    <3>1. \A u \in Unit : u = published + 1 => Received(Append(t, u), published + 1)
      BY <1>1, <1>2, <2>1, <2>2, ReceivedOneMore
    <3>2. QED
      BY <2>1, <3>1
  <2>4. QED
    BY <2>1, <2>3 DEF Behind
<1>8. CASE Emptied(s)
  BY <1>5, <1>8 DEF Emptied, Behind, t
<1>9. CASE Taken(s)
  <2>1. /\ published' = published /\ e # << >> /\ slot'[s].entries = Tail(e)
        /\ taken'[s] = Append(t, Head(e).id)
    BY <1>9 DEF Taken, e, t
  <2>2. /\ 1 \in 1..Len(e) /\ Head(e) = e[1]
        /\ \A i \in 1..Len(Tail(e)) : i + 1 \in 1..Len(e) /\ 1 < i + 1 /\ Tail(e)[i] = e[i + 1]
    BY <1>1, <2>1
  <2>3. e[1].id \in Unit /\ e[1].id <= published' /\ \A i \in 1..Len(t) : t[i] < e[1].id
    BY <1>2, <1>4, <2>1, <2>2 DEF OrderedUpTo, Behind
  <2>4. /\ Received(Append(t, e[1].id), published')
        /\ \A i \in 1..Len(Append(t, e[1].id)) :
             \/ Append(t, e[1].id)[i] = e[1].id
             \/ \E j \in 1..Len(t) : Append(t, e[1].id)[i] = t[j]
    BY <1>1, <1>2, <2>3, ReceivedOneMore
  <2>5. \A i \in 1..Len(Tail(e)) : e[1].id < Tail(e)[i].id
    BY <1>2, <2>2 DEF OrderedUpTo
  <2>6. \A i \in 1..Len(t), j \in 1..Len(Tail(e)) : t[i] < Tail(e)[j].id
    BY <1>2, <2>2 DEF Behind
  <2>7. Behind(Tail(e), Append(t, e[1].id))
    BY <2>4, <2>5, <2>6 DEF Behind
  <2>8. QED
    BY <2>1, <2>2, <2>4, <2>7
<1>10. CASE Queued(s)
  <2>1. PICK k \in 0..Len(e) : PushedOnto(slot'[s].entries, e, k, published)
    BY <1>10, QueuedPushed DEF e
  <2> DEFINE q == slot'[s].entries
  <2>2. taken'[s] = t
    BY <1>10 DEF Queued, t
  <2>3. ASSUME NEW i \in 1..Len(t), NEW j \in 1..Len(q) PROVE t[i] < q[j].id
    <3>1. q \in Seq(Entry)
      BY <2>1 DEF PushedOnto
    <3>2. q[j].id \in Unit
      <4>1. q[j] \in Entry
        BY <3>1
      <4>2. QED
        BY <4>1 DEF Entry
    <3>3. q[j].id = published + 1 \/ \E l \in 1..Len(e) : e[l].id = q[j].id
      BY <2>1, <3>2 DEF PushedOnto
    <3>4. t[i] < published + 1
      BY <1>1, <1>2, <1>3 DEF Received
    <3>5. QED
      BY <1>2, <3>3, <3>4 DEF Behind
  <2>4. QED
    BY <1>5, <2>2, <2>3 DEF Behind
<1>11. SlotStep(s)
  BY SlotSteps
<1>12. QED
  BY <1>6, <1>7, <1>8, <1>9, <1>10, <1>11 DEF SlotStep

\* What is in order and ahead of its slot is in order together with it.
LEMMA HistoryOrdered == IInv /\ HistoryKept => InOrder
<1> SUFFICES ASSUME IInv, HistoryKept, NEW s \in Slot
             PROVE  LET whole == taken[s] \o [i \in 1..Len(slot[s].entries) |-> slot[s].entries[i].id]
                    IN \A i, j \in 1..Len(whole) : i < j => whole[i] < whole[j]
  BY DEF InOrder
<1> DEFINE e == slot[s].entries
           t == taken[s]
           ids == [i \in 1..Len(e) |-> e[i].id]
           whole == t \o ids
           n == Len(t)
<1>1. e \in Seq(Entry) /\ t \in Seq(Unit)
  BY DEF IInv, TypeOK, SlotRecord
<1>2. Received(t, published) /\ Behind(e, t) /\ OrderedUpTo(e, published)
  BY DEF HistoryKept, IInv, Ordered, OrderedUpTo
<1>3. ids \in Seq(Unit) /\ Len(ids) = Len(e) /\ Len(e) \in Nat /\ n \in Nat
  <2>1. Len(e) \in Nat /\ n \in Nat
    BY <1>1
  <2>2. \A i \in 1..Len(e) : e[i].id \in Unit
    <3>1. \A i \in 1..Len(e) : e[i] \in Entry
      BY <1>1
    <3>2. \A r \in Entry : r.id \in Unit
      BY DEF Entry
    <3>3. QED
      BY <3>1, <3>2
  <2> HIDE DEF e
  <2>3. ids \in [1..Len(e) -> Unit]
    BY <2>2
  <2>4. QED
    BY <2>1, <2>3
<1> HIDE DEF e, t
<1>4. \A i \in 1..Len(e) : ids[i] = e[i].id
  OBVIOUS
<1> HIDE DEF ids
<1>5. /\ Len(whole) = n + Len(e)
      /\ \A i \in 1..n : whole[i] = t[i]
      /\ \A i \in 1..Len(whole) : i > n => i - n \in 1..Len(e) /\ whole[i] = ids[i - n]
  BY SMTT(30), <1>1, <1>3
<1> HIDE DEF whole, n
<1>6. ASSUME NEW i \in 1..Len(whole), NEW j \in 1..Len(whole), i < j PROVE whole[i] < whole[j]
  <2>1. CASE j <= n
    <3>1. i \in 1..n /\ j \in 1..n
      BY <1>3, <1>6, <2>1
    <3>2. QED
      BY <1>2, <1>5, <1>6, <3>1 DEF Received, n
  <2>2. CASE i <= n /\ j > n
    <3>1. i \in 1..n /\ j - n \in 1..Len(e) /\ whole[j] = e[j - n].id /\ whole[i] = t[i]
      BY <1>3, <1>4, <1>5, <2>2
    <3>2. QED
      BY <1>2, <3>1 DEF Behind, n
  <2>3. CASE i > n
    <3>1. j > n /\ i - n < j - n
      BY <1>3, <1>5, <1>6, <2>3
    <3>2. i - n \in 1..Len(e) /\ j - n \in 1..Len(e)
          /\ whole[j] = ids[j - n] /\ whole[i] = ids[i - n]
      BY <1>5, <2>3, <3>1
    <3>3. whole[j] = e[j - n].id /\ whole[i] = e[i - n].id
      BY <1>4, <3>2
    <3>4. QED
      BY <1>2, <3>1, <3>2, <3>3 DEF OrderedUpTo
  <2>4. QED
    BY <1>3, <1>5, <2>1, <2>2, <2>3
<1>7. QED
  BY <1>6 DEF whole, ids, e, t

\* A reader gets the units in publication order and none of them twice, across
\* direct hand-overs, evictions, discards and detaches, and what is queued for
\* it continues that order.
THEOREM ReadersInOrder == Spec => []InOrder
<1>1. Init => HistoryKept
  <2> SUFFICES ASSUME Init, NEW s \in Slot
               PROVE  Received(taken[s], published) /\ Behind(slot[s].entries, taken[s])
    BY DEF HistoryKept
  <2>1. taken[s] = << >>
    BY DEF Init
  <2>2. QED
    BY <2>1 DEF Received, Behind
<1>2. QED
  BY <1>1, HistoryStep, HistoryOrdered, QueueInvariant, PTL DEF Spec

-----------------------------------------------------------------------------
\* A nonempty set of natural numbers has its least element.
LEMMA LeastExists ==
  ASSUME NEW T \in SUBSET Nat, T # {}
  PROVE  Min(T) \in T /\ \A y \in T : Min(T) <= y
<1>1. \E x \in T : \A y \in T : ~ (<<y, x>> \in OpToRel(<, Nat))
  BY NatLessThanWellFounded, WFMin, Zenon
<1>2. \E x \in T : \A y \in T : ~ (y < x)
  BY <1>1, Zenon DEF OpToRel
<1>3. \E x \in T : \A y \in T : x <= y
  BY <1>2
<1>4. QED
  BY <1>3 DEF Min

\* The sum of w over a finite set counts the pairs of a member and a natural number
\* below its value.
Units(w, S) == {p \in S \X Nat : p[2] < w[p[1]]}
Weight(w, S) == Cardinality(Units(w, S))

LEMMA UnitsFinite ==
  ASSUME NEW S, IsFiniteSet(S), NEW w \in [S -> Nat], NEW T \in SUBSET S
  PROVE  IsFiniteSet(Units(w, T))
<1> DEFINE own == [x \in T |-> {x} \X (0 .. w[x] - 1)]
           all == {own[x] : x \in T}
<1>1. IsFiniteSet(T)
  BY FS_Subset
<1>2. IsFiniteSet(all)
  <2>1. own \in Surjection(T, all)
    BY DEF Surjection
  <2>2. QED
    BY <1>1, <2>1, FS_Surjection
<1>3. \A U \in all : IsFiniteSet(U)
  <2> SUFFICES ASSUME NEW x \in T PROVE IsFiniteSet({x} \X (0 .. w[x] - 1))
    OBVIOUS
  <2>1. IsFiniteSet({x})
    BY FS_Singleton
  <2>2. IsFiniteSet(0 .. w[x] - 1)
    <3>1. w[x] - 1 \in Int
      OBVIOUS
    <3>2. QED
      BY <3>1, FS_Interval
  <2>3. QED
    BY <2>1, <2>2, FS_Product
<1>4. Units(w, T) \subseteq UNION all
  <2> SUFFICES ASSUME NEW p \in T \X Nat, p[2] < w[p[1]] PROVE p \in own[p[1]]
    BY DEF Units
  <2>1. p = <<p[1], p[2]>> /\ p[1] \in T /\ p[2] \in Nat /\ w[p[1]] \in Nat
    OBVIOUS
  <2>2. p[2] \in 0 .. w[p[1]] - 1
    BY <2>1
  <2>3. QED
    BY <2>1, <2>2
<1>5. QED
  <2> HIDE DEF all
  <2>1. IsFiniteSet(UNION all)
    BY <1>2, <1>3, FS_UNION
  <2>2. QED
    BY <1>4, <2>1, FS_Subset

LEMMA WeightStep ==
  ASSUME NEW S, IsFiniteSet(S), NEW w \in [S -> Nat], NEW T \in SUBSET S, NEW c \in T
  PROVE  Weight(w, T) = w[c] + Weight(w, T \ {c}) /\ Weight(w, T) \in Nat
<1> DEFINE A == Units(w, T \ {c})
           B == {c} \X (0 .. w[c] - 1)
<1>1. IsFiniteSet(A) /\ IsFiniteSet(Units(w, T))
  BY UnitsFinite
<1>2. IsFiniteSet(B) /\ Cardinality(B) = w[c]
  <2>1. w[c] \in Nat
    OBVIOUS
  <2>2. IsFiniteSet(0 .. w[c] - 1) /\ Cardinality(0 .. w[c] - 1) = w[c]
    <3>1. 0 \in Int /\ w[c] - 1 \in Int
      BY <2>1
    <3>2. Cardinality(0 .. w[c] - 1) = IF 0 > w[c] - 1 THEN 0 ELSE w[c] - 1 - 0 + 1
      BY <3>1, FS_Interval
    <3>3. QED
      BY <2>1, <3>1, <3>2, FS_Interval
  <2>3. IsFiniteSet({c}) /\ Cardinality({c}) = 1
    BY FS_Singleton
  <2>4. Cardinality(B) = 1 * w[c] /\ IsFiniteSet(B)
    BY <2>2, <2>3, FS_Product
  <2>5. QED
    BY <2>1, <2>4
<1>3. Units(w, T) = A \cup B
  <2>1. ASSUME NEW p \in Units(w, T) PROVE p \in A \cup B
    <3>1. p = <<p[1], p[2]>> /\ p[1] \in T /\ p[2] \in Nat /\ p[2] < w[p[1]] /\ w[p[1]] \in Nat
      BY DEF Units
    <3>2. CASE p[1] = c
      <4>1. p[2] \in 0 .. w[c] - 1
        BY <3>1, <3>2
      <4>2. QED
        BY <3>1, <3>2, <4>1
    <3>3. CASE p[1] # c
      <4>1. p \in (T \ {c}) \X Nat
        BY <3>1, <3>3
      <4>2. QED
        BY <3>1, <4>1 DEF Units
    <3>4. QED
      BY <3>2, <3>3
  <2>2. A \subseteq Units(w, T)
    BY DEF Units
  <2>3. B \subseteq Units(w, T)
    <3> SUFFICES ASSUME NEW n \in 0 .. w[c] - 1 PROVE <<c, n>> \in Units(w, T)
      OBVIOUS
    <3>1. n \in Nat /\ n < w[c]
      OBVIOUS
    <3>2. QED
      BY <3>1 DEF Units
  <2>4. QED
    BY <2>1, <2>2, <2>3
<1>4. A \cap B = {}
  BY DEF Units
<1>5. QED
  <2>0. Cardinality(A \cup B) = Cardinality(A) + Cardinality(B) - Cardinality(A \cap B)
    <3> HIDE DEF A, B
    <3>1. QED
      BY <1>1, <1>2, FS_Union
  <2>1. Cardinality(A \cap B) = 0
    BY <1>4, FS_EmptySet
  <2>2. Cardinality(A) \in Nat /\ w[c] \in Nat
    BY <1>1, FS_CardinalityType
  <2>3. Cardinality(Units(w, T)) = w[c] + Cardinality(A)
    BY <1>2, <1>3, <2>0, <2>1, <2>2
  <2>4. QED
    BY <2>2, <2>3 DEF Weight

\* Whatever adds up a finite set, member by member, computes its weight.
Adds(g, w, S) == g[{}] = 0 /\ \A T \in SUBSET S : T # {} => \E c \in T : g[T] = w[c] + g[T \ {c}]
LEMMA SumIsWeight ==
  ASSUME NEW S, IsFiniteSet(S), NEW w \in [S -> Nat], NEW g, Adds(g, w, S)
  PROVE  \A T \in SUBSET S : g[T] = Weight(w, T)
<1> DEFINE wrong == {T \in SUBSET S : g[T] # Weight(w, T)}
           sizes == {Cardinality(T) : T \in wrong}
<1>1. SUFFICES ASSUME wrong # {} PROVE FALSE
  OBVIOUS
<1>2. \A T \in SUBSET S : IsFiniteSet(T) /\ Cardinality(T) \in Nat
  BY FS_Subset, FS_CardinalityType
<1>3. PICK T \in wrong : \A U \in wrong : Cardinality(T) <= Cardinality(U)
  <2>1. sizes \in SUBSET Nat /\ sizes # {}
    BY <1>1, <1>2
  <2>2. Min(sizes) \in sizes /\ \A y \in sizes : Min(sizes) <= y
    <3> HIDE DEF sizes
    <3>1. QED
      BY <2>1, LeastExists
  <2>3. PICK T \in wrong : Cardinality(T) = Min(sizes)
    BY <2>2
  <2>4. \A U \in wrong : Cardinality(U) \in sizes
    OBVIOUS
  <2>5. QED
    <3> HIDE DEF wrong, sizes
    <3>1. QED
      BY <2>2, <2>3, <2>4
<1>4. T # {}
  <2>1. Units(w, {}) = {}
    BY DEF Units
  <2>2. Weight(w, {}) = 0
    BY <2>1, FS_EmptySet DEF Weight
  <2>3. g[T] # Weight(w, T)
    OBVIOUS
  <2>4. QED
    BY <2>2, <2>3 DEF Adds
<1>5. PICK c \in T : g[T] = w[c] + g[T \ {c}]
  BY <1>4 DEF Adds
<1>6. Cardinality(T \ {c}) = Cardinality(T) - 1 /\ Cardinality(T) \in Nat
  BY <1>2, FS_RemoveElement
<1>7. T \ {c} \notin wrong
  <2> HIDE DEF wrong
  <2>1. SUFFICES ASSUME T \ {c} \in wrong PROVE FALSE
    OBVIOUS
  <2>2. Cardinality(T) <= Cardinality(T \ {c})
    BY <1>3, <2>1
  <2>3. QED
    BY <1>6, <2>2
<1>8. g[T \ {c}] = Weight(w, T \ {c})
  BY <1>7
<1>9. Weight(w, T) = w[c] + Weight(w, T \ {c})
  BY WeightStep
<1>10. QED
  BY <1>5, <1>8, <1>9

LEMMA WeightUnion ==
  ASSUME NEW S, IsFiniteSet(S), NEW w \in [S -> Nat], NEW A \in SUBSET S, NEW B \in SUBSET S, A \cap B = {}
  PROVE  Weight(w, A \cup B) = Weight(w, A) + Weight(w, B) /\ Weight(w, A) \in Nat /\ Weight(w, B) \in Nat
<1>1. IsFiniteSet(Units(w, A)) /\ IsFiniteSet(Units(w, B))
  BY UnitsFinite
<1>2. Units(w, A \cup B) = Units(w, A) \cup Units(w, B) /\ Units(w, A) \cap Units(w, B) = {}
  BY DEF Units
<1>3. Cardinality(Units(w, A) \cup Units(w, B))
        = Cardinality(Units(w, A)) + Cardinality(Units(w, B)) - Cardinality(Units(w, A) \cap Units(w, B))
  BY <1>1, FS_Union
<1>4. Cardinality(Units(w, A) \cap Units(w, B)) = 0
  BY <1>2, FS_EmptySet
<1>5. Cardinality(Units(w, A)) \in Nat /\ Cardinality(Units(w, B)) \in Nat
  BY <1>1, FS_CardinalityType
<1>6. Cardinality(Units(w, A \cup B)) = Cardinality(Units(w, A)) + Cardinality(Units(w, B))
  <2>1. Cardinality(Units(w, A \cup B)) = Cardinality(Units(w, A) \cup Units(w, B))
    BY <1>2
  <2>2. QED
    BY <1>3, <1>4, <1>5, <2>1
<1>7. QED
  BY <1>5, <1>6 DEF Weight

LEMMA WeightAgrees ==
  ASSUME NEW w, NEW x, NEW T, \A c \in T : w[c] = x[c]
  PROVE  Weight(w, T) = Weight(x, T)
<1>1. Units(w, T) = Units(x, T)
  BY DEF Units
<1>2. QED
  BY <1>1 DEF Weight

\* The byte count of some entries is such a sum, and adds up along them.
SizeOf(e) == [i \in 1..Len(e) |-> e[i].bytes]

LEMMA SizeOfType ==
  ASSUME NEW e \in Seq(Entry)
  PROVE  /\ SizeOf(e) \in [1..Len(e) -> Nat] /\ \A i \in 1..Len(e) : SizeOf(e)[i] = e[i].bytes /\ e[i].bytes \in Nat
         /\ IsFiniteSet(1..Len(e)) /\ Len(e) \in Nat /\ DOMAIN e = 1..Len(e)
<1>1. Len(e) \in Nat /\ DOMAIN e = 1..Len(e) /\ \A i \in 1..Len(e) : e[i] \in Entry
  OBVIOUS
<1>2. \A i \in 1..Len(e) : e[i].bytes \in Nat
  BY <1>1 DEF Entry
<1>3. IsFiniteSet(1..Len(e))
  <2>1. 1 \in Int /\ Len(e) \in Int
    BY <1>1
  <2>2. QED
    BY <2>1, FS_Interval
<1>4. QED
  BY <1>1, <1>2, <1>3 DEF SizeOf

LEMMA BytesAre ==
  ASSUME NEW e \in Seq(Entry)
  PROVE  Bytes(e) = Weight(SizeOf(e), 1..Len(e)) /\ Bytes(e) \in Nat
<1>1. PICK w, T : w = SizeOf(e) /\ T = 1..Len(e)
  OBVIOUS
<1>2. w \in [T -> Nat] /\ (\A i \in T : w[i] = e[i].bytes) /\ IsFiniteSet(T) /\ DOMAIN e = T
  BY <1>1, SizeOfType
<1> DEFINE P(g) == g = [s \in SUBSET T |-> IF s = {} THEN 0
                          ELSE e[CHOOSE x \in s : TRUE].bytes + g[s \ {CHOOSE x \in s : TRUE}]]
<1>3. Bytes(e) = (CHOOSE g : P(g))[T]
  BY <1>2 DEF Bytes, MapThenFoldSet
<1>4. \E g : P(g)
  <2> DEFINE k == [s \in SUBSET T |-> Weight(w, s)]
  <2>1. ASSUME NEW s \in SUBSET T
        PROVE  k[s] = IF s = {} THEN 0 ELSE e[CHOOSE x \in s : TRUE].bytes + k[s \ {CHOOSE x \in s : TRUE}]
    <3>1. CASE s = {}
      <4>1. Units(w, {}) = {}
        BY DEF Units
      <4>2. Weight(w, {}) = 0
        BY <4>1, FS_EmptySet DEF Weight
      <4>3. QED
        BY <3>1, <4>2
    <3>2. CASE s # {}
      <4>1. PICK c \in s : c = CHOOSE x \in s : TRUE
        BY <3>2
      <4>2. Weight(w, s) = w[c] + Weight(w, s \ {c})
        BY <1>2, WeightStep
      <4>3. s \ {c} \in SUBSET T /\ e[c].bytes = w[c]
        BY <1>2
      <4>4. QED
        BY <3>2, <4>1, <4>2, <4>3
    <3>3. QED
      BY <3>1, <3>2
  <2>2. P(k)
    <3>1. k = [s \in SUBSET T |-> IF s = {} THEN 0
                 ELSE e[CHOOSE x \in s : TRUE].bytes + k[s \ {CHOOSE x \in s : TRUE}]]
      BY <2>1
    <3>2. QED
      BY <3>1
  <2>3. QED
    BY <2>2
<1>5. PICK g : P(g) /\ g = CHOOSE h : P(h)
  BY <1>4
<1>6. Adds(g, w, T)
  <2>1. \A s \in SUBSET T : g[s] = IF s = {} THEN 0 ELSE e[CHOOSE x \in s : TRUE].bytes + g[s \ {CHOOSE x \in s : TRUE}]
    BY <1>5
  <2>2. ASSUME NEW s \in SUBSET T, s # {} PROVE \E c \in s : g[s] = w[c] + g[s \ {c}]
    <3>1. PICK c \in s : c = CHOOSE x \in s : TRUE
      BY <2>2
    <3>2. g[s] = e[c].bytes + g[s \ {c}]
      BY <2>1, <2>2, <3>1
    <3>3. QED
      BY <1>2, <3>2
  <2>3. {} \in SUBSET T
    OBVIOUS
  <2>4. QED
    BY <2>1, <2>2, <2>3 DEF Adds
<1>7. T \in SUBSET T
  OBVIOUS
<1>8. \A s \in SUBSET T : g[s] = Weight(w, s)
  BY <1>2, <1>6, SumIsWeight
<1>9. g[T] = Weight(w, T)
  BY <1>7, <1>8
<1>10. Weight(w, T) \in Nat
  BY <1>2, WeightUnion, T \cap {} = {}
<1>11. QED
  BY <1>1, <1>3, <1>5, <1>9, <1>10

\* A sum does not depend on where the members are.
LEMMA WeightShifted ==
  ASSUME NEW n \in Nat, NEW k \in 0..n, NEW w \in [1..n -> Nat], NEW v \in [1..(n - k) -> Nat],
         \A i \in 1..(n - k) : v[i] = w[i + k]
  PROVE  Weight(v, 1..(n - k)) = Weight(w, (k + 1)..n)
<1>1. PICK A : A = 1..(n - k)
  OBVIOUS
<1>2. PICK B : B = (k + 1)..n
  OBVIOUS
<1>3. IsFiniteSet(A) /\ IsFiniteSet(1..n) /\ B \in SUBSET (1..n)
  <2>1. 1 \in Int /\ n \in Int /\ n - k \in Int
    OBVIOUS
  <2>2. QED
    BY <1>1, <1>2, <2>1, FS_Interval
<1>4. IsFiniteSet(Units(v, A)) /\ IsFiniteSet(Units(w, B))
  BY <1>1, <1>3, UnitsFinite
<1>5. PICK f : f = [p \in Units(v, A) |-> <<p[1] + k, p[2]>>]
  OBVIOUS
<1>6. \A p \in Units(v, A) : /\ p = <<p[1], p[2]>> /\ p[1] \in A /\ p[1] \in Int /\ p[2] \in Nat
                             /\ p[1] + k \in B /\ f[p] = <<p[1] + k, p[2]>> /\ p[2] < w[p[1] + k]
  <2>1. TAKE p \in Units(v, A)
  <2>2. p = <<p[1], p[2]>> /\ p[1] \in A /\ p[2] \in Nat /\ p[2] < v[p[1]] /\ f[p] = <<p[1] + k, p[2]>>
    BY <1>5 DEF Units
  <2>3. p[1] + k \in B /\ p[1] \in Int /\ v[p[1]] = w[p[1] + k]
    BY <1>1, <1>2, <2>2
  <2>4. QED
    BY <2>2, <2>3
<1>7. f \in [Units(v, A) -> Units(w, B)]
  BY <1>5, <1>6 DEF Units
<1>8. \A p, q \in Units(v, A) : f[p] = f[q] => p = q
  <2>1. TAKE p, q \in Units(v, A)
  <2>2. HAVE f[p] = f[q]
  <2>3. p[1] + k = q[1] + k /\ p[2] = q[2]
    BY <1>6, <2>2
  <2>4. p[1] = q[1]
    BY <1>6, <2>3
  <2>5. QED
    BY <1>6, <2>3, <2>4
<1>9. \A q \in Units(w, B) : \E p \in Units(v, A) : f[p] = q
  <2>1. TAKE q \in Units(w, B)
  <2>2. q = <<q[1], q[2]>> /\ q[1] \in B /\ q[2] \in Nat /\ q[2] < w[q[1]]
    BY DEF Units
  <2>3. q[1] - k \in A /\ (q[1] - k) + k = q[1]
    BY <1>1, <1>2, <2>2
  <2>4. v[q[1] - k] = w[q[1]]
    BY <1>1, <2>3
  <2>5. PICK p : p = <<q[1] - k, q[2]>>
    OBVIOUS
  <2>6. p[1] = q[1] - k /\ p[2] = q[2]
    BY <2>5
  <2>7. p \in Units(v, A)
    BY <2>2, <2>3, <2>4, <2>5, <2>6 DEF Units
  <2>8. f[p] = <<(q[1] - k) + k, q[2]>>
    BY <1>6, <2>6, <2>7
  <2>9. QED
    BY <2>2, <2>3, <2>7, <2>8
<1>10. f \in Bijection(Units(v, A), Units(w, B))
  BY <1>7, <1>8, <1>9 DEF Bijection, Injection, Surjection, IsInjective
<1>11. Cardinality(Units(v, A)) = Cardinality(Units(w, B))
  <2>1. ExistsBijection(Units(v, A), Units(w, B))
    BY <1>10 DEF ExistsBijection
  <2>2. QED
    BY <1>4, <2>1, FS_Bijection
<1>12. QED
  BY <1>1, <1>2, <1>11 DEF Weight

\* The entries of a slot weigh what its k oldest and the others do.
LEMMA BytesSplit ==
  ASSUME NEW e \in Seq(Entry), NEW k \in 0..Len(e)
  PROVE  Bytes(e) = Bytes(SubSeq(e, 1, k)) + Bytes(SubSeq(e, k + 1, Len(e)))
<1>1. PICK n \in Nat : n = Len(e)
  OBVIOUS
<1>2. PICK a, b : a = SubSeq(e, 1, k) /\ b = SubSeq(e, k + 1, n)
  OBVIOUS
<1>3. k \in Nat /\ k <= n /\ \A i \in 1..n : e[i] \in Entry
  BY <1>1
<1>4. a \in Seq(Entry) /\ Len(a) = k /\ \A i \in 1..k : a[i] = e[i]
  <2>1. \A i \in 1..k : e[i] \in Entry
    BY <1>3
  <2>2. /\ a \in Seq(Entry) /\ Len(a) = IF 1 <= k THEN k - 1 + 1 ELSE 0
        /\ \A i \in 1..(k - 1 + 1) : a[i] = e[1 + i - 1]
    BY <1>2, <1>3, <2>1, SubSeqProperties
  <2>3. QED
    BY <1>3, <2>2
<1>5. b \in Seq(Entry) /\ Len(b) = n - k /\ \A i \in 1..(n - k) : b[i] = e[i + k]
  <2>1. k + 1 \in Int /\ n \in Int /\ \A i \in (k + 1)..n : e[i] \in Entry
    BY <1>3
  <2>2. /\ b \in Seq(Entry) /\ Len(b) = IF k + 1 <= n THEN n - (k + 1) + 1 ELSE 0
        /\ \A i \in 1..(n - (k + 1) + 1) : b[i] = e[k + 1 + i - 1]
    BY <1>2, <2>1, SubSeqProperties
  <2>3. Len(b) = n - k
    BY <1>3, <2>2
  <2>4. ASSUME NEW i \in 1..(n - k) PROVE b[i] = e[i + k]
    <3>1. i \in 1..(n - (k + 1) + 1) /\ k + 1 + i - 1 = i + k
      BY <1>3
    <3>2. QED
      BY <2>2, <3>1
  <2>5. QED
    BY <2>2, <2>3, <2>4
<1>6. PICK w : w = SizeOf(e)
  OBVIOUS
<1>7. w \in [1..n -> Nat] /\ (\A i \in 1..n : w[i] = e[i].bytes) /\ IsFiniteSet(1..n) /\ Bytes(e) = Weight(w, 1..n)
  BY <1>1, <1>6, SizeOfType, BytesAre
<1>8. Bytes(a) = Weight(w, 1..k)
  <2>1. PICK x : x = SizeOf(a)
    OBVIOUS
  <2>2. (\A i \in 1..k : x[i] = a[i].bytes) /\ Bytes(a) = Weight(x, 1..k)
    BY <1>4, <2>1, SizeOfType, BytesAre
  <2>3. \A i \in 1..k : x[i] = w[i]
    BY <1>3, <1>4, <1>7, <2>2
  <2>4. QED
    BY <2>2, <2>3, WeightAgrees
<1>9. Bytes(b) = Weight(w, (k + 1)..n)
  <2>1. PICK x : x = SizeOf(b)
    OBVIOUS
  <2>2. x \in [1..(n - k) -> Nat] /\ (\A i \in 1..(n - k) : x[i] = b[i].bytes) /\ Bytes(b) = Weight(x, 1..(n - k))
    BY <1>5, <2>1, SizeOfType, BytesAre
  <2>3. \A i \in 1..(n - k) : x[i] = w[i + k]
    <3>1. \A i \in 1..(n - k) : i + k \in 1..n
      BY <1>3
    <3>2. QED
      BY <1>5, <1>7, <2>2, <3>1
  <2>4. k \in 0..n
    BY <1>3
  <2>5. QED
    BY <1>7, <2>2, <2>3, <2>4, WeightShifted
<1>10. PICK A, B, T : A = 1..k /\ B = (k + 1)..n /\ T = 1..n
  OBVIOUS
<1>11. A \cup B = T /\ A \cap B = {} /\ A \in SUBSET T /\ B \in SUBSET T
  BY <1>3, <1>10
<1>12. Weight(w, A \cup B) = Weight(w, A) + Weight(w, B)
  <2>1. IsFiniteSet(T) /\ w \in [T -> Nat]
    BY <1>7, <1>10
  <2>2. QED
    BY <1>11, <2>1, WeightUnion
<1>13. QED
  BY <1>1, <1>2, <1>7, <1>8, <1>9, <1>10, <1>11, <1>12

LEMMA BytesEmpty == Bytes(<< >>) = 0
<1>0. << >> \in Seq(Entry) /\ Len(<< >>) = 0
  OBVIOUS
<1>1. PICK e \in Seq(Entry) : e = << >> /\ Len(e) = 0
  BY <1>0
<1>2. PICK w : w = SizeOf(e)
  OBVIOUS
<1>3. Bytes(e) = Weight(w, 1..0)
  BY <1>1, <1>2, BytesAre
<1>4. Units(w, 1..0) = {}
  BY DEF Units
<1>5. Weight(w, 1..0) = 0
  BY <1>4, FS_EmptySet DEF Weight
<1>6. QED
  BY <1>1, <1>3, <1>5

LEMMA BytesAppend ==
  ASSUME NEW e \in Seq(Entry), NEW x \in Entry
  PROVE  Bytes(Append(e, x)) = Bytes(e) + x.bytes
<1>1. PICK n \in Nat : n = Len(e)
  OBVIOUS
<1>2. PICK t : t = Append(e, x)
  OBVIOUS
<1>3. t \in Seq(Entry) /\ Len(t) = n + 1 /\ t[n + 1] = x /\ \A i \in 1..n : t[i] = e[i]
  BY <1>1, <1>2, AppendProperties
<1>4. PICK w, v : w = SizeOf(t) /\ v = SizeOf(e)
  OBVIOUS
<1>5. /\ w \in [1..(n + 1) -> Nat] /\ (\A i \in 1..(n + 1) : w[i] = t[i].bytes)
      /\ IsFiniteSet(1..(n + 1)) /\ Bytes(t) = Weight(w, 1..(n + 1))
  BY <1>3, <1>4, SizeOfType, BytesAre
<1>6. (\A i \in 1..n : v[i] = e[i].bytes) /\ Bytes(e) = Weight(v, 1..n)
  BY <1>1, <1>4, SizeOfType, BytesAre
<1>7. Weight(w, 1..(n + 1)) = w[n + 1] + Weight(w, (1..(n + 1)) \ {n + 1})
  BY <1>5, WeightStep, n + 1 \in 1..(n + 1), (1..(n + 1)) \in SUBSET (1..(n + 1))
<1>8. (1..(n + 1)) \ {n + 1} = 1..n
  OBVIOUS
<1>9. Weight(w, 1..n) = Weight(v, 1..n)
  <2>1. \A i \in 1..n : w[i] = v[i]
    BY <1>3, <1>5, <1>6
  <2>2. QED
    BY <2>1, WeightAgrees
<1>10. w[n + 1] = x.bytes /\ x.bytes \in Nat
  <2>1. n + 1 \in 1..(n + 1)
    OBVIOUS
  <2>2. w[n + 1] = t[n + 1].bytes
    BY <1>5, <2>1
  <2>3. QED
    BY <1>3, <2>2 DEF Entry
<1>11. Bytes(e) \in Nat
  BY BytesAre
<1>12. Weight(w, 1..(n + 1)) = w[n + 1] + Weight(w, 1..n)
  BY <1>7, <1>8
<1>13. Bytes(t) = x.bytes + Bytes(e)
  BY <1>5, <1>6, <1>9, <1>10, <1>12
<1>14. QED
  BY <1>2, <1>10, <1>11, <1>13

\* What a step may do to a slot and to its count: nothing, empty both, take the oldest
\* entry off both, or take the k oldest off and put one entry on.
Weighed(s) == slot'[s].entries = slot[s].entries /\ bytes'[s] = bytes[s]
Cleared(s) == slot'[s].entries = << >> /\ bytes'[s] = 0
Lightened(s) ==
  /\ slot[s].entries # << >> /\ slot'[s].entries = Tail(slot[s].entries)
  /\ bytes'[s] = bytes[s] - Head(slot[s].entries).bytes
Loaded(s) ==
  \E k \in 0..Len(slot[s].entries), x \in Entry :
    /\ slot'[s].entries = Append(Rest(s, k), x)
    /\ bytes'[s] = RestBytes(s, k) + x.bytes /\ bytes'[s] <= MaxBytes
WeightMove(s) == Weighed(s) \/ Cleared(s) \/ Lightened(s) \/ Loaded(s)

\* The count of a slot, as removeEntry() and the push of publish() keep it.
BytesInv == bytes \in [Slot -> Nat] /\ BytesExact

\* Every such step keeps the count exact.
LEMMA MoveExact ==
  ASSUME IInv, BytesInv, NEW s \in Slot, WeightMove(s)
  PROVE  bytes'[s] = Bytes(slot'[s].entries) /\ bytes'[s] \in Nat /\ bytes'[s] <= MaxBytes
<1>1. PICK e : e = slot[s].entries
  OBVIOUS
<1>2. e \in Seq(Entry) /\ Len(e) \in Nat
  <2>1. slot[s] \in SlotRecord
    BY DEF IInv, TypeOK
  <2>2. e \in Seq(Entry)
    BY <1>1, <2>1 DEF SlotRecord
  <2>3. QED
    BY <2>2
<1>3. bytes[s] = Bytes(e) /\ bytes[s] \in Nat /\ bytes[s] <= MaxBytes /\ MaxBytes \in Nat
  BY <1>1, QueueAssumption DEF BytesInv, BytesExact
<1>4. CASE Weighed(s)
  BY <1>1, <1>3, <1>4 DEF Weighed
<1>5. CASE Cleared(s)
  BY <1>3, <1>5, BytesEmpty DEF Cleared
<1>6. CASE Lightened(s)
  <2>1. e # << >> /\ slot'[s].entries = Tail(e) /\ bytes'[s] = bytes[s] - Head(e).bytes
    BY <1>1, <1>6 DEF Lightened
  <2>2. Len(e) >= 1 /\ 1 \in 0..Len(e) /\ e[1] \in Entry /\ Head(e) = e[1]
    BY <1>2, <2>1
  <2>3. Tail(e) = SubSeq(e, 2, Len(e)) /\ Tail(e) \in Seq(Entry)
    BY <1>2, <2>1
  <2>4. PICK d, z : d = SubSeq(e, 1, 1) /\ z = << >>
    OBVIOUS
  <2>5. Bytes(d) = e[1].bytes /\ e[1].bytes \in Nat
    <3>1. z \in Seq(Entry) /\ Len(z) = 0
      BY <2>4
    <3>2. d \in Seq(Entry) /\ Len(d) = 1 /\ d[1] = e[1]
      BY <1>2, <2>2, <2>4
    <3>3. PICK g : g = Append(z, e[1])
      OBVIOUS
    <3>4. g \in Seq(Entry) /\ Len(g) = 1 /\ g[1] = e[1]
      BY <2>2, <3>1, <3>3, AppendProperties
    <3>5. d = g
      BY <3>2, <3>4
    <3>6. Bytes(g) = Bytes(z) + e[1].bytes
      BY <2>2, <3>1, <3>3, BytesAppend
    <3>7. e[1].bytes \in Nat
      BY <2>2 DEF Entry
    <3>8. Bytes(z) = 0
      BY <2>4, BytesEmpty
    <3>9. QED
      BY <3>5, <3>6, <3>7, <3>8
  <2>6. PICK r : r = Tail(e)
    OBVIOUS
  <2>7. Bytes(e) = Bytes(d) + Bytes(r)
    <3>1. Bytes(e) = Bytes(SubSeq(e, 1, 1)) + Bytes(SubSeq(e, 1 + 1, Len(e)))
      BY <1>2, <2>2, BytesSplit
    <3>2. 1 + 1 = 2
      OBVIOUS
    <3>3. QED
      BY <2>3, <2>4, <2>6, <3>1, <3>2
  <2>8. Bytes(r) \in Nat
    BY <2>3, <2>6, BytesAre
  <2>9. QED
    BY <1>3, <2>1, <2>2, <2>5, <2>6, <2>7, <2>8
<1>7. CASE Loaded(s)
  <2>1. PICK k \in 0..Len(e), x \in Entry :
          /\ slot'[s].entries = Append(SubSeq(e, k + 1, Len(e)), x)
          /\ bytes'[s] = bytes[s] - Bytes(SubSeq(e, 1, k)) + x.bytes /\ bytes'[s] <= MaxBytes
    BY <1>1, <1>7 DEF Loaded, Rest, RestBytes
  <2>2. PICK a, b : a = SubSeq(e, 1, k) /\ b = SubSeq(e, k + 1, Len(e))
    OBVIOUS
  <2>3. a \in Seq(Entry) /\ b \in Seq(Entry)
    BY <1>2, <2>2
  <2>4. Bytes(e) = Bytes(a) + Bytes(b)
    BY <1>2, <2>2, BytesSplit
  <2>5. Bytes(a) \in Nat /\ Bytes(b) \in Nat /\ x.bytes \in Nat
    BY <2>3, BytesAre DEF Entry
  <2>6. Bytes(Append(b, x)) = Bytes(b) + x.bytes
    BY <2>3, BytesAppend
  <2>7. bytes'[s] = Bytes(b) + x.bytes
    BY <1>3, <2>1, <2>2, <2>4, <2>5
  <2>8. QED
    BY <2>1, <2>2, <2>5, <2>6, <2>7
<1>8. QED
  BY <1>4, <1>5, <1>6, <1>7 DEF WeightMove

\* detach() and discard() clear some slots and leave the others alone.
LEMMA DetachMoves ==
  ASSUME IInv, BytesInv, NEW STATE S, Detach(S)
  PROVE  bytes' = [s \in Slot |-> bytes'[s]] /\ \A s \in Slot : WeightMove(s)
<1>1. bytes' = [s \in Slot |-> IF s \in S THEN 0 ELSE bytes[s]]
  BY DEF Detach
<1>2. ASSUME NEW s \in Slot PROVE WeightMove(s)
  <2>1. slot[s] \in SlotRecord
    BY DEF IInv, TypeOK
  <2>2. slot'[s] = IF s \in S
                   THEN [slot[s] EXCEPT !.entries = << >>, !.ended = TRUE, !.pending = FALSE]
                   ELSE slot[s]
    BY DEF Detach
  <2>3. bytes'[s] = IF s \in S THEN 0 ELSE bytes[s]
    BY <1>1
  <2>4. CASE s \in S
    <3>1. slot'[s].entries = << >>
      BY <2>1, <2>2, <2>4 DEF SlotRecord
    <3>2. QED
      BY <2>3, <2>4, <3>1 DEF WeightMove, Cleared
  <2>5. CASE s \notin S
    BY <2>2, <2>3, <2>5 DEF WeightMove, Weighed
  <2>6. QED
    BY <2>4, <2>5
<1>3. QED
  BY <1>1, <1>2

LEMMA PublishMoves ==
  ASSUME IInv, BytesInv, NEW b \in Sizes, Publish(b)
  PROVE  bytes' = [s \in Slot |-> bytes'[s]] /\ \A s \in Slot : WeightMove(s)
<1> DEFINE u == published + 1
           direct == {s \in Reached(b) : slot[s].pending}
           queued == {s \in Reached(b) \ direct : b <= MaxBytes}
<1>1. b \in Nat /\ u \in Unit
  <2>1. published \in 0..MaxPublish /\ published < MaxPublish
    BY DEF IInv, TypeOK, Publish
  <2>2. QED
    BY <2>1, QueueAssumption DEF Unit
<1>2. CASE UNCHANGED <<slot, bytes>>
  BY <1>2 DEF WeightMove, Weighed, BytesInv
<1>3. ASSUME NEW cut \in [Slot -> 0..MaxUnits],
             \A s \in Slot : IF s \in queued THEN Evicts(s, b, cut[s]) ELSE cut[s] = 0,
             Fanout(u, b, direct, queued, cut)
      PROVE  bytes' = [s \in Slot |-> bytes'[s]] /\ \A s \in Slot : WeightMove(s)
  <2>1. bytes' = [s \in Slot |-> IF s \in queued THEN RestBytes(s, cut[s]) + b ELSE bytes[s]]
    BY <1>3 DEF Fanout
  <2>2. ASSUME NEW s \in Slot PROVE WeightMove(s)
    <3>1. slot[s] \in SlotRecord /\ slot[s].entries \in Seq(Entry) /\ Len(slot[s].entries) \in Nat
      <4>1. slot[s] \in SlotRecord
        BY DEF IInv, TypeOK
      <4>2. QED
        BY <4>1 DEF SlotRecord
    <3>2. slot'[s] = CASE s \in direct -> [slot[s] EXCEPT !.pending = FALSE]
                       [] s \in queued -> [slot[s] EXCEPT
                            !.entries = Append(Rest(s, cut[s]), [id |-> u, bytes |-> b])]
                       [] OTHER        -> slot[s]
      BY <1>3 DEF Fanout
    <3>3. bytes'[s] = IF s \in queued THEN RestBytes(s, cut[s]) + b ELSE bytes[s]
      BY <2>1
    <3>4. CASE s \in queued
      <4>1. s \notin direct
        BY <3>4
      <4>2. PICK x \in Entry : x = [id |-> u, bytes |-> b] /\ x.bytes = b
        <5>1. [id |-> u, bytes |-> b] \in Entry
          BY <1>1 DEF Entry
        <5>2. QED
          BY <5>1
      <4>3. slot'[s].entries = Append(Rest(s, cut[s]), x)
        BY <3>1, <3>2, <3>4, <4>1, <4>2 DEF SlotRecord
      <4>4. Evicts(s, b, cut[s]) /\ cut[s] \in Nat
        BY <1>3, <3>4, QueueAssumption
      <4>5. cut[s] \in 0..Len(slot[s].entries) /\ RestBytes(s, cut[s]) + b <= MaxBytes
        BY <3>1, <4>4 DEF Evicts, Fits
      <4>6. bytes'[s] = RestBytes(s, cut[s]) + x.bytes /\ bytes'[s] <= MaxBytes
        BY <3>3, <3>4, <4>2, <4>5
      <4>7. QED
        BY <4>3, <4>5, <4>6 DEF WeightMove, Loaded
    <3>5. CASE s \in direct
      BY <3>1, <3>2, <3>3, <3>5 DEF WeightMove, Weighed, SlotRecord
    <3>6. CASE s \notin direct /\ s \notin queued
      BY <3>2, <3>3, <3>6 DEF WeightMove, Weighed
    <3>7. QED
      BY <3>4, <3>5, <3>6
  <2>3. QED
    BY <2>1, <2>2
<1>4. QED
  BY <1>2, <1>3 DEF Publish

LEMMA QueueMoves ==
  ASSUME IInv, BytesInv, [Next]_vars
  PROVE  bytes' = [s \in Slot |-> bytes'[s]] /\ \A s \in Slot : WeightMove(s)
<1> DEFINE Goal == bytes' = [s \in Slot |-> bytes'[s]] /\ \A s \in Slot : WeightMove(s)
<1> slot \in [Slot -> SlotRecord] /\ bytes \in [Slot -> Nat]
  BY DEF IInv, TypeOK, BytesInv
<1>1. ASSUME NEW b \in Sizes, Publish(b) PROVE Goal
  BY <1>1, PublishMoves
<1>2. CASE Discard
  <2>1. bytes' = [s \in Slot |-> IF s \in subscribers THEN 0 ELSE bytes[s]]
    BY <1>2 DEF Discard
  <2>2. ASSUME NEW s \in Slot PROVE WeightMove(s)
    <3>1. slot[s] \in SlotRecord
      OBVIOUS
    <3>2. slot'[s] = IF s \in subscribers THEN [slot[s] EXCEPT !.entries = << >>] ELSE slot[s]
      BY <1>2 DEF Discard
    <3>3. bytes'[s] = IF s \in subscribers THEN 0 ELSE bytes[s]
      BY <2>1
    <3>4. QED
      BY <3>1, <3>2, <3>3 DEF WeightMove, Weighed, Cleared, SlotRecord
  <2>3. QED
    BY <2>1, <2>2
<1>3. CASE End \/ Resume \/ Finish
  BY <1>3, DetachMoves DEF End, Resume, Finish
<1>4. CASE Subscribe
  <2>1. bytes' = bytes
    BY <1>4 DEF Subscribe
  <2>2. ASSUME NEW s \in Slot PROVE slot'[s].entries = slot[s].entries
    <3>1. slot[s] \in SlotRecord
      OBVIOUS
    <3>2. CASE slot' = [slot EXCEPT ![initial].claimed = TRUE]
      BY <3>1, <3>2 DEF SlotRecord
    <3>3. CASE slot' = [slot EXCEPT ![slots + 1] =
                          [NewSlot(ended \/ draining) EXCEPT !.claimed = TRUE]]
      <4>1. CASE s = slots + 1
        <5>1. s \notin subscribers
          <6>1. subscribers \in SUBSET (1..slots) /\ slots \in Nat
            BY QueueAssumption DEF IInv, TypeOK, Slot
          <6>2. QED
            BY <4>1, <6>1
        <5>2. slot[s].entries = << >>
          BY <5>1 DEF IInv, DetachedEmpty
        <5>3. slot'[s] = [NewSlot(ended \/ draining) EXCEPT !.claimed = TRUE]
          BY <3>3, <4>1
        <5>4. slot'[s].entries = << >>
          BY <5>3 DEF NewSlot
        <5>5. QED
          BY <5>2, <5>4
      <4>2. CASE s # slots + 1
        BY <3>3, <4>2
      <4>3. QED
        BY <4>1, <4>2
    <3>4. QED
      BY <1>4, <3>2, <3>3 DEF Subscribe
  <2>3. QED
    BY <2>1, <2>2 DEF WeightMove, Weighed
<1>5. ASSUME NEW s \in Slot, Read(s) PROVE Goal
  <2>1. /\ slot' = [slot EXCEPT ![s].entries = Tail(@)] /\ slot[s].entries # << >>
        /\ bytes' = [bytes EXCEPT ![s] = @ - Head(slot[s].entries).bytes]
    BY <1>5 DEF Read
  <2>2. Lightened(s)
    BY <2>1 DEF Lightened, SlotRecord
  <2>3. \A t \in Slot \ {s} : Weighed(t)
    BY <2>1 DEF Weighed
  <2>4. bytes' = [t \in Slot |-> bytes'[t]]
    BY <2>1
  <2>5. QED
    BY <2>2, <2>3, <2>4 DEF WeightMove
<1>6. ASSUME NEW s \in Slot, ReadEmpty(s) PROVE Goal
  <2>1. CASE Detach({s})
    BY <2>1, DetachMoves
  <2>2. CASE slot' = [slot EXCEPT ![s].pending = TRUE] /\ bytes' = bytes
    BY <2>2 DEF WeightMove, Weighed, SlotRecord
  <2>3. QED
    BY <1>6, <2>1, <2>2 DEF ReadEmpty
<1>7. ASSUME NEW s \in Slot, Return(s) PROVE Goal
  BY <1>7, DetachMoves DEF Return
<1>8. CASE UNCHANGED vars
  BY <1>8 DEF vars, WeightMove, Weighed
<1>9. QED
  BY <1>1, <1>2, <1>3, <1>4, <1>5, <1>6, <1>7, <1>8 DEF Next

\* The count starts and stays exact.
LEMMA BytesStart == Init => BytesInv
<1> SUFFICES ASSUME Init PROVE BytesInv
  OBVIOUS
<1>1. bytes = [s \in Slot |-> 0] /\ MaxBytes \in Nat
  BY QueueAssumption DEF Init
<1>2. \A s \in Slot : slot[s].entries = << >>
  BY DEF Init, NewSlot
<1>3. QED
  BY <1>1, <1>2, BytesEmpty DEF BytesInv, BytesExact

LEMMA BytesKept ==
  ASSUME IInv, BytesInv, [Next]_vars PROVE BytesInv'
<1>1. bytes' = [s \in Slot |-> bytes'[s]] /\ \A s \in Slot : WeightMove(s)
  BY QueueMoves
<1>2. \A s \in Slot : bytes'[s] = Bytes(slot'[s].entries) /\ bytes'[s] \in Nat /\ bytes'[s] <= MaxBytes
  BY <1>1, MoveExact
<1>3. bytes' \in [Slot -> Nat]
  BY <1>1, <1>2
<1>4. QED
  BY <1>2, <1>3 DEF BytesInv, BytesExact

\* publish(), removeEntry() and next() keep the byte count of every slot that of its
\* entries and within the bound, and hand every reader its units in order.
THEOREM SlotsAlwaysExact == Spec => []SlotsExact
<1>1. Spec => []BytesInv
  <2>1. IInv /\ BytesInv /\ [Next]_vars => BytesInv'
    BY BytesKept
  <2>2. QED
    BY <2>1, BytesStart, QueueInvariant, PTL DEF Spec
<1>2. BytesInv /\ InOrder => SlotsExact
  BY DEF BytesInv, SlotsExact
<1>3. QED
  BY <1>1, <1>2, ReadersInOrder, PTL

-----------------------------------------------------------------------------
\* How far the Node side has come: what is on the pipes is what the session
\* wrote for a request it has validated and authorised.
Written ==
  /\ phase \in {"requested", "refused"} => secrets = Nothing /\ open = Nothing
  /\ phase = "secured" => open = Nothing
  /\ phase \notin {"requested", "refused"} =>
       ValidRequest(request) /\ Authorized(request) /\ secrets = Security(request)
  /\ phase \notin {"requested", "refused", "secured"} => open = Open(request)

\* The worker's tracks are streams of the description that it has selected, and
\* what it has checked of the description before the first SETUP.
Early == {"requested", "refused", "secured", "opening", "described"}
Playing == {"selecting", "ready", "open"}
Selected ==
  /\ phase \in Early \cup Playing
  /\ phase \in Early => tracks = << >> /\ linked = << >> /\ acked = {}
  /\ DOMAIN tracks \subseteq 1..4
  /\ \A id \in DOMAIN tracks : tracks[id] \in DOMAIN sdp /\ TrackOf(sdp[tracks[id]]) = id
  /\ phase \in Playing /\ failure = "none" =>
       \A i \in DOMAIN sdp : sdp[i].control = "relative" \/ Allowed(sdp[i].control, TRUE)
  /\ phase \in {"ready", "open"} => acked = DOMAIN tracks
  /\ phase = "open" => Ready

\* A pad feeds its own track, or a later track with the same payload type still
\* has none: that track will not get one any more.
Receiving == DOMAIN tracks \ {4}
PayloadType(id) == sdp[tracks[id]].payload
Waiting(id) == \E j \in Receiving : j > id /\ PayloadType(j) = PayloadType(id) /\ j \notin DOMAIN linked
Pads ==
  /\ DOMAIN linked \subseteq Receiving
  /\ \A id \in DOMAIN linked : linked[id] = tracks[id] \/ Waiting(id)

Policy ==
  /\ trust.authentication \in {"none", "digest"} /\ sdp \in Seq(Offers)
\* What the worker has opened is what it reads as Node does.
Agreed == phase \in {"described"} \cup Playing => OriginsAgree
OpenInv == Policy /\ Written /\ Selected /\ Pads /\ Agreed /\ ValidatorsAgree /\ TargetsScoped

\* What the session wrote of a request that it has validated.
Scoped ==
  /\ secrets.origin = NodeOrigin(request.uri) /\ secrets.handle = (trust.authentication = "digest")
  /\ NodeOrigin(request.uri) \in trust.origins
  /\ Secure(NodeOrigin(request.uri)) = (request.transport = "tls")
LEMMA SentScoped ==
  ASSUME OpenInv, phase \notin {"requested", "refused"}
  PROVE  Scoped /\ SecretsParsed
<1>1. ValidRequest(request) /\ Authorized(request) /\ secrets = Security(request)
  BY DEF OpenInv, Written
<1>2. secrets.origin = NodeOrigin(request.uri) /\ secrets.handle = (trust.authentication = "digest")
      /\ secrets.username = (trust.authentication = "digest")
  BY <1>1 DEF Security
<1>3. SecretsParsed
  BY <1>2 DEF SecretsParsed
<1>4. /\ NodeOrigin(request.uri) \in trust.origins
      /\ Secure(NodeOrigin(request.uri)) = (request.transport = "tls")
  BY <1>1, Zenon DEF Authorized, Secure
<1>5. QED
  BY <1>2, <1>3, <1>4, Zenon DEF Scoped

LEMMA OpenEncoded ==
  ASSUME OpenInv, open # Nothing
  PROVE  /\ phase \notin {"requested", "refused", "secured"} /\ open = Open(request)
         /\ open.uri = request.uri /\ open.transport = request.transport
         /\ open.origins = trust.origins /\ open.tracks = Ids(request.tracks)
         /\ Bound => OriginsAgree
         /\ OriginsAgree => OptionsParsed /\ Bound /\ Allowed(WorkerOrigin(open.uri), TRUE)
<1>1. phase \notin {"requested", "refused", "secured"} /\ open = Open(request)
  BY DEF OpenInv, Written
<1>2. ValidRequest(request) /\ Authorized(request) /\ secrets = Security(request) /\ Policy
  BY <1>1 DEF OpenInv, Written
<1>3. Scoped
  BY <1>1, SentScoped
<1>4. /\ open.uri = request.uri /\ open.transport = request.transport
      /\ open.origins = trust.origins /\ open.tracks = Ids(request.tracks)
      /\ open.recorded = (request.replay # "none") /\ open.range = request.replay
      /\ open.noAuth = (trust.authentication = "none") /\ open.handle = (trust.authentication = "digest")
      /\ open.address = request.address /\ open.limits = request.limits
      /\ open.codecs = (IF Codecs(request.tracks) = {} THEN {"JPEG"} ELSE Codecs(request.tracks))
  BY <1>1 DEF Open
<1>5. OriginsAgree => Allowed(WorkerOrigin(open.uri), TRUE) /\ Allowed(WorkerOrigin(open.uri), FALSE)
  <2>1. OriginsAgree => WorkerOrigin(open.uri) = NodeOrigin(request.uri)
    BY <1>4 DEF OriginsAgree
  <2>2. QED
    BY <1>3, <1>4, <2>1 DEF Allowed, Scoped, Secure
<1>6. Bound <=> OriginsAgree
  <2>1. WorkerOrigin(open.uri) = WorkerOrigin(request.uri) /\ open.handle = secrets.handle
        /\ secrets.origin = NodeOrigin(request.uri)
    BY <1>3, <1>4 DEF Scoped
  <2>2. QED
    BY <2>1 DEF Bound, OriginsAgree
<1>7. OriginsAgree => OptionsParsed
  <2>1. open.tracks # {} /\ open.limits = "ok" /\ open.address \notin {"any", "multicast"}
    BY <1>2, <1>4 DEF ValidRequest
  <2>2. open.codecs # {}
    BY <1>4
  <2>3. open.handle = ~open.noAuth
    BY <1>2, <1>4 DEF Policy
  <2>4. IF open.recorded THEN open.range = "range" /\ open.transport # "udp" /\ 4 \notin open.tracks
        ELSE open.range = "none"
    <3>1. 4 \in Ids(request.tracks) => request.tracks.backchannel
      BY DEF Ids
    <3>2. QED
      BY <1>2, <1>4, <3>1 DEF ValidRequest
  <2>5. OriginsAgree => Allowed(WorkerOrigin(open.uri), "secrets" \in parsed)
    BY <1>5 DEF Allowed
  <2>6. QED
    BY <2>1, <2>2, <2>3, <2>4, <2>5 DEF OptionsParsed
<1>8. QED
  BY <1>1, <1>4, <1>5, <1>6, <1>7

\* What the worker has on its pipes and has checked, as far as a step leaves
\* the pipes alone.
LEMMA AllowedKept ==
  ASSUME UNCHANGED <<open, secrets>>, NEW o
  PROVE  Allowed(o, TRUE)' <=> Allowed(o, TRUE)
  BY DEF Allowed

LEMMA TracksSame ==
  ASSUME OpenInv, UNCHANGED <<request, trust, open, secrets, sdp, tracks, acked, linked>>,
         phase' = phase, failure' = "none" => failure = "none"
  PROVE  Policy' /\ Written' /\ Selected' /\ Pads' /\ Agreed'
<1>1. Policy' /\ Written'
  BY DEF OpenInv, Policy, Written, Authorized, Security, Open
<1>2. Selected'
  BY AllowedKept DEF OpenInv, Selected, Ready, Requested
<1>3. Pads'
  BY DEF OpenInv, Pads, Waiting, Receiving, PayloadType
<1>4. Agreed'
  BY DEF OpenInv, Agreed, OriginsAgree
<1>5. QED
  BY <1>1, <1>2, <1>3, <1>4

LEMMA TargetsSame ==
  ASSUME OpenInv, UNCHANGED <<request, trust, asked>>
  PROVE  TargetsScoped'
  BY DEF OpenInv, TargetsScoped

\* The request is refused, or written.
LEMMA SendStep ==
  ASSUME OpenInv, Refuse \/ SendSecurity \/ SendOpen
  PROVE  OpenInv'
<1>1. TargetsScoped' /\ ValidatorsAgree'
  <2>1. UNCHANGED <<request, trust, asked, failure>>
    BY DEF Refuse, SendSecurity, SendOpen
  <2>2. QED
    BY <2>1, TargetsSame DEF OpenInv, ValidatorsAgree, OriginsAgree
<1>2. Policy'
  BY DEF OpenInv, Policy, Refuse, SendSecurity, SendOpen
<1>3. phase \in {"requested", "secured"} /\ phase' \in {"refused", "secured", "opening"}
      /\ UNCHANGED <<request, trust, sdp, tracks, acked, linked>>
  BY DEF Refuse, SendSecurity, SendOpen
<1>4. Selected'
  <2>1. tracks = << >> /\ linked = << >> /\ acked = {} /\ DOMAIN tracks \subseteq 1..4
        /\ \A id \in DOMAIN tracks : tracks[id] \in DOMAIN sdp /\ TrackOf(sdp[tracks[id]]) = id
    BY <1>3 DEF OpenInv, Selected, Early
  <2>2. QED
    BY <1>3, <2>1 DEF Selected, Early, Playing
<1>5. Pads'
  BY <1>3 DEF OpenInv, Pads, Waiting, Receiving, PayloadType
<1>6. Written'
  <2>1. CASE Refuse
    BY <2>1 DEF Refuse, OpenInv, Written
  <2>2. CASE SendSecurity
    <3>1. ValidRequest(request)' /\ Authorized(request)' /\ secrets' = Security(request)'
      BY <2>2 DEF SendSecurity, Authorized, Security
    <3>2. open' = Nothing
      BY <2>2 DEF SendSecurity, OpenInv, Written
    <3>3. QED
      BY <2>2, <3>1, <3>2 DEF SendSecurity, Written
  <2>3. CASE SendOpen
    <3>1. ValidRequest(request) /\ Authorized(request) /\ secrets = Security(request)
      BY <2>3 DEF SendOpen, OpenInv, Written
    <3>2. ValidRequest(request)' /\ Authorized(request)' /\ secrets' = Security(request)' /\ open' = Open(request)'
      BY <2>3, <3>1 DEF SendOpen, Authorized, Security, Open
    <3>3. QED
      BY <2>3, <3>2 DEF SendOpen, Written
  <2>4. QED
    BY <2>1, <2>2, <2>3
<1>7. Agreed'
  BY <1>3 DEF Agreed, Playing
<1>8. QED
  BY <1>1, <1>2, <1>4, <1>5, <1>6, <1>7 DEF OpenInv

\* The worker reads a pipe, and accepts what is on it, unless it reads another
\* origin in the URI.
LEMMA ReadStep ==
  ASSUME OpenInv, ReadSecrets \/ ReadOpen
  PROVE  OpenInv'
<1>1. UNCHANGED <<request, trust, phase, secrets, open, sdp, tracks, acked, linked, asked>>
      /\ failure = "none"
  BY DEF ReadSecrets, ReadOpen
<1>2. failure' # "none" => failure' = "InvalidOrUnauthorizedOpen" /\ ~OriginsAgree
  <2>1. CASE ReadSecrets
    <3>1. phase \notin {"requested", "refused"}
      BY <2>1 DEF OpenInv, Written, ReadSecrets
    <3>2. SecretsParsed
      BY <3>1, SentScoped
    <3>3. QED
      BY <1>1, <2>1, <3>2 DEF ReadSecrets
  <2>2. CASE ReadOpen
    <3>1. open # Nothing /\ (OptionsParsed => failure' = failure)
          /\ (~OptionsParsed => failure' = "InvalidOrUnauthorizedOpen")
      BY <1>1, <2>2 DEF ReadOpen, Failing
    <3>2. OriginsAgree => OptionsParsed
      BY <3>1, OpenEncoded
    <3>3. QED
      BY <1>1, <3>1, <3>2
  <2>3. QED
    BY <2>1, <2>2
<1>3. Policy' /\ Written' /\ Selected' /\ Pads' /\ Agreed'
  BY <1>1, TracksSame
<1>4. ValidatorsAgree'
  <2>1. OriginsAgree' <=> OriginsAgree
    BY <1>1 DEF OriginsAgree
  <2>2. QED
    BY <1>1, <1>2, <2>1 DEF OpenInv, ValidatorsAgree
<1>5. QED
  BY <1>1, <1>3, <1>4, TargetsSame DEF OpenInv

\* An origin that the worker asks is one of the policy's.
LEMMA TargetScoped ==
  ASSUME OpenInv, open # Nothing, NEW o, Allowed(o, TRUE)
  PROVE  /\ o \in trust.origins /\ (Secure(o) <=> request.transport = "tls")
         /\ trust.authentication = "digest" => o = NodeOrigin(request.uri)
<1>1. phase \notin {"requested", "refused", "secured"} /\ open.transport = request.transport
      /\ open.origins = trust.origins
  BY OpenEncoded
<1>2. Scoped
  <2>1. phase \notin {"requested", "refused"}
    BY <1>1
  <2>2. QED
    BY <2>1, SentScoped
<1>3. Secure(o) = (open.transport = "tls") /\ o \in open.origins
  BY DEF Allowed
<1>4. secrets.handle => o = secrets.origin
  BY DEF Allowed
<1>5. trust.authentication = "digest" => o = NodeOrigin(request.uri)
  BY <1>2, <1>4 DEF Scoped
<1>6. Secure(o) <=> request.transport = "tls"
  BY <1>1, <1>3 DEF Secure
<1>7. QED
  BY <1>1, <1>3, <1>5, <1>6

\* One more origin was asked.
LEMMA AskedStep ==
  ASSUME OpenInv, open # Nothing, UNCHANGED <<request, trust>>,
         NEW o, Allowed(o, TRUE), asked' \in {asked, asked \cup {o}}
  PROVE  TargetsScoped'
<1> SUFFICES ASSUME NEW p \in asked'
             PROVE  /\ p \in trust.origins /\ (Secure(p) <=> request.transport = "tls")
                    /\ trust.authentication = "digest" => p = NodeOrigin(request.uri)
  BY DEF TargetsScoped
<1>1. CASE p \in asked
  BY <1>1 DEF OpenInv, TargetsScoped
<1>2. CASE p = o
  BY <1>2, TargetScoped
<1>3. QED
  BY <1>1, <1>2

LEMMA OpenWritten ==
  ASSUME OpenInv, phase \notin {"requested", "refused", "secured"}
  PROVE  open # Nothing
<1>1. open = Open(request)
  BY DEF OpenInv, Written
<1>2. "uri" \in DOMAIN Open(request) /\ "uri" \notin DOMAIN Nothing
  BY DEF Open, Nothing
<1>3. QED
  BY <1>1, <1>2, Zenon

\* The parts about the Node side stay as they are while the worker negotiates.
LEMMA NodeSame ==
  ASSUME OpenInv, UNCHANGED <<request, trust, secrets, open, sdp>>,
         phase \notin {"requested", "refused", "secured"},
         phase' \notin {"requested", "refused", "secured"}
  PROVE  Policy' /\ Written'
<1>1. Policy'
  BY DEF OpenInv, Policy
<1>2. ValidRequest(request)' /\ Authorized(request)' /\ secrets' = Security(request)' /\ open' = Open(request)'
  BY DEF OpenInv, Written, Authorized, Security, Open
<1>3. QED
  BY <1>1, <1>2 DEF Written

\* The worker opens its native session and asks the camera for a description.
LEMMA DescribeStep ==
  ASSUME OpenInv, Describe
  PROVE  OpenInv'
<1>1. phase = "opening" /\ failure = "none" /\ UNCHANGED <<request, trust, secrets, open, tracks, acked, linked>>
  BY DEF Describe
<1>2. open # Nothing
  BY <1>1, OpenWritten
<1> DEFINE Opening == Bound /\ Allowed(WorkerOrigin(open.uri), TRUE)
<1>0. Opening <=> OriginsAgree
  BY <1>2, OpenEncoded
<1>14. CASE ~Opening
  <2>1. UNCHANGED <<request, trust, phase, secrets, open, sdp, tracks, acked, linked, asked>>
        /\ failure' = "InvalidScopeOrNativeOpen"
    BY <1>1, <1>14 DEF Describe, Failing
  <2>2. Policy' /\ Written' /\ Selected' /\ Pads' /\ Agreed'
    BY <2>1, <1>1, TracksSame
  <2>3. TargetsScoped'
    BY <2>1, TargetsSame
  <2>4. ValidatorsAgree'
    <3>1. ~OriginsAgree /\ ~OriginsAgree'
      BY <1>0, <1>14, <2>1 DEF OriginsAgree
    <3>2. QED
      BY <2>1, <3>1 DEF OpenInv, ValidatorsAgree
  <2>5. QED
    BY <2>2, <2>3, <2>4 DEF OpenInv
<1> SUFFICES ASSUME Opening PROVE OpenInv'
  BY <1>14
<1>3. Bound /\ Allowed(WorkerOrigin(open.uri), TRUE) /\ OriginsAgree /\ OriginsAgree'
  BY <1>0, <1>1 DEF OriginsAgree
<1>4. phase' = "described" /\ asked' = asked \cup {WorkerOrigin(open.uri)} /\ failure' = "none"
  BY <1>1, <1>3 DEF Describe
<1>5. PICK n \in 0 .. Streams : sdp' \in [1 .. n -> Offers]
  BY <1>3 DEF Describe
<1>6. TargetsScoped'
  BY <1>1, <1>2, <1>3, <1>4, AskedStep
<1>7. ValidatorsAgree' /\ Agreed'
  BY <1>3, <1>4 DEF ValidatorsAgree, Agreed
<1>8. Policy'
  <2>1. n \in Nat
    BY OpenAssumption
  <2>2. sdp' \in Seq(Offers)
    <3>1. SUFFICES ASSUME NEW S, NEW s \in [1 .. n -> S] PROVE s \in Seq(S)
      BY <1>5
    <3>2. QED
      BY <2>1
  <2>3. QED
    BY <1>1, <2>2 DEF OpenInv, Policy
<1>9. Written'
  <2>1. ValidRequest(request)' /\ Authorized(request)' /\ secrets' = Security(request)' /\ open' = Open(request)'
    BY <1>1 DEF OpenInv, Written, Authorized, Security, Open
  <2>2. QED
    BY <1>4, <2>1 DEF Written
<1>10. tracks = << >> /\ linked = << >> /\ acked = {}
  BY <1>1 DEF OpenInv, Selected, Early
<1>11. Selected'
  BY <1>1, <1>4, <1>10 DEF Selected, Early, Playing
<1>12. Pads'
  <2>1. DOMAIN linked' = {}
    BY <1>1, <1>10
  <2>2. QED
    BY <2>1 DEF Pads
<1>13. QED
  BY <1>6, <1>7, <1>8, <1>9, <1>11, <1>12 DEF OpenInv

\* The description is checked, PLAY and READY are answered: the tracks stay.
LEMMA ProgressStep ==
  ASSUME OpenInv, OnSdp \/ PlayAnswered \/ OnReady
  PROVE  OpenInv'
<1>1. /\ phase \in {"described", "selecting", "ready"} /\ failure = "none"
      /\ UNCHANGED <<request, trust, secrets, open, sdp, tracks, acked, linked>>
      /\ phase' \in {"selecting", "ready", "open"}
  BY DEF OnSdp, PlayAnswered, OnReady
<1>2. open # Nothing
  BY <1>1, OpenWritten
<1>3. Policy' /\ Written'
  BY <1>1, NodeSame
<1>4. ValidatorsAgree' /\ Agreed'
  <2>1. OriginsAgree /\ OriginsAgree'
    BY <1>1 DEF OpenInv, Agreed, Playing, OriginsAgree
  <2>2. QED
    BY <1>1, <2>1 DEF OnSdp, PlayAnswered, OnReady, Failing, ValidatorsAgree, Agreed
<1>5. TargetsScoped'
  <2>1. asked' \in {asked, asked \cup {WorkerOrigin(open.uri)}}
    BY DEF OnSdp, PlayAnswered, OnReady
  <2>2. Allowed(WorkerOrigin(open.uri), TRUE)
    <3>1. OriginsAgree
      BY <1>1 DEF OpenInv, Agreed, Playing
    <3>2. QED
      BY <1>2, <3>1, OpenEncoded
  <2>3. QED
    BY <1>1, <1>2, <2>1, <2>2, AskedStep
<1>6. Pads'
  BY <1>1 DEF OpenInv, Pads, Waiting, Receiving, PayloadType
<1>7. Selected'
  <2>1. DOMAIN tracks \subseteq 1..4
        /\ \A id \in DOMAIN tracks : tracks[id] \in DOMAIN sdp /\ TrackOf(sdp[tracks[id]]) = id
    BY DEF OpenInv, Selected
  <2>2. failure' = "none" => \A i \in DOMAIN sdp : sdp[i].control = "relative" \/ Allowed(sdp[i].control, TRUE)
    <3>1. CASE OnSdp
      BY <1>1, <3>1 DEF OnSdp, Failing
    <3>2. CASE PlayAnswered \/ OnReady
      BY <1>1, <3>2 DEF OpenInv, Selected, Playing, PlayAnswered, OnReady
    <3>3. QED
      BY <3>1, <3>2
  <2>3. failure' = "none" => (\A i \in DOMAIN sdp : sdp[i].control = "relative" \/ Allowed(sdp[i].control, TRUE))'
    <3>1. \A o : Allowed(o, TRUE)' <=> Allowed(o, TRUE)
      BY <1>1, AllowedKept
    <3>2. QED
      BY <1>1, <2>2, <3>1
  <2>4. phase' \in {"ready", "open"} => acked' = DOMAIN tracks'
    <3>1. CASE OnSdp
      BY <3>1 DEF OnSdp
    <3>2. CASE PlayAnswered
      BY <1>1, <3>2 DEF PlayAnswered
    <3>3. CASE OnReady
      BY <1>1, <3>3 DEF OnReady, OpenInv, Selected
    <3>4. QED
      BY <3>1, <3>2, <3>3
  <2>5. phase' = "open" => Ready'
    <3>1. phase' = "open" => Ready
      BY DEF OnSdp, PlayAnswered, OnReady
    <3>2. Ready' <=> Ready
      BY <1>1 DEF Ready, Requested
    <3>3. QED
      BY <3>1, <3>2
  <2>6. QED
    BY <1>1, <2>1, <2>3, <2>4, <2>5 DEF Selected, Early, Playing
<1>8. QED
  BY <1>3, <1>4, <1>5, <1>6, <1>7 DEF OpenInv

LEMMA TrackNumbered ==
  ASSUME NEW m
  PROVE  TrackOf(m) \in 1..4
<1>1. m.send \/ m.kind = "video" \/ m.kind = "audio" \/ (m.kind # "video" /\ m.kind # "audio")
  OBVIOUS
<1>2. QED
  BY <1>1 DEF TrackOf

\* The next stream is selected and set up, or the session fails.
LEMMA SelectStep ==
  ASSUME OpenInv, Select
  PROVE  OpenInv'
<1> DEFINE rest == Candidates \ Chosen
           i == Min(rest)
           id == TrackOf(sdp[i])
           target == IF sdp[i].control = "relative" THEN WorkerOrigin(open.uri) ELSE sdp[i].control
<1>1. /\ phase = "selecting" /\ failure = "none" /\ rest # {}
      /\ UNCHANGED <<request, trust, phase, secrets, open, sdp, linked>>
  BY DEF Select
<1>2. open # Nothing
  BY <1>1, OpenWritten
<1>3. Policy' /\ Written'
  BY <1>1, NodeSame
<1>4. \/ /\ UNCHANGED <<tracks, acked, asked>>
         /\ failure' \in {"DuplicateRequestedTrack", "UnsupportedMetadataEncoding", "NoDecoder"}
      \/ /\ id \notin DOMAIN tracks /\ UNCHANGED failure
         /\ tracks' = [j \in DOMAIN tracks \cup {id} |-> IF j = id THEN i ELSE tracks[j]]
         /\ asked' = asked \cup {target}
  BY <1>1 DEF Select, Failing
<1>5. i \in DOMAIN sdp
  <2>1. rest \in SUBSET Nat /\ rest \subseteq DOMAIN sdp
    BY DEF OpenInv, Policy, Candidates
  <2> HIDE DEF rest
  <2>2. QED
    BY <1>1, <2>1, LeastExists
<1> HIDE DEF rest, i
<1>6. id \in 1..4
  BY TrackNumbered
<1>7. ValidatorsAgree' /\ Agreed' /\ OriginsAgree
  <2>1. OriginsAgree /\ OriginsAgree'
    BY <1>1 DEF OpenInv, Agreed, Playing, OriginsAgree
  <2>2. QED
    BY <1>1, <1>4, <2>1 DEF ValidatorsAgree, Agreed
<1>8. Allowed(target, TRUE)
  <2>1. sdp[i].control = "relative" \/ Allowed(sdp[i].control, TRUE)
    BY <1>1, <1>5 DEF OpenInv, Selected, Playing
  <2>2. Allowed(WorkerOrigin(open.uri), TRUE)
    BY <1>2, <1>7, OpenEncoded
  <2>3. QED
    BY <2>1, <2>2
<1>9. TargetsScoped'
  <2>1. asked' \in {asked, asked \cup {target}}
    BY <1>4
  <2> HIDE DEF target
  <2>2. QED
    BY <1>1, <1>2, <1>8, <2>1, AskedStep
<1>10. CASE UNCHANGED <<tracks, acked, asked>>
                /\ failure' \in {"DuplicateRequestedTrack", "UnsupportedMetadataEncoding", "NoDecoder"}
  <2>1. Pads'
    BY <1>1, <1>10 DEF OpenInv, Pads, Waiting, Receiving, PayloadType
  <2>2. Selected'
    BY <1>1, <1>10 DEF OpenInv, Selected, Early, Playing
  <2>3. QED
    BY <1>3, <1>7, <1>9, <2>1, <2>2 DEF OpenInv
<1>11. CASE /\ id \notin DOMAIN tracks /\ UNCHANGED failure
            /\ tracks' = [j \in DOMAIN tracks \cup {id} |-> IF j = id THEN i ELSE tracks[j]]
  <2> HIDE DEF id
  <2>1. DOMAIN tracks' = DOMAIN tracks \cup {id} /\ tracks'[id] = i
        /\ \A j \in DOMAIN tracks : tracks'[j] = tracks[j]
    BY <1>11
  <2>2. TrackOf(sdp[i]) = id
    BY DEF id
  <2>3. DOMAIN tracks' \subseteq 1..4
        /\ \A j \in DOMAIN tracks' : tracks'[j] \in DOMAIN sdp /\ TrackOf(sdp[tracks'[j]]) = j
    <3>1. DOMAIN tracks \subseteq 1..4
          /\ \A j \in DOMAIN tracks : tracks[j] \in DOMAIN sdp /\ TrackOf(sdp[tracks[j]]) = j
      BY DEF OpenInv, Selected
    <3>2. DOMAIN tracks' \subseteq 1..4
      BY <1>6, <2>1, <3>1
    <3>3. ASSUME NEW j \in DOMAIN tracks'
          PROVE  tracks'[j] \in DOMAIN sdp /\ TrackOf(sdp[tracks'[j]]) = j
      <4>1. CASE j = id
        BY <1>5, <2>1, <2>2, <4>1
      <4>2. CASE j \in DOMAIN tracks
        BY <2>1, <3>1, <4>2
      <4>3. QED
        BY <2>1, <4>1, <4>2
    <3>4. QED
      BY <3>2, <3>3
  <2>4. Selected'
    <3>1. (\A k \in DOMAIN sdp : sdp[k].control = "relative" \/ Allowed(sdp[k].control, TRUE))'
      <4>1. \A o : Allowed(o, TRUE)' <=> Allowed(o, TRUE)
        BY <1>1, AllowedKept
      <4>2. QED
        BY <1>1, <4>1 DEF OpenInv, Selected, Playing
    <3>2. QED
      BY <1>1, <2>3, <3>1 DEF Selected, Early, Playing
  <2>5. Pads'
    <3>1. Receiving \subseteq Receiving' /\ \A j \in Receiving : tracks'[j] = tracks[j] /\ PayloadType(j)' = PayloadType(j)
      BY <1>1, <2>1 DEF Receiving, PayloadType
    <3>2. \A j \in Receiving : Waiting(j) => Waiting(j)'
      BY <1>1, <3>1 DEF Waiting
    <3>3. DOMAIN linked \subseteq Receiving /\ \A j \in DOMAIN linked : linked[j] = tracks[j] \/ Waiting(j)
      BY DEF OpenInv, Pads
    <3>4. QED
      BY <1>1, <3>1, <3>2, <3>3 DEF Pads
  <2>6. QED
    BY <1>3, <1>7, <1>9, <2>4, <2>5 DEF OpenInv
<1>12. QED
  BY <1>4, <1>10, <1>11

\* A pad takes the first track with its payload type.  When that is another
\* track than its own, a later track is left without a pad.
LEMMA PadStep ==
  ASSUME OpenInv, PadAdded
  PROVE  OpenInv'
<1> DEFINE alike(k) == {id \in DOMAIN tracks \ {4} : sdp[tracks[id]].payload = sdp[k].payload}
<1>1. PICK k \in {tracks[id] : id \in DOMAIN tracks \ {4}} :
        /\ k \notin {linked[id] : id \in DOMAIN linked}
        /\ IF Min(alike(k)) \in DOMAIN linked
           THEN Failing("DuplicateDynamicTrack") /\ UNCHANGED linked
           ELSE /\ linked' = [id \in DOMAIN linked \cup {Min(alike(k))} |->
                                IF id \in DOMAIN linked THEN linked[id] ELSE k]
                /\ UNCHANGED failure
  BY Zenon DEF PadAdded
<1>2. PICK n \in DOMAIN tracks \ {4} : k = tracks[n]
  BY <1>1
<1> DEFINE same == {id \in Receiving : PayloadType(id) = PayloadType(n)}
<1>3. PICK m : m = Min(same)
  OBVIOUS
<1>4. /\ n \in Receiving /\ tracks[n] \notin {linked[id] : id \in DOMAIN linked}
      /\ \/ linked' = linked /\ Failing("DuplicateDynamicTrack")
         \/ /\ m \notin DOMAIN linked /\ UNCHANGED failure
            /\ linked' = [id \in DOMAIN linked \cup {m} |-> IF id \in DOMAIN linked THEN linked[id] ELSE tracks[n]]
  <2>1. same = alike(k)
    BY <1>2 DEF Receiving, PayloadType
  <2> HIDE DEF same, alike
  <2>2. QED
    BY <1>2, <1>1, <1>3, <2>1 DEF Receiving
<1>5. /\ phase \in {"selecting", "ready", "open"} /\ failure = "none"
      /\ UNCHANGED <<request, trust, phase, secrets, open, sdp, tracks, acked, asked>>
  BY DEF PadAdded
<1>6. Policy' /\ Written'
  BY <1>5, NodeSame
<1>7. TargetsScoped'
  BY <1>5, TargetsSame
<1>8. failure' \in {"none", "DuplicateDynamicTrack"}
  BY <1>4, <1>5 DEF Failing
<1>9. Selected'
  <2>1. failure' = "none" => failure = "none"
    BY <1>5
  <2>2. \A o : Allowed(o, TRUE)' <=> Allowed(o, TRUE)
    BY <1>5, AllowedKept
  <2>3. phase \in Early => phase' = phase /\ FALSE
    BY <1>5 DEF Early
  <2>4. Ready' <=> Ready
    BY <1>5 DEF Ready, Requested
  <2>5. QED
    BY <1>5, <2>1, <2>2, <2>3, <2>4 DEF OpenInv, Selected
<1>10. Pads'
  <2>1. DOMAIN linked \subseteq Receiving /\ \A id \in DOMAIN linked : linked[id] = tracks[id] \/ Waiting(id)
    BY DEF OpenInv, Pads
  <2>2. Receiving \subseteq Nat /\ Receiving' = Receiving /\ \A id : PayloadType(id)' = PayloadType(id)
    BY <1>5 DEF OpenInv, Selected, Receiving, PayloadType
  <2>3. \A id, j : j \in Receiving /\ j > id /\ PayloadType(j) = PayloadType(id) /\ j \notin DOMAIN linked'
                  => Waiting(id)'
    BY <2>2 DEF Waiting
  <2>4. CASE linked' = linked
    BY <1>5, <2>1, <2>2, <2>4 DEF Pads, Waiting
  <2>5. CASE /\ m \notin DOMAIN linked
             /\ linked' = [id \in DOMAIN linked \cup {m} |-> IF id \in DOMAIN linked THEN linked[id] ELSE tracks[n]]
    <3>1. m \in same /\ \A id \in same : m <= id
      <4>1. same \in SUBSET Nat /\ n \in same
        BY <1>4, <2>2
      <4> HIDE DEF same
      <4>2. QED
        BY <1>3, <4>1, LeastExists
    <3>2. m \in Receiving /\ PayloadType(m) = PayloadType(n) /\ m <= n
      BY <1>4, <3>1
    <3>3. \A id \in Receiving : PayloadType(id) = PayloadType(m) => m <= id
      BY <3>1, <3>2
    <3> HIDE DEF same
    <3>4. DOMAIN linked' = DOMAIN linked \cup {m} /\ linked'[m] = tracks[n]
          /\ \A id \in DOMAIN linked : linked'[id] = linked[id]
      BY <2>5
    <3>5. ASSUME NEW id \in DOMAIN linked, linked[id] # tracks[id] PROVE Waiting(id)'
      <4>1. PICK j \in Receiving : j > id /\ PayloadType(j) = PayloadType(id) /\ j \notin DOMAIN linked
        BY <2>1, <3>5 DEF Waiting
      <4>2. j # m
        <5>1. SUFFICES ASSUME j = m PROVE FALSE
          OBVIOUS
        <5>2. id \in Receiving /\ PayloadType(id) = PayloadType(m)
          BY <2>1, <4>1, <5>1
        <5>3. m <= id
          BY <3>3, <5>2
        <5>4. m \in Nat /\ id \in Nat /\ m > id
          BY <2>2, <3>2, <4>1, <5>1, <5>2
        <5>5. QED
          BY <5>3, <5>4
      <4>3. j \notin DOMAIN linked'
        BY <3>4, <4>1, <4>2
      <4>4. QED
        BY <2>2, <4>1, <4>3, <2>3
    <3>6. ASSUME m # n PROVE Waiting(m)'
      <4>1. m < n
        BY <1>4, <2>2, <3>2, <3>6
      <4>2. CASE n \notin DOMAIN linked
        <5>1. n \notin DOMAIN linked' /\ PayloadType(n) = PayloadType(m)
          BY <3>2, <3>4, <3>6, <4>2
        <5>2. QED
          <6>1. n > m /\ n \in Receiving
            BY <1>4, <2>2, <3>2, <4>1
          <6>2. QED
            BY <2>3, <5>1, <6>1, Zenon
      <4>3. CASE n \in DOMAIN linked
        <5>1. linked[n] # tracks[n]
          BY <1>4, <4>3
        <5>2. PICK j \in Receiving : j > n /\ PayloadType(j) = PayloadType(n) /\ j \notin DOMAIN linked
          BY <2>1, <4>3, <5>1 DEF Waiting
        <5>3. j > m /\ j # m
          BY <1>4, <2>2, <3>2, <4>1, <5>2
        <5>4. j \notin DOMAIN linked' /\ PayloadType(j) = PayloadType(m)
          BY <3>2, <3>4, <5>2, <5>3
        <5>5. QED
          BY <2>3, <5>2, <5>3, <5>4, Zenon
      <4>4. QED
        BY <4>2, <4>3
    <3>7. ASSUME NEW id \in DOMAIN linked' PROVE linked'[id] = tracks'[id] \/ Waiting(id)'
      <4>1. CASE id = m
        <5>1. linked'[id] = tracks[n] /\ tracks' = tracks
          BY <1>5, <3>4, <4>1
        <5>2. CASE m = n
          BY <4>1, <5>1, <5>2
        <5>3. CASE m # n
          BY <3>6, <4>1, <5>3
        <5>4. QED
          BY <5>2, <5>3
      <4>2. CASE id \in DOMAIN linked
        BY <1>5, <3>4, <3>5, <4>2
      <4>3. QED
        BY <3>4, <3>7, <4>1, <4>2
    <3>8. DOMAIN linked' \subseteq Receiving'
      BY <2>1, <2>2, <3>2, <3>4
    <3>9. QED
      BY <3>7, <3>8 DEF Pads
  <2>6. QED
    BY <1>4, <2>4, <2>5
<1>11. Agreed' /\ ValidatorsAgree'
  <2>1. OriginsAgree /\ OriginsAgree'
    BY <1>5 DEF OpenInv, Agreed, Playing, OriginsAgree
  <2>2. QED
    BY <1>5, <1>8, <2>1 DEF Agreed, ValidatorsAgree
<1>12. QED
  BY <1>6, <1>7, <1>9, <1>10, <1>11 DEF OpenInv

LEMMA OpenStep ==
  ASSUME OpenInv, OpenNext
  PROVE  OpenInv'
  BY SendStep, ReadStep, DescribeStep, ProgressStep, SelectStep, PadStep, Zenon DEF OpenNext

LEMMA InitOpen ==
  ASSUME OpenInit
  PROVE  OpenInv
<1>1. NotStarted /\ trust.authentication \in {"none", "digest"}
  BY DEF OpenInit
<1>2. Policy
  BY <1>1 DEF NotStarted, Policy
<1>3. Written /\ Selected
  BY <1>1 DEF NotStarted, Written, Selected, Early, Playing
<1>4. Pads
  BY <1>1 DEF NotStarted, Pads
<1>5. ValidatorsAgree /\ TargetsScoped /\ Agreed
  BY <1>1 DEF NotStarted, ValidatorsAgree, TargetsScoped, Agreed, Playing
<1>6. QED
  BY <1>2, <1>3, <1>4, <1>5 DEF OpenInv

LEMMA OpenImplies ==
  ASSUME OpenInv
  PROVE  OpenAgreed
<1>1. TracksAsRequested
  <2> SUFFICES ASSUME phase = "open" PROVE TracksAsRequested
    BY DEF TracksAsRequested
  <2>1. Ready /\ acked = DOMAIN tracks
    BY DEF OpenInv, Selected
  <2>2. DOMAIN linked = DOMAIN tracks \ {4} => \A id \in DOMAIN linked : linked[id] = tracks[id]
    BY DEF OpenInv, Pads, Waiting, Receiving
  <2>3. QED
    BY <2>1, <2>2 DEF Ready, TracksAsRequested
<1>2. QED
  BY <1>1 DEF OpenInv, OpenAgreed

\* What a behaviour that follows the packets leaves of the opening.
InputInv ==
  \/ stage = "open" /\ OpenInv
  \/ stage = "payload" /\ phase = "requested" /\ asked = {} /\ failure = "none"

\* The inductive invariant of an opening (policy.ts, protocol.ts, options.c and
\* worker.c): what is on the pipes, which tracks are selected and which pads feed
\* them, for every kind of request and every number of media lines.
THEOREM InputInvariant == InputSpec => []InputInv
<1>1. InputInit => InputInv
  BY InitOpen DEF InputInit, InputInv, NotStarted
<1>2. InputInv /\ [InputNext]_<<payloadVars, openVars, stage>> => InputInv'
  <2> SUFFICES ASSUME InputInv, [InputNext]_<<payloadVars, openVars, stage>> PROVE InputInv'
    OBVIOUS
  <2>1. ASSUME OpenInv, UNCHANGED openVars PROVE OpenInv'
    <3>1. UNCHANGED <<request, trust, phase, secrets, open, sdp, tracks, acked, linked, asked, failure>>
      BY <2>1 DEF openVars
    <3>2. QED
      BY <2>1, <3>1, TracksSame, TargetsSame DEF OpenInv, ValidatorsAgree, OriginsAgree
  <2>2. CASE stage = "open" /\ OpenNext /\ UNCHANGED <<payloadVars, stage>>
    <3>1. OpenInv
      BY <2>2 DEF InputInv
    <3>2. OpenInv'
      BY <2>2, <3>1, OpenStep
    <3>3. QED
      BY <2>2, <3>2 DEF InputInv
  <2>3. CASE UNCHANGED <<openVars, stage>>
    <3>1. CASE stage = "open" /\ OpenInv
      BY <2>1, <2>3, <3>1 DEF InputInv
    <3>2. CASE stage = "payload" /\ phase = "requested" /\ asked = {} /\ failure = "none"
      BY <2>3, <3>2 DEF InputInv, openVars
    <3>3. QED
      BY <3>1, <3>2 DEF InputInv
  <2>4. QED
    BY <2>2, <2>3 DEF InputNext
<1>3. QED
  BY <1>1, <1>2, PTL DEF InputSpec

\* Both ends agree on what is opened: of what the session has validated the
\* worker refuses only a request in whose URI g_uri reads another origin than
\* the WHATWG URL class, or none, and never asks the camera of one; it asks only
\* origins in the scope of the trust policy, and the session takes exactly the
\* tracks it asked for, each fed by its own stream (nativeMediaUrl(),
\* validateMediaRequest() and authorizeMediaTarget() of policy.ts, parseReady()
\* of protocol.ts, media_origin() and its callers in options.c, worker.c).
THEOREM OpensAlwaysAgreed == InputSpec => []OpenAgreed
<1>1. InputInv => OpenAgreed
  BY OpenImplies DEF InputInv, OpenAgreed, ValidatorsAgree, TargetsScoped, TracksAsRequested
<1>2. QED
  BY <1>1, InputInvariant, PTL

-----------------------------------------------------------------------------
(* The packets of a track.                                                 *)

\* As long as no sequence number of RTP is used twice and no CSeq is mistaken for
\* another one by its last eight bits.
Numbers == 65536
Unwrapped == MaxParts * MaxCameraUnits < Numbers /\ MaxControls < 256

Sequence == {n \in Nat : n < Numbers}
CameraUnits ==
  [id : Nat, ssrc : Nat, cseq : Nat \ {0}, parts : Nat, last : BOOLEAN, style : {"good", "bad", "big", "legacy"}]
Packets == [u : CameraUnits, part : Nat, seq : Sequence]

\* How many packets the camera sent before this one, and how many in all.
Index(seq) == (seq + 2) % Numbers

\* What the camera sends next.
CameraInv ==
  /\ camera \in [unit : CameraUnits \cup {None}, part : Nat, seq : Sequence, ssrc : Nat, units : Nat]
  /\ camera.units <= MaxCameraUnits
  /\ IF camera.unit = None THEN Index(camera.seq) <= camera.units * MaxParts
     ELSE /\ camera.unit.id = camera.units /\ camera.units # 0
          /\ camera.unit.parts <= MaxParts /\ camera.part <= camera.unit.parts + 1 /\ camera.part # 0
          /\ Index(camera.seq) + 1 <= (camera.units - 1) * MaxParts + camera.part

\* The packets on their way, wherever they are.
Around ==
  ToSet(wire) \cup ({held} \ {None}) \cup ToSet(queue) \cup ToSet(jpeg.headers)
    \cup IF meta.active THEN ToSet(meta.wire) ELSE {}

\* What follows a packet is the next one of its unit or the first one of another.
Past(p) ==
  /\ Index(p.seq) < Index(camera.seq) /\ p.u.id <= camera.units
  /\ Index(p.seq) + 1 = Index(camera.seq) /\ camera.unit # None =>
       p.u = camera.unit /\ camera.part = p.part + 1
  /\ camera.unit # None /\ p.u.id = camera.units => p.u = camera.unit
Linked(p, q) ==
  /\ Index(q.seq) = Index(p.seq) + 1 /\ q.part # 1 => q.u = p.u /\ q.part = p.part + 1
  /\ q.u.id = p.u.id => q.u = p.u
Coherent == \A p \in Around : Past(p) /\ \A q \in Around : Linked(p, q)

\* A document in assembly that has one beginning is the beginning of one unit.
Run(w) == \A i \in 1..Len(w) : w[i].u = w[1].u /\ w[i].part = i
Once(w) == \A i \in 1..Len(w) : w[i].part = 1 <=> i = 1
DocumentInv ==
  /\ meta \in [active : BOOLEAN, discarding : BOOLEAN, have : BOOLEAN, ssrc : Nat, last : Sequence,
               wire : Seq(Packets)]
  /\ meta.active => meta.have /\ ~meta.discarding /\ meta.wire # << >> /\ meta.wire[Len(meta.wire)].seq = meta.last
  /\ meta.active /\ Once(meta.wire) => Run(meta.wire)

\* The headers of a frame are those of its packets so far.
FrameInv ==
  /\ jpeg \in [active : BOOLEAN, complete : BOOLEAN, ssrc : Nat, ts : Nat, seq : Sequence, headers : Seq(Packets)]
  /\ ~failed /\ jpeg.active =>
       /\ jpeg.headers # << >> /\ Run(jpeg.headers) /\ jpeg.headers[Len(jpeg.headers)].seq = jpeg.seq
       /\ jpeg.headers[1].u.id = jpeg.ts /\ jpeg.headers[1].u.style # "legacy"

\* Only a packet of the play in progress can end it.
PlayInv ==
  /\ play \in [accepting : BOOLEAN, cseq : Nat \ {0}, control : {"none", "PAUSE", "PLAY", "SEEK", "flushed"}, controls : Nat]
  /\ play.controls <= MaxControls /\ play.cseq <= play.controls + (IF play.control = "none" THEN 1 ELSE 0)
  /\ play.control # "none" => ~play.accepting
  /\ camera.unit # None => camera.unit.cseq <= play.cseq
  /\ \A p \in Around : p.u.cseq <= play.cseq
TerminalInv ==
  /\ term \in [pending : BOOLEAN, ended : BOOLEAN, by : Nat]
  /\ term.ended => term.pending
  /\ term.pending => setup.recorded /\ term.by = play.cseq
  /\ setup.recorded => \A i \in 1..Len(queue) : queue[i].part = 1 => queue[i].u.cseq = play.cseq
  /\ play.control = "flushed" => setup.recorded /\ held = None /\ queue = << >> /\ ~term.pending

UnitTypeOK ==
  /\ wire \in Seq(Packets) /\ queue \in Seq(Packets) /\ held \in Packets \cup {None}
  /\ setup \in [track : {"metadata", "jpeg"}, recorded : BOOLEAN, gzip : BOOLEAN]
  /\ failed \in BOOLEAN

UnitInv ==
  /\ UnitTypeOK /\ CameraInv /\ Coherent /\ DocumentInv /\ FrameInv /\ PlayInv /\ TerminalInv
  /\ DocumentsWhole /\ FramesOwnHeaders

\* Numbers that have started over once.
LEMMA WrapOnce ==
  ASSUME NEW a \in Int, a >= 0, a < 131072
  PROVE  (a % 65536) = IF a < 65536 THEN a ELSE a - 65536
  BY SMT

LEMMA NumbersNat == Numbers \in Nat /\ Numbers > 0 /\ 2^16 = Numbers
  BY SMT DEF Numbers

LEMMA WrapByTwo ==
  ASSUME NEW a \in Int, a >= 0, a < 65536
  PROVE  ((a + 2) % 65536) = IF a + 2 < 65536 THEN a + 2 ELSE a + 2 - 65536
  BY SMT

LEMMA IndexIs ==
  ASSUME NEW a \in Sequence
  PROVE  Index(a) = IF a + 2 < Numbers THEN a + 2 ELSE a + 2 - Numbers
<1>1. a \in Int /\ a >= 0 /\ a < 65536
  BY SMT DEF Sequence, Numbers
<1>2. Index(a) = ((a + 2) % 65536) /\ Numbers = 65536
  BY DEF Index, Numbers
<1>3. ((a + 2) % 65536) = IF a + 2 < 65536 THEN a + 2 ELSE a + 2 - 65536
  BY <1>1, WrapByTwo
<1>4. QED
  BY <1>2, <1>3

LEMMA NextIs ==
  ASSUME NEW a \in Sequence
  PROVE  (a + 1) % 2^16 = IF a + 1 < Numbers THEN a + 1 ELSE 0
<1>1. a \in Int /\ a >= 0 /\ a < 65536
  BY SMT DEF Sequence, Numbers
<1>2. PICK x \in Int : x = a + 1 /\ x >= 0 /\ x < 131072
  BY <1>1, SMT
<1>3. (x % 65536) = IF x < 65536 THEN x ELSE x - 65536
  BY <1>2, WrapOnce, SMT
<1>4. 2^16 = 65536
  BY SMT
<1>5. QED
  BY <1>1, <1>2, <1>3, <1>4, SMT DEF Numbers

\* A sequence number that follows another one is that of the next packet, unless
\* the numbers of a behaviour start over.
LEMMA IndexType == \A a \in Sequence : Index(a) \in Nat /\ Index(a) < Numbers
  BY IndexIs, NumbersNat, SMT DEF Sequence, Numbers

LEMMA NextIndex ==
  ASSUME NEW a \in Sequence, NEW b, b = (a + 1) % 2^16, Index(a) + 1 < Numbers
  PROVE  b \in Sequence /\ Index(b) = Index(a) + 1
<1>1. b = IF a + 1 < Numbers THEN a + 1 ELSE 0
  BY NextIs
<1>2. b \in Sequence
  BY <1>1, NumbersNat, SMT DEF Sequence
<1>3. QED
  BY <1>1, <1>2, IndexIs, NumbersNat, SMT DEF Sequence, Numbers

LEMMA FollowsIndex ==
  ASSUME NEW a \in Sequence, NEW b \in Sequence, NEW n \in Sequence, Index(a) < Index(n), Follows(a, b)
  PROVE  Index(b) = Index(a) + 1
<1>1. Index(a) + 1 < Numbers
  BY IndexType, NumbersNat, SMT
<1>2. QED
  BY <1>1, NextIndex DEF Follows

LEMMA NoPacket == \A p \in Packets : p # None
  BY DEF Packets, None

LEMMA NoUnit == \A u \in CameraUnits : u # None
  BY DEF CameraUnits, None

\* Sequences and the packets in them.
LEMMA AppendSet ==
  ASSUME NEW S, NEW s \in Seq(S), NEW e \in S
  PROVE  Append(s, e) \in Seq(S) /\ ToSet(Append(s, e)) = ToSet(s) \cup {e}
<1>1. PICK t : t = Append(s, e)
  OBVIOUS
<1>2. t \in Seq(S) /\ Len(t) = Len(s) + 1 /\ t[Len(s) + 1] = e /\ \A i \in 1..Len(s) : t[i] = s[i]
  BY <1>1, AppendProperties
<1>3. DOMAIN t = 1..(Len(s) + 1) /\ DOMAIN s = 1..Len(s) /\ Len(s) \in Nat
  BY <1>2
<1>4. ToSet(t) = ToSet(s) \cup {e}
  BY <1>2, <1>3 DEF ToSet
<1>5. QED
  BY <1>1, <1>2, <1>4

LEMMA RemoveSet ==
  ASSUME NEW S, NEW s \in Seq(S), NEW i \in DOMAIN s
  PROVE  RemoveAt(s, i) \in Seq(S) /\ ToSet(RemoveAt(s, i)) \subseteq ToSet(s) /\ s[i] \in ToSet(s)
<1>1. i \in 1..Len(s) /\ Len(s) \in Nat /\ \A j \in 1..Len(s) : s[j] \in S
  OBVIOUS
<1>2. PICK n : n = Len(s) /\ n \in Nat
  BY <1>1
<1>3. PICK a : a = SubSeq(s, 1, i - 1)
  OBVIOUS
<1>4. a \in Seq(S) /\ Len(a) = i - 1 /\ \A j \in 1..(i - 1) : a[j] = s[j]
  <2>1. i - 1 \in Int /\ 1 \in Int /\ \A j \in 1..(i - 1) : s[j] \in S
    BY <1>1, <1>2
  <2>2. /\ a \in Seq(S) /\ Len(a) = IF 1 <= i - 1 THEN (i - 1) - 1 + 1 ELSE 0
        /\ \A j \in 1..((i - 1) - 1 + 1) : a[j] = s[1 + j - 1]
    BY <1>3, <2>1, SubSeqProperties
  <2>3. QED
    BY <1>1, <2>2
<1>5. PICK b : b = SubSeq(s, i + 1, n)
  OBVIOUS
<1>6. b \in Seq(S) /\ Len(b) = n - i /\ \A j \in 1..(n - i) : b[j] = s[i + j]
  <2>1. i + 1 \in Int /\ n \in Int /\ \A j \in (i + 1)..n : s[j] \in S
    BY <1>1, <1>2
  <2>2. /\ b \in Seq(S) /\ Len(b) = IF i + 1 <= n THEN n - (i + 1) + 1 ELSE 0
        /\ \A j \in 1..(n - (i + 1) + 1) : b[j] = s[i + 1 + j - 1]
    BY <1>5, <2>1, SubSeqProperties
  <2>3. Len(b) = n - i
    BY <1>1, <1>2, <2>2
  <2>4. ASSUME NEW j \in 1..(n - i) PROVE b[j] = s[i + j]
    <3>1. j \in 1..(n - (i + 1) + 1) /\ i + 1 + j - 1 = i + j
      BY <1>1, <1>2
    <3>2. QED
      BY <2>2, <3>1
  <2>5. QED
    BY <2>2, <2>3, <2>4
<1>7. PICK t : t = a \o b
  OBVIOUS
<1>8. /\ t \in Seq(S) /\ Len(t) = Len(a) + Len(b)
      /\ \A j \in 1..(Len(a) + Len(b)) : t[j] = IF j <= Len(a) THEN a[j] ELSE b[j - Len(a)]
  BY <1>4, <1>6, <1>7, ConcatProperties
<1>9. Len(t) = n - 1 /\ DOMAIN t = 1..(n - 1) /\ DOMAIN s = 1..n
  <2>1. Len(t) = n - 1
    <3>1. Len(t) = (i - 1) + (n - i)
      BY <1>4, <1>6, <1>8
    <3>2. i \in Int /\ n \in Int
      BY <1>1, <1>2
    <3>3. QED
      BY <3>1, <3>2
  <2>2. DOMAIN t = 1..Len(t)
    BY <1>8
  <2>3. DOMAIN s = 1..Len(s)
    OBVIOUS
  <2>4. QED
    BY <1>2, <2>1, <2>2, <2>3
<1>10. ASSUME NEW j \in 1..(n - 1) PROVE t[j] \in ToSet(s)
  <2>1. CASE j <= i - 1
    <3>1. t[j] = s[j] /\ j \in DOMAIN s
      BY <1>2, <1>4, <1>6, <1>8, <1>9, <2>1
    <3>2. QED
      BY <3>1 DEF ToSet
  <2>2. CASE j > i - 1
    <3>1. t[j] = b[j - (i - 1)] /\ j - (i - 1) \in 1..(n - i)
      BY <1>1, <1>2, <1>4, <1>6, <1>8, <2>2
    <3>2. t[j] = s[j + 1] /\ j + 1 \in DOMAIN s
      <4>1. i + (j - (i - 1)) = j + 1 /\ j + 1 \in 1..n
        BY <1>1, <1>2
      <4>2. b[j - (i - 1)] = s[i + (j - (i - 1))]
        BY <1>6, <3>1
      <4>3. QED
        BY <1>9, <3>1, <4>1, <4>2
    <3>3. QED
      BY <3>2 DEF ToSet
  <2>3. QED
    BY <1>1, <1>2, <2>1, <2>2
<1>11. ToSet(t) \subseteq ToSet(s)
  BY <1>9, <1>10 DEF ToSet
<1>12. t = RemoveAt(s, i)
  BY <1>2, <1>3, <1>5, <1>7 DEF RemoveAt
<1>13. QED
  BY <1>8, <1>11, <1>12 DEF ToSet

LEMMA TailSet ==
  ASSUME NEW S, NEW s \in Seq(S), s # << >>
  PROVE  Tail(s) \in Seq(S) /\ ToSet(Tail(s)) \subseteq ToSet(s) /\ Head(s) \in ToSet(s) /\ Head(s) \in S
         /\ Head(s) = s[1] /\ Len(s) \in Nat \ {0} /\ Len(Tail(s)) = Len(s) - 1
         /\ \A j \in 1..(Len(s) - 1) : Tail(s)[j] = s[j + 1]
<1>1. PICK t : t = Tail(s)
  OBVIOUS
<1>2. PICK n : n = Len(s) /\ n \in Nat /\ n # 0 /\ DOMAIN s = 1..n
  OBVIOUS
<1>3. t \in Seq(S) /\ Len(t) = n - 1 /\ Head(s) \in S /\ \A j \in 1..(n - 1) : t[j] = s[j + 1]
  BY <1>1, <1>2, HeadTailProperties
<1>4. DOMAIN t = 1..(n - 1)
  BY <1>3
<1>5. ToSet(t) \subseteq ToSet(s)
  BY <1>2, <1>3, <1>4 DEF ToSet
<1>6. Head(s) = s[1] /\ s[1] \in ToSet(s)
  BY <1>2 DEF ToSet
<1>7. QED
  BY <1>1, <1>2, <1>3, <1>5, <1>6

LEMMA EmptySet == ToSet(<< >>) = {}
  BY DEF ToSet

\* A step that sends nothing leaves no packet behind but those it found.
LEMMA NothingSent ==
  ASSUME CameraInv, Coherent, Around' \subseteq Around, MaxParts \in Nat,
         camera' = camera
           \/ /\ camera'.unit = None /\ camera'.seq = camera.seq /\ camera'.units = camera.units
              /\ camera' \in [unit : CameraUnits \cup {None}, part : Nat, seq : Sequence, ssrc : Nat, units : Nat]
  PROVE  CameraInv' /\ Coherent'
<1>1. CASE camera' = camera
  BY <1>1 DEF CameraInv, Coherent, Past
<1>2. CASE /\ camera'.unit = None /\ camera'.seq = camera.seq /\ camera'.units = camera.units
           /\ camera' \in [unit : CameraUnits \cup {None}, part : Nat, seq : Sequence, ssrc : Nat, units : Nat]
  <2>1. Index(camera.seq) \in Nat
    BY IndexType DEF CameraInv
  <2>2. Index(camera.seq) <= camera.units * MaxParts
    <3>1. CASE camera.unit = None
      BY <3>1 DEF CameraInv
    <3>2. CASE camera.unit # None
      <4>1. /\ camera.units \in Nat /\ camera.units # 0 /\ camera.part \in Nat /\ camera.part <= MaxParts + 1
            /\ Index(camera.seq) + 1 <= (camera.units - 1) * MaxParts + camera.part
        BY <3>2 DEF CameraInv, CameraUnits
      <4>2. (camera.units - 1) * MaxParts + MaxParts = camera.units * MaxParts
            /\ (camera.units - 1) * MaxParts \in Int
        BY <4>1
      <4>3. QED
        BY <2>1, <4>1, <4>2
    <3>3. QED
      BY <3>1, <3>2
  <2>3. CameraInv'
    BY <1>2, <2>2 DEF CameraInv
  <2>4. \A p \in Around : Past(p)'
    BY <1>2 DEF Coherent, Past
  <2>5. QED
    BY <2>3, <2>4 DEF Coherent
<1>3. QED
  BY <1>1, <1>2

\* The packet that is sent next.
LEMMA SentCoherent ==
  ASSUME CameraInv, Coherent, Around \subseteq Packets, NEW r \in Packets, Around' \subseteq Around \cup {r},
         r.seq = camera.seq, Index(camera'.seq) = Index(camera.seq) + 1,
         camera'.unit = r.u, camera'.part = r.part + 1, camera'.units = r.u.id,
         \/ camera.unit = r.u /\ camera.part = r.part /\ r.u.id = camera.units
         \/ r.part = 1 /\ r.u.id = camera.units + 1
  PROVE  Coherent'
<1>1. Index(camera.seq) \in Nat /\ \A p \in Packets : Index(p.seq) \in Nat /\ p.u.id \in Nat /\ p.u \in CameraUnits
  BY IndexType DEF CameraInv, Packets, CameraUnits
<1>2. camera.units \in Nat /\ r.u # None
  BY <1>1, NoUnit DEF CameraInv
<1>3. ASSUME NEW p \in Around PROVE Past(p)'
  <2>1. Index(p.seq) < Index(camera.seq) /\ p.u.id <= camera.units /\ p \in Packets
        /\ (camera.unit # None /\ p.u.id = camera.units => p.u = camera.unit)
    BY <1>3 DEF Coherent, Past
  <2>2. QED
    BY <1>1, <1>2, <2>1 DEF Past
<1>4. Past(r)'
  BY <1>1 DEF Past
<1>5. ASSUME NEW p \in Around PROVE Linked(p, r) /\ Linked(r, p)
  <2>1. Past(p) /\ p \in Packets
    BY <1>5 DEF Coherent
  <2>2. QED
    BY <1>1, <1>2, <2>1 DEF Past, Linked
<1>6. Linked(r, r)
  BY <1>1 DEF Linked
<1>7. QED
  BY <1>3, <1>4, <1>5, <1>6 DEF Coherent

\* What the invariant says of single packets.
LEMMA AroundTyped == UnitInv => Around \subseteq Packets /\ ToSet(wire) \subseteq Packets
<1> SUFFICES ASSUME UnitInv PROVE Around \subseteq Packets /\ ToSet(wire) \subseteq Packets
  OBVIOUS
<1>1. \A s \in Seq(Packets) : ToSet(s) \subseteq Packets
  BY DEF ToSet
<1>2. wire \in Seq(Packets) /\ queue \in Seq(Packets) /\ held \in Packets \cup {None}
  BY DEF UnitInv, UnitTypeOK
<1>3. meta.wire \in Seq(Packets)
  BY DEF UnitInv, DocumentInv
<1>4. jpeg.headers \in Seq(Packets)
  BY DEF UnitInv, FrameInv
<1>5. ToSet(wire) \subseteq Packets /\ ToSet(queue) \subseteq Packets /\ ToSet(meta.wire) \subseteq Packets
      /\ ToSet(jpeg.headers) \subseteq Packets
  BY <1>1, <1>2, <1>3, <1>4
<1>6. QED
  BY <1>2, <1>5 DEF Around

LEMMA BoundsNat == MaxParts \in Nat /\ MaxCameraUnits \in Nat /\ MaxControls \in Nat
  BY PayloadAssumption DEF PayloadAssumption

LEMMA NothingOut == out' = None => DocumentsWhole' /\ FramesOwnHeaders'
  BY DEF DocumentsWhole, FramesOwnHeaders

\* The steps of the camera and of the network.
LEMMA NetworkOnly ==
  ASSUME UnitInv, UNCHANGED <<setup, play, meta, queue, term, jpeg, failed>>, out' = None,
         held' \in Packets \cup {None}, wire' \in Seq(Packets), CameraInv', Coherent',
         play.control = "flushed" => held' = None,
         camera'.unit # None => camera'.unit.cseq <= play.cseq,
         \A p \in Around' : p.u.cseq <= play.cseq
  PROVE  UnitInv'
<1>1. UnitTypeOK'
  BY DEF UnitInv, UnitTypeOK
<1>2. DocumentInv'
  BY DEF UnitInv, DocumentInv
<1>3. FrameInv'
  BY DEF UnitInv, FrameInv
<1>4. PlayInv'
  BY DEF UnitInv, PlayInv
<1>5. TerminalInv'
  BY DEF UnitInv, TerminalInv
<1>6. QED
  BY <1>1, <1>2, <1>3, <1>4, <1>5, NothingOut DEF UnitInv

LEMMA SendUnit ==
  ASSUME UnitInv, Unwrapped, Send
  PROVE  UnitInv'
<1>1. UNCHANGED <<setup, faults, held, play, seen, meta, queue, term, jpeg, depay, failed>> /\ out' = None
  BY DEF Send, Quiet
<1>2. /\ camera \in [unit : CameraUnits \cup {None}, part : Nat, seq : Sequence, ssrc : Nat, units : Nat]
      /\ camera.units <= MaxCameraUnits
  BY DEF UnitInv, CameraInv
<1>3. PICK s : s = (camera.seq + 1) % 2^16
  OBVIOUS
<1>4. PICK n \in Nat : n = Index(camera.seq)
  BY <1>2, IndexType
<1>5. PICK k \in Nat : k = camera.units
  BY <1>2
<1>6. ASSUME NEW r \in Packets, r.seq = camera.seq, wire' = Append(wire, r), camera'.seq = s,
             camera' \in [unit : CameraUnits \cup {None}, part : Nat, seq : Sequence, ssrc : Nat, units : Nat],
             camera'.unit = r.u, camera'.part = r.part + 1, camera'.units = r.u.id, Index(s) = n + 1,
             r.u.parts <= MaxParts, r.part <= r.u.parts, r.u.id # 0, r.u.id <= MaxCameraUnits,
             n + 2 <= (r.u.id - 1) * MaxParts + (r.part + 1), r.u.cseq <= play.cseq,
             \/ camera.unit = r.u /\ camera.part = r.part /\ r.u.id = camera.units
             \/ r.part = 1 /\ r.u.id = camera.units + 1
      PROVE  UnitInv'
  <2>1. wire' \in Seq(Packets) /\ ToSet(wire') = ToSet(wire) \cup {r}
    BY <1>6, AppendSet DEF UnitInv, UnitTypeOK
  <2>2. Around' \subseteq Around \cup {r}
    BY <1>1, <2>1 DEF Around
  <2>3. Coherent'
    BY <1>4, <1>6, <2>2, AroundTyped, SentCoherent DEF UnitInv
  <2>4. r.u # None /\ r.u \in CameraUnits /\ r.part \in Nat /\ r.u.parts \in Nat /\ r.u.id \in Nat
    BY NoUnit DEF Packets, CameraUnits
  <2>5. CameraInv'
    <3>1. camera'.unit # None /\ camera'.unit.id = camera'.units /\ camera'.units # 0
          /\ camera'.unit.parts <= MaxParts /\ camera'.units <= MaxCameraUnits
      BY <1>6, <2>4
    <3>2. camera'.part <= camera'.unit.parts + 1 /\ camera'.part # 0
      BY <1>6, <2>4
    <3>3. Index(camera'.seq) + 1 <= (camera'.units - 1) * MaxParts + camera'.part
      <4>1. PICK m : m = (r.u.id - 1) * MaxParts
        OBVIOUS
      <4>2. n + 2 <= m + (r.part + 1) /\ (camera'.units - 1) * MaxParts = m
        BY <1>6, <4>1
      <4>3. Index(camera'.seq) + 1 = n + 2 /\ camera'.part = r.part + 1
        BY <1>6
      <4>4. QED
        BY <4>2, <4>3
    <3>4. QED
      BY <1>6, <3>1, <3>2, <3>3 DEF CameraInv
  <2>6. \A p \in Around' : p.u.cseq <= play.cseq
    BY <1>6, <2>2 DEF UnitInv, PlayInv
  <2>7. held' \in Packets \cup {None} /\ (play.control = "flushed" => held' = None)
    BY <1>1 DEF UnitInv, UnitTypeOK, TerminalInv
  <2>8. QED
    BY <1>1, <1>6, <2>1, <2>3, <2>5, <2>6, <2>7, NetworkOnly
\* There is a number for the packet.
<1>7. ASSUME NEW i \in Nat, i <= MaxCameraUnits, n + 1 <= i * MaxParts
      PROVE  s \in Sequence /\ Index(s) = n + 1
  <2>1. i * MaxParts <= MaxCameraUnits * MaxParts
    BY <1>7, BoundsNat
  <2>2. MaxCameraUnits * MaxParts < Numbers /\ MaxCameraUnits * MaxParts \in Nat /\ i * MaxParts \in Nat
    BY <1>7, BoundsNat DEF Unwrapped
  <2>3. n + 1 < Numbers
    BY <1>7, <2>1, <2>2, NumbersNat
  <2>4. QED
    BY <1>2, <1>3, <1>4, <2>3, NextIndex
<1>8. CASE /\ camera.unit # None /\ camera.part <= camera.unit.parts
           /\ wire' = Append(wire, Packet(camera.unit, camera.part, camera.seq))
           /\ camera' = [camera EXCEPT !.part = @ + 1, !.seq = (@ + 1) % 2^16]
  <2>1. PICK r : r = Packet(camera.unit, camera.part, camera.seq)
    OBVIOUS
  <2>2. r \in Packets /\ r.u = camera.unit /\ r.part = camera.part /\ r.seq = camera.seq
    BY <1>2, <1>8, <2>1 DEF Packet, Packets
  <2>3. /\ r.u.id = k /\ k # 0 /\ r.u.parts <= MaxParts /\ r.part <= r.u.parts /\ r.part # 0
        /\ n + 1 <= (k - 1) * MaxParts + r.part /\ r.u.parts \in Nat /\ r.part \in Nat
    BY <1>2, <1>4, <1>5, <1>8, <2>2 DEF UnitInv, CameraInv, CameraUnits
  <2>4. (k - 1) * MaxParts + r.part <= k * MaxParts /\ (k - 1) * MaxParts \in Nat
    <3>1. (k - 1) * MaxParts + MaxParts = k * MaxParts /\ (k - 1) * MaxParts \in Nat
      BY <2>3, BoundsNat
    <3>2. QED
      BY <2>3, <3>1, BoundsNat
  <2>5. s \in Sequence /\ Index(s) = n + 1
    <3>1. n + 1 <= k * MaxParts
      BY <2>3, <2>4, BoundsNat
    <3>2. QED
      BY <1>2, <1>5, <1>7, <3>1
  <2>6. camera' = [camera EXCEPT !.part = r.part + 1, !.seq = s]
    BY <1>3, <1>8, <2>2
  <2>7. /\ camera' \in [unit : CameraUnits \cup {None}, part : Nat, seq : Sequence, ssrc : Nat, units : Nat]
        /\ camera'.seq = s /\ camera'.unit = r.u /\ camera'.part = r.part + 1 /\ camera'.units = k
    <3>1. PICK y \in Nat : y = r.part + 1
      BY <2>3
    <3>2. camera' = [camera EXCEPT !.part = y, !.seq = s]
      BY <2>6, <3>1
    <3>3. camera' \in [unit : CameraUnits \cup {None}, part : Nat, seq : Sequence, ssrc : Nat, units : Nat]
      BY <1>2, <2>5, <3>2
    <3>4. camera'.seq = s /\ camera'.unit = camera.unit /\ camera'.part = y /\ camera'.units = camera.units
      BY <1>2, <3>2
    <3>5. QED
      BY <1>5, <2>2, <3>1, <3>3, <3>4
  <2>8. n + 2 <= (k - 1) * MaxParts + (r.part + 1)
    BY <2>3, <2>4
  <2>9. r.u.cseq <= play.cseq
    BY <1>8, <2>2 DEF UnitInv, PlayInv
  <2>10. wire' = Append(wire, r)
    BY <1>8, <2>1
  <2>11. QED
    BY <1>2, <1>5, <1>6, <2>2, <2>3, <2>5, <2>7, <2>8, <2>9, <2>10
<1>9. ASSUME NEW parts \in 1..MaxParts, NEW last \in BOOLEAN, NEW style \in {"good", "bad", "big", "legacy"},
             NEW u, u = CameraUnit(camera.units + 1, camera.ssrc, play.cseq, parts, last, style),
             IF camera.unit = None THEN TRUE ELSE camera.part > camera.unit.parts /\ ~camera.unit.last,
             camera.units < MaxCameraUnits, wire' = Append(wire, Packet(u, 1, camera.seq)),
             camera' = [camera EXCEPT !.unit = u, !.part = 2, !.seq = (@ + 1) % 2^16, !.units = @ + 1]
      PROVE  UnitInv'
  <2>1. PICK r : r = Packet(u, 1, camera.seq)
    OBVIOUS
  <2>2. play.cseq \in Nat \ {0}
    BY DEF UnitInv, PlayInv
  <2>3. u \in CameraUnits /\ u.id = k + 1 /\ u.parts = parts /\ u.cseq = play.cseq
    BY <1>2, <1>5, <1>9, <2>2, BoundsNat DEF CameraUnit, CameraUnits
  <2>4. r \in Packets /\ r.u = u /\ r.part = 1 /\ r.seq = camera.seq
    BY <1>2, <2>1, <2>3 DEF Packet, Packets
  <2>5. n <= k * MaxParts /\ k * MaxParts \in Nat
    <3>1. CASE camera.unit = None
      BY <1>4, <1>5, <3>1, BoundsNat DEF UnitInv, CameraInv
    <3>2. CASE camera.unit # None
      <4>1. /\ camera.unit.parts <= MaxParts /\ camera.part <= camera.unit.parts + 1
            /\ n + 1 <= (k - 1) * MaxParts + camera.part /\ k # 0
            /\ camera.part \in Nat /\ camera.unit.parts \in Nat
        BY <1>2, <1>4, <1>5, <3>2 DEF UnitInv, CameraInv, CameraUnits
      <4>2. (k - 1) * MaxParts + MaxParts = k * MaxParts /\ (k - 1) * MaxParts \in Nat
        BY <4>1, BoundsNat
      <4>3. QED
        BY <4>1, <4>2, BoundsNat
    <3>3. QED
      BY <3>1, <3>2
  <2>6. n + 1 <= (k + 1) * MaxParts /\ k + 1 <= MaxCameraUnits
    <3>1. (k + 1) * MaxParts = k * MaxParts + MaxParts /\ MaxParts >= 1
      BY <1>9, BoundsNat
    <3>2. QED
      BY <1>2, <1>5, <1>9, <2>5, <3>1, BoundsNat
  <2>7. s \in Sequence /\ Index(s) = n + 1
    BY <1>7, <2>6
  <2>8. camera' = [camera EXCEPT !.unit = u, !.part = 2, !.seq = s, !.units = k + 1]
    BY <1>3, <1>5, <1>9
  <2>9. /\ camera' \in [unit : CameraUnits \cup {None}, part : Nat, seq : Sequence, ssrc : Nat, units : Nat]
        /\ camera'.seq = s /\ camera'.unit = u /\ camera'.part = 2 /\ camera'.units = k + 1
    <3>1. PICK y \in Nat : y = k + 1
      OBVIOUS
    <3>2. camera' = [camera EXCEPT !.unit = u, !.part = 2, !.seq = s, !.units = y]
      BY <2>8, <3>1
    <3>3. camera' \in [unit : CameraUnits \cup {None}, part : Nat, seq : Sequence, ssrc : Nat, units : Nat]
      BY <1>2, <2>3, <2>7, <3>2
    <3>4. camera'.seq = s /\ camera'.unit = u /\ camera'.part = 2 /\ camera'.units = y
      BY <1>2, <3>2
    <3>5. QED
      BY <3>1, <3>3, <3>4
  <2>10. n + 2 <= ((k + 1) - 1) * MaxParts + (1 + 1)
    <3>1. ((k + 1) - 1) = k
      OBVIOUS
    <3>2. QED
      BY <2>5, <3>1
  <2>11. r.u.parts <= MaxParts /\ r.part <= r.u.parts /\ r.u.id # 0 /\ r.u.id <= MaxCameraUnits
         /\ r.u.cseq <= play.cseq /\ wire' = Append(wire, r) /\ camera'.part = r.part + 1
    <3>1. parts <= MaxParts /\ 1 <= parts /\ parts \in Nat
      BY BoundsNat
    <3>2. r.u.parts <= MaxParts /\ r.part <= r.u.parts
      BY <2>3, <2>4, <3>1
    <3>3. r.u.id # 0 /\ r.u.id <= MaxCameraUnits
      BY <2>3, <2>4, <2>6
    <3>4. r.u.cseq <= play.cseq
      BY <2>2, <2>3, <2>4
    <3>5. wire' = Append(wire, r)
      BY <1>9, <2>1
    <3>6. camera'.part = r.part + 1
      BY <2>4, <2>9
    <3>7. QED
      BY <3>2, <3>3, <3>4, <3>5, <3>6
  <2>12. n + 2 <= (r.u.id - 1) * MaxParts + (r.part + 1)
    BY <2>3, <2>4, <2>10
  <2>13. QED
    BY <1>5, <1>6, <2>3, <2>4, <2>7, <2>9, <2>11, <2>12
<1>10. QED
  BY <1>8, <1>9 DEF Send

LEMMA CameraReset ==
  ASSUME CameraInv, NEW n \in Nat, camera' = [camera EXCEPT !.unit = None, !.ssrc = n]
  PROVE  /\ camera'.unit = None /\ camera'.seq = camera.seq /\ camera'.units = camera.units
         /\ camera' \in [unit : CameraUnits \cup {None}, part : Nat, seq : Sequence, ssrc : Nat, units : Nat]
<1>1. camera \in [unit : CameraUnits \cup {None}, part : Nat, seq : Sequence, ssrc : Nat, units : Nat]
  BY DEF CameraInv
<1>2. QED
  BY <1>1

LEMMA NetworkStep ==
  ASSUME UnitInv, Restart \/ Lose \/ Enter
  PROVE  UnitInv'
<1>1. UNCHANGED <<setup, play, meta, queue, term, jpeg, failed>> /\ out' = None
  BY DEF Restart, Lose, Enter, Quiet
<1>2. wire \in Seq(Packets) /\ held \in Packets \cup {None} /\ CameraInv /\ Coherent
      /\ (play.control = "flushed" => held = None /\ ~play.accepting)
  BY DEF UnitInv, UnitTypeOK, PlayInv, TerminalInv
<1>3. \A p \in Around : p.u.cseq <= play.cseq
  BY DEF UnitInv, PlayInv
<1>4. camera.unit # None => camera.unit.cseq <= play.cseq
  BY DEF UnitInv, PlayInv
<1>5. CASE Restart
  <2>1. UNCHANGED <<wire, held>>
    BY <1>5 DEF Restart
  <2>2. PICK n \in Nat : n = camera.ssrc + 1
    BY <1>2 DEF CameraInv
  <2>3. camera' = [camera EXCEPT !.unit = None, !.ssrc = n]
    BY <1>5, <2>2 DEF Restart
  <2>4. Around' = Around
    BY <1>1, <2>1 DEF Around
  <2>5. CameraInv' /\ Coherent' /\ camera'.unit = None
    BY <1>2, <2>3, <2>4, CameraReset, NothingSent, BoundsNat
  <2>6. QED
    BY <1>1, <1>2, <1>3, <2>1, <2>4, <2>5, NetworkOnly
<1>6. CASE Lose
  <2>1. UNCHANGED <<camera, held>>
    BY <1>6 DEF Lose
  <2>2. wire' \in Seq(Packets) /\ ToSet(wire') \subseteq ToSet(wire)
    BY <1>2, <1>6, RemoveSet DEF Lose
  <2>3. Around' \subseteq Around
    BY <1>1, <2>1, <2>2 DEF Around
  <2>4. CameraInv' /\ Coherent'
    BY <1>2, <2>1, <2>3, NothingSent, BoundsNat
  <2>5. QED
    BY <1>1, <1>2, <1>3, <1>4, <2>1, <2>2, <2>3, <2>4, NetworkOnly
<1>7. CASE Enter
  <2>1. PICK i \in DOMAIN wire, again \in BOOLEAN :
          held' = (IF play.accepting THEN wire[i] ELSE None) /\ wire' = (IF again THEN wire ELSE RemoveAt(wire, i))
    BY <1>7 DEF Enter
  <2>2. camera' = camera
    BY <1>7 DEF Enter
  <2>3. wire' \in Seq(Packets) /\ ToSet(wire') \subseteq ToSet(wire) /\ wire[i] \in ToSet(wire) /\ wire[i] \in Packets
    BY <1>2, <2>1, RemoveSet
  <2>4. Around' \subseteq Around
    BY <1>1, <2>1, <2>3 DEF Around
  <2>5. CameraInv' /\ Coherent'
    BY <1>2, <2>2, <2>4, NothingSent, BoundsNat
  <2>6. held' \in Packets \cup {None} /\ (play.control = "flushed" => held' = None)
    BY <1>2, <2>1, <2>3
  <2>7. QED
    BY <1>1, <1>2, <1>3, <1>4, <2>2, <2>3, <2>4, <2>5, <2>6, NetworkOnly
<1>8. QED
  BY <1>5, <1>6, <1>7

\* The steps of a control.
Plays == [accepting : BOOLEAN, cseq : Nat \ {0}, control : {"none", "PAUSE", "PLAY", "SEEK", "flushed"}, controls : Nat]
LEMMA ControlStep ==
  ASSUME UnitInv, NEW kind \in {"PAUSE", "PLAY", "SEEK"}, Control(kind)
  PROVE  UnitInv'
<1>1. /\ UNCHANGED <<setup, camera, faults, wire, held, queue, term, jpeg, depay, failed>> /\ out' = None
      /\ play' = [play EXCEPT !.accepting = FALSE, !.control = kind, !.controls = @ + 1]
      /\ meta' = [NoMeta EXCEPT !.ssrc = meta.ssrc, !.last = meta.last]
      /\ play.control = "none" /\ play.controls < MaxControls
  BY DEF Control, Quiet
<1>2. play \in Plays /\ play.cseq <= play.controls + 1
  BY <1>1 DEF UnitInv, PlayInv, Plays
<1>3. PICK n \in Nat : n = play.controls + 1
  BY <1>2 DEF Plays
<1>4. play' = [play EXCEPT !.accepting = FALSE, !.control = kind, !.controls = n]
  BY <1>1, <1>3
<1>5. play' \in Plays
  BY <1>2, <1>4 DEF Plays
<1>6. play'.accepting = FALSE /\ play'.control = kind /\ play'.controls = n /\ play'.cseq = play.cseq
  BY <1>2, <1>4 DEF Plays
<1>7. meta.ssrc \in Nat /\ meta.last \in Sequence
  BY DEF UnitInv, DocumentInv
<1>8. meta' = [active |-> FALSE, discarding |-> FALSE, have |-> FALSE, ssrc |-> meta.ssrc, last |-> meta.last, wire |-> << >>]
  BY <1>1 DEF NoMeta
<1>9. DocumentInv'
  BY <1>7, <1>8 DEF DocumentInv
<1>10. Around' \subseteq Around
  <2>1. meta'.active = FALSE
    BY <1>8
  <2>2. UNCHANGED <<wire, held, queue, jpeg>>
    BY <1>1
  <2>3. QED
    BY <2>1, <2>2 DEF Around
<1>11. CameraInv' /\ Coherent'
  BY <1>1, <1>10, NothingSent, BoundsNat DEF UnitInv
<1>12. FrameInv' /\ UnitTypeOK'
  BY <1>1 DEF UnitInv, FrameInv, UnitTypeOK
<1>13. PlayInv'
  BY <1>1, <1>2, <1>3, <1>5, <1>6, <1>10, BoundsNat DEF UnitInv, PlayInv, Plays
<1>14. TerminalInv'
  BY <1>1, <1>6 DEF UnitInv, TerminalInv
<1>15. QED
  BY <1>1, <1>9, <1>11, <1>12, <1>13, <1>14, NothingOut DEF UnitInv

LEMMA FlushStep ==
  ASSUME UnitInv, Flush
  PROVE  UnitInv'
<1>1. /\ UNCHANGED <<setup, camera, faults, wire, held, seen, meta, failed>> /\ out' = None
      /\ play' = [play EXCEPT !.control = "flushed"] /\ queue' = << >> /\ jpeg' = NoJpeg
      /\ term' = [pending |-> FALSE, ended |-> FALSE, by |-> 0]
      /\ play.control \in {"PLAY", "SEEK"} /\ setup.recorded /\ held = None
  BY DEF Flush, Quiet, Flushed
<1>2. play \in Plays /\ play.cseq <= play.controls /\ ~play.accepting
  BY <1>1 DEF UnitInv, PlayInv, Plays
<1>3. play' \in Plays /\ play'.accepting = play.accepting /\ play'.cseq = play.cseq /\ play'.control = "flushed"
      /\ play'.controls = play.controls
  BY <1>1, <1>2 DEF Plays
<1>4. FrameInv' /\ jpeg'.headers = << >>
  BY <1>1, NumbersNat DEF FrameInv, NoJpeg, Sequence
<1>5. Around' \subseteq Around
  BY <1>1, <1>4, EmptySet DEF Around
<1>6. CameraInv' /\ Coherent'
  BY <1>1, <1>5, NothingSent, BoundsNat DEF UnitInv
<1>7. DocumentInv' /\ UnitTypeOK'
  BY <1>1 DEF UnitInv, DocumentInv, UnitTypeOK
<1>8. PlayInv'
  BY <1>1, <1>2, <1>3, <1>5 DEF UnitInv, PlayInv, Plays
<1>9. TerminalInv'
  BY <1>1 DEF TerminalInv
<1>10. QED
  BY <1>1, <1>4, <1>6, <1>7, <1>8, <1>9, NothingOut DEF UnitInv

LEMMA PlayedStep ==
  ASSUME UnitInv, Played \/ Paused
  PROVE  UnitInv'
<1>1. UNCHANGED <<setup, faults, wire, held, seen, meta, queue, term, jpeg, depay, failed>> /\ out' = None
  BY DEF Played, Paused, Quiet
<1>2. play \in Plays /\ play.controls <= MaxControls
  BY DEF UnitInv, PlayInv, Plays
<1>3. Around' = Around
  BY <1>1 DEF Around
<1>4. CameraInv' /\ Coherent' /\ (camera' = camera \/ camera'.unit = None)
  <2>1. CASE camera' = camera
    BY <1>3, <2>1, NothingSent, BoundsNat DEF UnitInv
  <2>2. CASE camera' = [camera EXCEPT !.unit = None]
    <3>1. PICK n \in Nat : n = camera.ssrc
      BY DEF UnitInv, CameraInv
    <3>2. camera' = [camera EXCEPT !.unit = None, !.ssrc = n]
      BY <2>2, <3>1 DEF UnitInv, CameraInv
    <3>3. QED
      BY <1>3, <3>2, CameraReset, NothingSent, BoundsNat DEF UnitInv
  <2>3. QED
    BY <2>1, <2>2 DEF Played, Paused
<1>5. DocumentInv' /\ FrameInv' /\ UnitTypeOK'
  BY <1>1 DEF UnitInv, DocumentInv, FrameInv, UnitTypeOK
<1>6. /\ play' \in Plays /\ play'.controls = play.controls /\ play'.control = "none"
      /\ play'.cseq >= play.cseq /\ play'.cseq <= play'.controls + 1
      /\ (play'.cseq = play.cseq \/ IF setup.recorded THEN play.control = "flushed" ELSE play.control = "PLAY")
  <2>1. CASE Played
    <3>1. PICK n \in Nat \ {0} : n = play.cseq + 1
      BY <1>2 DEF Plays
    <3>2. play' = [play EXCEPT !.accepting = TRUE, !.cseq = n, !.control = "none"]
          /\ play.control = (IF setup.recorded THEN "flushed" ELSE "PLAY")
      BY <2>1, <3>1 DEF Played
    <3>3. play.cseq <= play.controls
      BY <1>2, <3>2 DEF UnitInv, PlayInv, Plays
    <3>4. play' \in Plays /\ play'.controls = play.controls /\ play'.control = "none" /\ play'.cseq = n
      BY <1>2, <3>2 DEF Plays
    <3>5. play.controls \in Nat /\ play.cseq \in Nat
      BY <1>2 DEF Plays
    <3>6. QED
      BY <3>1, <3>2, <3>3, <3>4, <3>5
  <2>2. CASE Paused
    <3>1. play' = [play EXCEPT !.control = "none"] /\ play.control = "PAUSE"
      BY <2>2 DEF Paused
    <3>2. play' \in Plays /\ play'.controls = play.controls /\ play'.control = "none" /\ play'.cseq = play.cseq
      BY <1>2, <3>1 DEF Plays
    <3>3. play.cseq <= play.controls /\ play.controls \in Nat /\ play.cseq \in Nat
      BY <1>2, <3>1 DEF UnitInv, PlayInv, Plays
    <3>4. QED
      BY <3>2, <3>3
  <2>3. QED
    BY <2>1, <2>2
<1>7. PlayInv'
  <2>1. \A p \in Around : p.u.cseq <= play'.cseq
    <3>1. \A p \in Around : p.u.cseq <= play.cseq /\ p.u.cseq \in Nat
      BY AroundTyped DEF UnitInv, PlayInv, Packets, CameraUnits
    <3>2. QED
      BY <1>2, <1>6, <3>1 DEF Plays
  <2>2. camera'.unit # None => camera'.unit.cseq <= play'.cseq
    <3>1. camera.unit # None => camera.unit.cseq <= play.cseq /\ camera.unit.cseq \in Nat
      BY DEF UnitInv, PlayInv, CameraInv, CameraUnits
    <3>2. QED
      BY <1>2, <1>4, <1>6, <3>1 DEF Plays
  <2>3. QED
    BY <1>2, <1>3, <1>6, <2>1, <2>2 DEF PlayInv, Plays
<1>8. TerminalInv'
  <2>1. TerminalInv
    BY DEF UnitInv
  <2>2. CASE play'.cseq = play.cseq
    BY <1>1, <1>6, <2>1, <2>2 DEF TerminalInv
  <2>3. CASE IF setup.recorded THEN play.control = "flushed" ELSE play.control = "PLAY"
    <3>1. ~term.pending /\ (setup.recorded => queue = << >>)
      BY <2>1, <2>3 DEF TerminalInv
    <3>2. QED
      BY <1>1, <1>6, <2>1, <3>1 DEF TerminalInv
  <2>4. QED
    BY <1>6, <2>2, <2>3
<1>9. QED
  BY <1>1, <1>4, <1>5, <1>7, <1>8, NothingOut DEF UnitInv

\* The metadata assembler: what it holds after a packet.
LEMMA ExpireStep ==
  ASSUME UnitInv, Expire
  PROVE  UnitInv'
<1>1. /\ UNCHANGED <<setup, camera, faults, wire, held, play, seen, queue, term, jpeg, depay, failed>>
      /\ out' = None /\ meta' = Drop(meta)
  BY DEF Expire, Quiet
<1>2. meta \in [active : BOOLEAN, discarding : BOOLEAN, have : BOOLEAN, ssrc : Nat, last : Sequence, wire : Seq(Packets)]
  BY DEF UnitInv, DocumentInv
<1>3. meta' = [meta EXCEPT !.active = FALSE, !.discarding = TRUE, !.wire = << >>]
  BY <1>1 DEF Drop
<1>4. meta'.active = FALSE
      /\ meta' \in [active : BOOLEAN, discarding : BOOLEAN, have : BOOLEAN, ssrc : Nat, last : Sequence, wire : Seq(Packets)]
  <2>1. << >> \in Seq(Packets) /\ FALSE \in BOOLEAN /\ TRUE \in BOOLEAN
    OBVIOUS
  <2>2. meta' \in [active : BOOLEAN, discarding : BOOLEAN, have : BOOLEAN, ssrc : Nat, last : Sequence,
                   wire : Seq(Packets)]
    BY <1>2, <1>3, <2>1, Zenon
  <2>3. meta'.active = FALSE
    BY <1>2, <1>3
  <2>4. QED
    BY <2>2, <2>3
<1>5. DocumentInv'
  BY <1>4 DEF DocumentInv
<1>6. Around' \subseteq Around
  <2>1. UNCHANGED <<wire, held, queue, jpeg>>
    BY <1>1
  <2>2. QED
    BY <1>4, <2>1 DEF Around
<1>7. CameraInv' /\ Coherent'
  BY <1>1, <1>6, NothingSent, BoundsNat DEF UnitInv
<1>8. FrameInv' /\ UnitTypeOK'
  BY <1>1 DEF UnitInv, FrameInv, UnitTypeOK
<1>9. PlayInv'
  BY <1>1, <1>6 DEF UnitInv, PlayInv
<1>10. TerminalInv'
  BY <1>1 DEF UnitInv, TerminalInv
<1>11. QED
  BY <1>1, <1>5, <1>7, <1>8, <1>9, <1>10, NothingOut DEF UnitInv

\* A packet whose number follows that of another one comes right after it.
LEMMA Successor ==
  ASSUME UnitInv, NEW q \in Around, NEW p \in Around, Follows(q.seq, p.seq), p.part # 1
  PROVE  p.u = q.u /\ p.part = q.part + 1
<1>1. q \in Packets /\ p \in Packets /\ camera.seq \in Sequence
  BY AroundTyped DEF UnitInv, CameraInv
<1>2. q.seq \in Sequence /\ p.seq \in Sequence
  BY <1>1 DEF Packets
<1>3. Index(q.seq) < Index(camera.seq) /\ Linked(q, p)
  BY DEF UnitInv, Coherent, Past
<1>4. PICK n \in Nat : n = Index(q.seq)
  BY <1>2, IndexType
<1>5. Index(camera.seq) \in Nat /\ Index(camera.seq) < Numbers
  BY <1>1, IndexType
<1>6. n + 1 < Numbers
  BY <1>3, <1>4, <1>5, NumbersNat
<1>7. p.seq = (q.seq + 1) % 2^16
  BY DEF Follows
<1>8. Index(p.seq) = n + 1
  BY <1>2, <1>4, <1>6, <1>7, NextIndex
<1>9. QED
  BY <1>3, <1>4, <1>8 DEF Linked

\* A unit that is continued.
LEMMA Continued ==
  ASSUME NEW w \in Seq(Packets), w # << >>, NEW p \in Packets, NEW t, t = Append(w, p), Run(w),
         p.u = w[Len(w)].u, p.part = w[Len(w)].part + 1
  PROVE  Run(t)
<1>1. PICK n : n = Len(w) /\ n \in Nat /\ n # 0
  OBVIOUS
<1>2. t \in Seq(Packets) /\ Len(t) = n + 1 /\ t[n + 1] = p /\ \A i \in 1..n : t[i] = w[i]
  BY <1>1, AppendProperties
<1>3. \A i \in 1..n : w[i].u = w[1].u /\ w[i].part = i
  BY <1>1 DEF Run
<1>4. n \in 1..n /\ 1 \in 1..n
  BY <1>1
<1>5. p.u = w[1].u /\ p.part = n + 1 /\ t[1] = w[1]
  BY <1>1, <1>2, <1>3, <1>4
<1>6. ASSUME NEW i \in 1..(n + 1) PROVE t[i].u = t[1].u /\ t[i].part = i
  BY <1>1, <1>2, <1>3, <1>5, <1>6
<1>7. QED
  BY <1>2, <1>6 DEF Run

Documents == [active : BOOLEAN, discarding : BOOLEAN, have : BOOLEAN, ssrc : Nat, last : Sequence, wire : Seq(Packets)]

\* A document that the parser accepts is whole if it began once.
LEMMA AcceptedWhole ==
  ASSUME NEW w \in Seq(Packets), w # << >>, Once(w) => Run(w), "complete" \in Verdicts(w)
  PROVE  Whole(w)
<1>1. (IF setup.gzip THEN Whole(w) ELSE WellFormed(w))
  BY DEF Verdicts
<1>2. CASE Whole(w)
  BY <1>2
<1>3. CASE WellFormed(w)
  <2>1. PICK n : n = Len(w) /\ n \in Nat /\ n # 0 /\ DOMAIN w = 1..n
    OBVIOUS
  <2>2. \A i \in 1..n : (w[i].part = 1 <=> i = 1) /\ (Marker(w[i]) <=> i = n)
    BY <1>3, <2>1 DEF WellFormed
  <2>3. Run(w)
    BY <2>1, <2>2 DEF Once
  <2>4. \A i \in 1..n : w[i].u = w[1].u /\ w[i].part = i
    BY <2>1, <2>3 DEF Run
  <2>5. n \in 1..n
    BY <2>1
  <2>6. w[n].part = w[n].u.parts /\ w[n].u = w[1].u /\ w[n].part = n
    BY <2>2, <2>4, <2>5 DEF Marker
  <2>7. QED
    BY <2>1, <2>4, <2>6 DEF Whole
<1>4. QED
  BY <1>1, <1>2, <1>3

\* media_metadata_push().
LEMMA PushedCases ==
  ASSUME NEW m \in Documents, NEW p \in Packets, NEW late \in BOOLEAN, NEW r \in PushMetadata(m, p, late),
         m.active => m.have /\ ~m.discarding
  PROVE  \/ r[1] \in Documents /\ ~r[1].active /\ r[2] # "complete"
         \/ r = <<m, "more">>
         \/ \E w \in {Append(m.wire, p), <<p>>} :
              /\ r[1] \in Documents /\ r[1].have /\ r[1].last = p.seq /\ r[1].wire = w
              /\ r[1].active => ~r[1].discarding
              /\ r[2] = "complete" => "complete" \in Verdicts(w) /\ ~r[1].active
              /\ w = <<p>> \/ (m.active /\ Follows(m.last, p.seq))
<1>1. PICK e \in BOOLEAN : e = (late /\ m.active)
  OBVIOUS
<1>2. PICK m1 : m1 = IF e THEN Drop(m) ELSE m
  OBVIOUS
<1>3. PICK g \in BOOLEAN : g = Gap(m1, p)
  BY DEF Gap
<1>4. PICK m2 : m2 = [(IF g THEN Drop(m1) ELSE m1) EXCEPT !.have = TRUE, !.ssrc = p.u.ssrc, !.last = p.seq]
  OBVIOUS
<1>5. PICK w : w = Append(IF m2.active THEN m2.wire ELSE << >>, p)
  OBVIOUS
<1>6. \/ r = <<m1, "more">>
      \/ m2.discarding /\ r = <<[m2 EXCEPT !.discarding = ~Marker(p)], Problem(g, e)>>
      \/ r = <<[Drop(m2) EXCEPT !.discarding = ~Marker(p)], "limit">>
      \/ ~m2.discarding /\ r = <<[m2 EXCEPT !.active = TRUE, !.wire = w], "more">>
      \/ \E x \in Verdicts(w) : r = <<[m2 EXCEPT !.active = FALSE, !.wire = w], x>>
  BY <1>1, <1>2, <1>3, <1>4, <1>5 DEF PushMetadata
<1>7. p.seq \in Sequence /\ p.u.ssrc \in Nat
  BY DEF Packets, CameraUnits
<1>8. \A d \in Documents : /\ Drop(d) \in Documents /\ ~Drop(d).active /\ Drop(d).have = d.have
                           /\ Drop(d).ssrc = d.ssrc /\ Drop(d).last = d.last
  <2>1. TAKE d \in Documents
  <2>2. << >> \in Seq(Packets)
    OBVIOUS
  <2>3. Drop(d) = [d EXCEPT !.active = FALSE, !.discarding = TRUE, !.wire = << >>]
    BY DEF Drop
  <2>4. Drop(d) \in Documents
    BY <2>2, <2>3, Zenon DEF Documents
  <2>5. QED
    BY <2>3, <2>4 DEF Documents
<1>9. m1 \in Documents /\ (e => ~m1.active) /\ (~e => m1 = m)
  BY <1>2, <1>8
<1>10. PICK m0 : m0 = IF g THEN Drop(m1) ELSE m1
  OBVIOUS
<1>11. m0 \in Documents /\ (g => ~m0.active) /\ (~g => m0 = m1)
  BY <1>8, <1>9, <1>10
<1>12. m2 = [m0 EXCEPT !.have = TRUE, !.ssrc = p.u.ssrc, !.last = p.seq]
  BY <1>4, <1>10
<1>13. m2 \in Documents
  BY <1>7, <1>11, <1>12 DEF Documents
<1>14. m2.active = m0.active /\ m2.wire = m0.wire /\ m2.have = TRUE /\ m2.last = p.seq
       /\ m2.discarding = m0.discarding
  BY <1>11, <1>12 DEF Documents
<1>15. m2.active => m.active /\ m2.wire = m.wire /\ ~g /\ m1 = m /\ ~m2.discarding
  BY <1>9, <1>11, <1>14
<1>16. \A q \in BOOLEAN, d \in Documents :
         [d EXCEPT !.discarding = q] \in Documents /\ [d EXCEPT !.discarding = q].active = d.active
  BY DEF Documents
<1>17. w \in Seq(Packets)
  <2>1. m2.wire \in Seq(Packets) /\ << >> \in Seq(Packets)
    BY <1>13 DEF Documents
  <2>2. (IF m2.active THEN m2.wire ELSE << >>) \in Seq(Packets)
    BY <2>1
  <2>3. QED
    BY <1>5, <2>2, AppendProperties
<1>18. w \in {Append(m.wire, p), <<p>>} /\ (w = <<p>> \/ (m.active /\ Follows(m.last, p.seq)))
  <2>1. CASE m2.active
    <3>1. w = Append(m.wire, p) /\ m.active /\ ~Gap(m, p)
      BY <1>3, <1>5, <1>15, <2>1
    <3>2. Follows(m.last, p.seq)
      BY <3>1 DEF Gap
    <3>3. QED
      BY <3>1, <3>2
  <2>2. CASE ~m2.active
    <3>1. w = Append(<< >>, p)
      BY <1>5, <2>2
    <3>2. Append(<< >>, p) = <<p>>
      OBVIOUS
    <3>3. w = <<p>>
      BY <3>1, <3>2
    <3>4. \A a, b, c : c = b => c \in {a, b} /\ c = b
      OBVIOUS
    <3>5. w \in {Append(m.wire, p), <<p>>} /\ w = <<p>>
      BY <3>3, <3>4
    <3>6. QED
      BY <3>5
  <2>3. QED
    BY <2>1, <2>2
<1>19. \A a \in BOOLEAN : LET d == [m2 EXCEPT !.active = a, !.wire = w] IN
         d \in Documents /\ d.active = a /\ d.wire = w /\ d.have /\ d.last = p.seq
         /\ d.discarding = m2.discarding
  BY <1>13, <1>14, <1>17 DEF Documents
<1>20. CASE r = <<m1, "more">>
  <2>1. r[1] = m1 /\ r[2] = "more"
    BY <1>20
  <2>2. CASE e
    BY <1>9, <2>1, <2>2
  <2>3. CASE ~e
    BY <1>9, <1>20, <2>3
  <2>4. QED
    BY <2>2, <2>3
<1>21. CASE m2.discarding /\ r = <<[m2 EXCEPT !.discarding = ~Marker(p)], Problem(g, e)>>
  <2>1. PICK q \in BOOLEAN : q = ~Marker(p)
    BY DEF Marker
  <2>2. r = <<[m2 EXCEPT !.discarding = q], Problem(g, e)>>
    BY <1>21, <2>1
  <2>3. r[1] = [m2 EXCEPT !.discarding = q] /\ r[2] = Problem(g, e)
    BY <2>2
  <2>4. ~m2.active /\ Problem(g, e) # "complete"
    BY <1>15, <1>21 DEF Problem
  <2>5. QED
    BY <1>13, <1>16, <2>3, <2>4
<1>22. CASE r = <<[Drop(m2) EXCEPT !.discarding = ~Marker(p)], "limit">>
  <2>1. PICK q \in BOOLEAN : q = ~Marker(p)
    BY DEF Marker
  <2>2. PICK d \in Documents : d = Drop(m2) /\ ~d.active
    BY <1>8, <1>13
  <2>3. r = <<[d EXCEPT !.discarding = q], "limit">>
    BY <1>22, <2>1, <2>2
  <2>4. r[1] = [d EXCEPT !.discarding = q] /\ r[2] = "limit"
    BY <2>3
  <2>5. QED
    BY <1>16, <2>2, <2>4
<1>23. CASE ~m2.discarding /\ r = <<[m2 EXCEPT !.active = TRUE, !.wire = w], "more">>
  <2>1. r[1] = [m2 EXCEPT !.active = TRUE, !.wire = w] /\ r[2] = "more"
    BY <1>23
  <2>2. r[1] \in Documents /\ r[1].wire = w /\ r[1].have /\ r[1].last = p.seq /\ ~r[1].discarding
    BY <1>19, <1>23, <2>1
  <2>3. QED
    BY <1>18, <2>1, <2>2
<1>24. ASSUME NEW x \in Verdicts(w), r = <<[m2 EXCEPT !.active = FALSE, !.wire = w], x>>
       PROVE  \E v \in {Append(m.wire, p), <<p>>} :
                /\ r[1] \in Documents /\ r[1].have /\ r[1].last = p.seq /\ r[1].wire = v
                /\ r[1].active => ~r[1].discarding
                /\ r[2] = "complete" => "complete" \in Verdicts(v) /\ ~r[1].active
                /\ v = <<p>> \/ (m.active /\ Follows(m.last, p.seq))
  <2>1. r[1] = [m2 EXCEPT !.active = FALSE, !.wire = w] /\ r[2] = x
    BY <1>24
  <2>2. r[1] \in Documents /\ r[1].wire = w /\ r[1].have /\ r[1].last = p.seq /\ r[1].active = FALSE
    BY <1>19, <2>1
  <2>3. QED
    BY <1>18, <2>1, <2>2
<1>25. QED
  BY <1>6, <1>20, <1>21, <1>22, <1>23, <1>24

LEMMA DocumentStep ==
  ASSUME UnitInv, NEW p \in Around, NEW late \in BOOLEAN, NEW r \in PushMetadata(meta, p, late), meta' = r[1]
  PROVE  /\ DocumentInv'
         /\ meta'.active => ToSet(meta'.wire) \subseteq Around
         /\ r[2] = "complete" => Whole(r[1].wire)
<1>1. meta \in Documents /\ p \in Packets
  BY AroundTyped DEF UnitInv, DocumentInv, Documents
<1>2. meta.active => /\ meta.have /\ ~meta.discarding /\ meta.wire # << >>
                     /\ meta.wire[Len(meta.wire)].seq = meta.last /\ (Once(meta.wire) => Run(meta.wire))
  BY DEF UnitInv, DocumentInv
<1>3. meta.active => ToSet(meta.wire) \subseteq Around
  BY DEF Around
<1>4. CASE r[1] \in Documents /\ ~r[1].active /\ r[2] # "complete"
  BY <1>4 DEF DocumentInv, Documents
<1>5. CASE r = <<meta, "more">>
  <2>1. meta' = meta /\ r[2] = "more"
    BY <1>5
  <2>2. DocumentInv'
    BY <2>1 DEF UnitInv, DocumentInv
  <2>3. QED
    BY <1>3, <2>1, <2>2
<1>6. ASSUME NEW w \in {Append(meta.wire, p), <<p>>},
             r[1] \in Documents, r[1].have, r[1].last = p.seq, r[1].wire = w,
             r[1].active => ~r[1].discarding,
             r[2] = "complete" => "complete" \in Verdicts(w) /\ ~r[1].active,
             w = <<p>> \/ (meta.active /\ Follows(meta.last, p.seq))
      PROVE  /\ DocumentInv'
             /\ meta'.active => ToSet(meta'.wire) \subseteq Around
             /\ r[2] = "complete" => Whole(r[1].wire)
  <2>1. w \in Seq(Packets) /\ w # << >> /\ w[Len(w)] = p /\ ToSet(w) \subseteq Around /\ (Once(w) => Run(w))
    <3>1. CASE w = <<p>>
      <4>1. PICK t : t = <<p>>
        OBVIOUS
      <4>2. t \in Seq(Packets) /\ Len(t) = 1 /\ t[1] = p /\ DOMAIN t = 1..1
        BY <1>1, <4>1
      <4>3. t # << >> /\ t[Len(t)] = p /\ ToSet(t) \subseteq Around
        <5>1. ToSet(t) = {p}
          BY <4>2 DEF ToSet
        <5>2. t # << >> /\ t[Len(t)] = p
          BY <4>2
        <5>3. QED
          BY <5>1, <5>2
      <4>4. Once(t) => Run(t)
        BY <4>2 DEF Once, Run
      <4>5. QED
        BY <3>1, <4>1, <4>2, <4>3, <4>4
    <3>2. CASE w # <<p>>
      <4>1. w = Append(meta.wire, p) /\ meta.active /\ Follows(meta.last, p.seq)
        BY <1>6, <3>2
      <4>2. PICK v : v = meta.wire
        OBVIOUS
      <4>3. v \in Seq(Packets) /\ v # << >> /\ v[Len(v)].seq = meta.last /\ (Once(v) => Run(v)) /\ ToSet(v) \subseteq Around
        BY <1>1, <1>2, <1>3, <4>1, <4>2 DEF Documents
      <4>4. PICK n : n = Len(v) /\ n \in Nat /\ n # 0
        BY <4>3
      <4>5. w \in Seq(Packets) /\ Len(w) = n + 1 /\ w[n + 1] = p /\ \A i \in 1..n : w[i] = v[i]
        BY <1>1, <4>1, <4>2, <4>3, <4>4, AppendProperties
      <4>6. ToSet(w) = ToSet(v) \cup {p}
        BY <1>1, <4>1, <4>2, <4>3, AppendSet
      <4>7. w # << >> /\ w[Len(w)] = p /\ ToSet(w) \subseteq Around
        BY <4>3, <4>4, <4>5, <4>6
      <4>8. ASSUME Once(w) PROVE Run(w)
        <5>1. \A i \in 1..(n + 1) : w[i].part = 1 <=> i = 1
          BY <4>5, <4>8 DEF Once
        <5>2. p.part # 1 /\ Once(v)
          <6>1. n + 1 \in 1..(n + 1) /\ n + 1 # 1
            BY <4>4
          <6>2. p.part # 1
            BY <4>5, <5>1, <6>1
          <6>3. Once(v)
            BY <4>4, <4>5, <5>1 DEF Once
          <6>4. QED
            BY <6>2, <6>3
        <5>3. v[n] \in Around /\ Follows(v[n].seq, p.seq)
          <6>1. n \in DOMAIN v
            BY <4>3, <4>4
          <6>2. v[n] \in ToSet(v)
            BY <6>1 DEF ToSet
          <6>3. QED
            BY <4>1, <4>3, <4>4, <6>2
        <5>4. p.u = v[n].u /\ p.part = v[n].part + 1
          BY <5>2, <5>3, Successor
        <5>5. QED
          BY <1>1, <4>1, <4>2, <4>3, <4>4, <5>2, <5>4, Continued
      <4>9. QED
        BY <4>5, <4>7, <4>8
    <3>3. QED
      BY <3>1, <3>2
  <2>2. DocumentInv'
    <3>1. meta' \in Documents /\ meta'.wire = w /\ meta'.have /\ meta'.last = p.seq /\ (meta'.active => ~meta'.discarding)
      BY <1>6
    <3>2. QED
      BY <2>1, <3>1 DEF DocumentInv, Documents
  <2>3. r[2] = "complete" => Whole(r[1].wire)
    BY <1>6, <2>1, AcceptedWhole
  <2>4. QED
    BY <1>6, <2>1, <2>2, <2>3
<1>7. QED
  BY <1>1, <1>2, <1>4, <1>5, <1>6, PushedCases

LEMMA LastEight ==
  ASSUME NEW a \in Nat, NEW b \in Nat, a > 0, b > 0, a <= 256, b <= 256, a % 256 = b % 256
  PROVE  a = b
  BY SMT

LEMMA ProbeStep ==
  ASSUME UnitInv, Unwrapped, Probe
  PROVE  UnitInv'
<1>1. PICK p : p = held
  OBVIOUS
<1>2. PICK over \in BOOLEAN : over = (setup.track # "metadata" /\ Encoded(p) > WireMax)
  OBVIOUS
<1>3. /\ UNCHANGED <<setup, camera, faults, wire, play, term, jpeg, depay>>
      /\ held # None /\ held' = None /\ failed' = over /\ ~failed
  BY <1>1, <1>2 DEF Probe
<1>4. \/ out' = None /\ UNCHANGED <<meta, queue>>
      \/ /\ ~over /\ ~Stale(p) /\ queue' = Append(queue, p)
         /\ \/ UNCHANGED meta /\ out' = None
            \/ \E late \in BOOLEAN : \E r \in PushMetadata(meta, p, late) :
                 /\ meta' = r[1]
                 /\ out' = None \/ (r[2] = "complete" /\ out' = [kind |-> "document", wire |-> r[1].wire])
  BY <1>1, <1>2 DEF Probe
<1>5. p \in Around /\ p \in Packets
  BY <1>1, <1>3, AroundTyped DEF Around
<1>6. queue \in Seq(Packets)
  BY DEF UnitInv, UnitTypeOK
<1>7. ASSUME queue' \in Seq(Packets), ToSet(queue') \subseteq Around, DocumentInv',
             meta'.active => ToSet(meta'.wire) \subseteq Around,
             setup.recorded => \A i \in 1..Len(queue') : queue'[i].part = 1 => queue'[i].u.cseq = play.cseq,
             DocumentsWhole' /\ FramesOwnHeaders'
      PROVE  UnitInv'
  <2>1. Around' \subseteq Around
    <3>1. wire' = wire /\ jpeg' = jpeg /\ {held'} \ {None} = {}
      BY <1>3
    <3>2. ToSet(wire) \subseteq Around /\ ToSet(jpeg.headers) \subseteq Around
      BY DEF Around
    <3>3. QED
      BY <1>7, <3>1, <3>2 DEF Around
  <2>2. CameraInv' /\ Coherent'
    BY <1>3, <2>1, NothingSent, BoundsNat DEF UnitInv
  <2>3. UnitTypeOK'
    BY <1>3, <1>7 DEF UnitInv, UnitTypeOK
  <2>4. FrameInv'
    BY <1>3 DEF UnitInv, FrameInv
  <2>5. PlayInv'
    BY <1>3, <2>1 DEF UnitInv, PlayInv
  <2>6. TerminalInv'
    BY <1>3, <1>7 DEF UnitInv, TerminalInv
  <2>7. QED
    BY <1>7, <2>2, <2>3, <2>4, <2>5, <2>6 DEF UnitInv
<1>8. ToSet(queue) \subseteq Around /\ (meta.active => ToSet(meta.wire) \subseteq Around)
  BY DEF Around
<1>9. setup.recorded => \A i \in 1..Len(queue) : queue[i].part = 1 => queue[i].u.cseq = play.cseq
  BY DEF UnitInv, TerminalInv
<1>10. UNCHANGED meta => DocumentInv' /\ (meta'.active => ToSet(meta'.wire) \subseteq Around)
  BY <1>8 DEF UnitInv, DocumentInv
<1>11. CASE out' = None /\ UNCHANGED <<meta, queue>>
  BY <1>6, <1>7, <1>8, <1>9, <1>10, <1>11, <1>3, NothingOut
<1>12. CASE /\ ~over /\ ~Stale(p) /\ queue' = Append(queue, p)
            /\ \/ UNCHANGED meta /\ out' = None
               \/ \E late \in BOOLEAN : \E r \in PushMetadata(meta, p, late) :
                    /\ meta' = r[1]
                    /\ out' = None \/ (r[2] = "complete" /\ out' = [kind |-> "document", wire |-> r[1].wire])
  <2>1. queue' \in Seq(Packets) /\ ToSet(queue') \subseteq Around
    BY <1>5, <1>6, <1>8, <1>12, AppendSet
  <2>2. setup.recorded /\ p.part = 1 => p.u.cseq = play.cseq
    <3>1. SUFFICES ASSUME setup.recorded, p.part = 1 PROVE p.u.cseq = play.cseq
      OBVIOUS
    <3>2. p.u.cseq % 256 = play.cseq % 256
      BY <1>12, <3>1 DEF Stale
    <3>3. p.u.cseq \in Nat \ {0} /\ p.u.cseq <= play.cseq
      BY <1>5 DEF UnitInv, PlayInv, Packets, CameraUnits
    <3>4. play.cseq \in Nat \ {0} /\ play.controls \in Nat /\ play.controls <= MaxControls
          /\ play.cseq <= play.controls + 1
      BY DEF UnitInv, PlayInv
    <3>5. play.cseq <= 256
      BY <3>4, BoundsNat DEF Unwrapped
    <3>6. PICK a \in Nat, b \in Nat : a = p.u.cseq /\ b = play.cseq
      BY <3>3, <3>4
    <3>7. a > 0 /\ b > 0 /\ a <= 256 /\ b <= 256 /\ a % 256 = b % 256
      BY <3>2, <3>3, <3>4, <3>5, <3>6
    <3>8. QED
      BY <3>6, <3>7, LastEight
  <2>3. setup.recorded => \A i \in 1..Len(queue') : queue'[i].part = 1 => queue'[i].u.cseq = play.cseq
    <3>1. Len(queue') = Len(queue) + 1 /\ queue'[Len(queue) + 1] = p /\ \A i \in 1..Len(queue) : queue'[i] = queue[i]
      BY <1>5, <1>6, <1>12, AppendProperties
    <3>2. PICK n : n = Len(queue) /\ n \in Nat
      BY <1>6
    <3>3. ASSUME setup.recorded, NEW i \in 1..(n + 1), queue'[i].part = 1 PROVE queue'[i].u.cseq = play.cseq
      <4>1. CASE i = n + 1
        BY <2>2, <3>1, <3>2, <3>3, <4>1
      <4>2. CASE i # n + 1
        <5>1. i \in 1..n
          BY <3>2, <4>2
        <5>2. queue'[i] = queue[i]
          BY <3>1, <3>2, <5>1
        <5>3. QED
          BY <1>9, <3>2, <3>3, <5>1, <5>2
      <4>3. QED
        BY <4>1, <4>2
    <3>4. QED
      BY <3>1, <3>2, <3>3
  <2>4. CASE UNCHANGED meta /\ out' = None
    BY <1>7, <1>10, <2>1, <2>3, <2>4, NothingOut
  <2>5. ASSUME NEW late \in BOOLEAN, NEW r \in PushMetadata(meta, p, late), meta' = r[1],
               out' = None \/ (r[2] = "complete" /\ out' = [kind |-> "document", wire |-> r[1].wire])
        PROVE  UnitInv'
    <3>1. DocumentInv' /\ (meta'.active => ToSet(meta'.wire) \subseteq Around) /\ (r[2] = "complete" => Whole(r[1].wire))
      BY <1>5, <2>5, DocumentStep
    <3>2. DocumentsWhole' /\ FramesOwnHeaders'
      <4>1. CASE out' = None
        BY <4>1, NothingOut
      <4>2. CASE r[2] = "complete" /\ out' = [kind |-> "document", wire |-> r[1].wire]
        <5>1. out'.kind = "document" /\ out'.wire = r[1].wire
          BY <4>2
        <5>2. FramesOwnHeaders'
          BY <5>1 DEF FramesOwnHeaders
        <5>3. DocumentsWhole'
          BY <3>1, <4>2, <5>1 DEF DocumentsWhole, Whole
        <5>4. QED
          BY <5>2, <5>3
      <4>3. QED
        BY <2>5, <4>1, <4>2
    <3>3. QED
      BY <1>7, <2>1, <2>3, <3>1, <3>2
  <2>6. QED
    BY <1>12, <2>4, <2>5
<1>13. QED
  BY <1>4, <1>11, <1>12

Frames == [active : BOOLEAN, complete : BOOLEAN, ssrc : Nat, ts : Nat, seq : Sequence, headers : Seq(Packets)]
Distinct(s) == \A i, j \in 1..Len(s) : s[i] = s[j] => i = j

\* media_jpeg_push().
LEMMA JpegCases ==
  ASSUME NEW j \in Frames, NEW p \in Packets, NEW r, r = PushJpeg(j, p)
  PROVE  \/ /\ r[1] \in Frames /\ ToSet(r[1].headers) \subseteq ToSet(j.headers)
            /\ r[2] \in {"invalid", "limit"}
         \/ r[1] = NoJpeg /\ p.u.style = "legacy"
         \/ \E w \in {<<p>>, Append(j.headers, p)} :
              /\ r[1] \in Frames /\ r[1].active /\ r[1].headers = w /\ r[1].seq = p.seq /\ r[1].ts = p.u.id
              /\ \/ w = <<p>> /\ p.part = 1 /\ p.u.style # "legacy"
                 \/ /\ w = Append(j.headers, p) /\ j.active /\ j.ts = p.u.id
                    /\ Follows(j.seq, p.seq) /\ p.part # 1
<1>1. PICK new \in BOOLEAN : new = (~j.active \/ j.complete \/ j.ssrc # p.u.ssrc \/ j.ts # p.u.id)
  OBVIOUS
<1>2. PICK j1 : j1 = IF new THEN NoJpeg ELSE j
  OBVIOUS
<1>3. PICK w : w = Append(j1.headers, p)
  OBVIOUS
<1>4. PICK m \in BOOLEAN : m = Marker(p)
  BY DEF Marker
<1>5. PICK next : next = [active |-> TRUE, complete |-> m, ssrc |-> p.u.ssrc, ts |-> p.u.id, seq |-> p.seq, headers |-> w]
  OBVIOUS
<1>6. \/ p.u.style = "legacy" /\ r = <<NoJpeg, "legacy">>
      \/ r = <<j1, "invalid">>
      \/ r = <<[j1 EXCEPT !.active = TRUE], "limit">>
      \/ /\ ~(new /\ p.u.style = "legacy")
         /\ ~IF new THEN p.part # 1 ELSE ~Follows(j.seq, p.seq) \/ p.part = 1 \/ p.u.style = "legacy"
         /\ r = <<next, IF next.complete THEN "complete" ELSE "more">>
  BY <1>1, <1>2, <1>3, <1>4, <1>5 DEF PushJpeg, Legacy
<1>7. NoJpeg \in Frames /\ NoJpeg.headers = << >>
  BY NumbersNat DEF NoJpeg, Frames, Sequence
<1>8. j1 \in Frames /\ ToSet(j1.headers) \subseteq ToSet(j.headers)
  BY <1>2, <1>7, EmptySet
<1>9. w \in Seq(Packets)
  BY <1>3, <1>8, AppendProperties DEF Frames
<1>10. next \in Frames
  BY <1>5, <1>9 DEF Packets, CameraUnits, Frames
<1>11. CASE r = <<j1, "invalid">>
  BY <1>8, <1>11
<1>12. CASE r = <<[j1 EXCEPT !.active = TRUE], "limit">>
  <2>1. r[1] = [j1 EXCEPT !.active = TRUE] /\ r[2] = "limit"
    BY <1>12
  <2>2. r[1] \in Frames /\ r[1].headers = j1.headers
    BY <1>8, <2>1 DEF Frames
  <2>3. QED
    BY <1>8, <2>1, <2>2
<1>13. CASE p.u.style = "legacy" /\ r = <<NoJpeg, "legacy">>
  BY <1>13
<1>14. CASE /\ ~(new /\ p.u.style = "legacy")
            /\ ~IF new THEN p.part # 1 ELSE ~Follows(j.seq, p.seq) \/ p.part = 1 \/ p.u.style = "legacy"
            /\ r = <<next, IF next.complete THEN "complete" ELSE "more">>
  <2>1. r[1] = next
    BY <1>14
  <2>2. r[1] \in Frames /\ r[1].active /\ r[1].headers = w /\ r[1].seq = p.seq /\ r[1].ts = p.u.id
    BY <1>5, <1>10, <2>1
  <2>3. CASE new
    <3>1. j1 = NoJpeg
      BY <1>2, <2>3
    <3>2. w = Append(<< >>, p)
      BY <1>3, <1>7, <3>1
    <3>3. Append(<< >>, p) = <<p>>
      OBVIOUS
    <3>4. w = <<p>>
      BY <3>2, <3>3
    <3>5. p.part = 1 /\ p.u.style # "legacy"
      BY <1>14, <2>3
    <3>6. QED
      BY <2>2, <3>4, <3>5
  <2>4. CASE ~new
    <3>1. w = Append(j.headers, p) /\ j.active /\ j.ts = p.u.id
      BY <1>1, <1>2, <1>3, <2>4
    <3>2. Follows(j.seq, p.seq) /\ p.part # 1
      BY <1>14, <2>4
    <3>3. QED
      BY <2>2, <3>1, <3>2
  <2>5. QED
    BY <2>3, <2>4
<1>15. QED
  BY <1>6, <1>11, <1>12, <1>13, <1>14

\* The headers of a frame that goes on are those of its packets up to this one.
LEMMA HeadersStep ==
  ASSUME UnitInv, ~failed, NEW p \in Around, NEW r, r = PushJpeg(jpeg, p)
  PROVE  \/ /\ r[1] \in Frames /\ ToSet(r[1].headers) \subseteq Around
            /\ r[2] \in {"invalid", "limit"}
         \/ r[1] = NoJpeg /\ p.u.style = "legacy"
         \/ /\ r[1] \in Frames /\ r[1].active /\ r[1].headers # << >> /\ Run(r[1].headers)
            /\ r[1].headers[Len(r[1].headers)] = p /\ r[1].seq = p.seq /\ r[1].headers[1].u = p.u
            /\ r[1].ts = p.u.id /\ p.u.style # "legacy" /\ ToSet(r[1].headers) \subseteq Around
<1>1. jpeg \in Frames /\ p \in Packets
  BY AroundTyped DEF UnitInv, FrameInv, Frames
<1>2. ToSet(jpeg.headers) \subseteq Around
  BY DEF Around
<1>3. ASSUME NEW w \in {<<p>>, Append(jpeg.headers, p)},
             r[1] \in Frames, r[1].active, r[1].headers = w, r[1].seq = p.seq, r[1].ts = p.u.id,
             \/ w = <<p>> /\ p.part = 1 /\ p.u.style # "legacy"
             \/ /\ w = Append(jpeg.headers, p) /\ jpeg.active /\ jpeg.ts = p.u.id
                /\ Follows(jpeg.seq, p.seq) /\ p.part # 1
      PROVE  /\ r[1] \in Frames /\ r[1].active /\ r[1].headers # << >> /\ Run(r[1].headers)
             /\ r[1].headers[Len(r[1].headers)] = p /\ r[1].seq = p.seq /\ r[1].headers[1].u = p.u
             /\ r[1].ts = p.u.id /\ p.u.style # "legacy" /\ ToSet(r[1].headers) \subseteq Around
  <2>1. CASE w = <<p>> /\ p.part = 1 /\ p.u.style # "legacy"
    <3>1. PICK t : t = <<p>>
      OBVIOUS
    <3>2. t \in Seq(Packets) /\ Len(t) = 1 /\ t[1] = p /\ DOMAIN t = 1..1
      BY <1>1, <3>1
    <3>3. ToSet(t) = {p}
      BY <3>2 DEF ToSet
    <3>4. t # << >> /\ t[Len(t)] = p /\ t[1].u = p.u
      BY <3>2
    <3>5. Run(t)
      BY <2>1, <3>2 DEF Run
    <3>6. r[1].headers = t
      BY <1>3, <2>1, <3>1
    <3>7. QED
      BY <1>3, <2>1, <3>3, <3>4, <3>5, <3>6
  <2>2. CASE /\ w = Append(jpeg.headers, p) /\ jpeg.active /\ jpeg.ts = p.u.id
             /\ Follows(jpeg.seq, p.seq) /\ p.part # 1
    <3>1. PICK v : v = jpeg.headers
      OBVIOUS
    <3>2. /\ v \in Seq(Packets) /\ v # << >> /\ Run(v) /\ v[Len(v)].seq = jpeg.seq
          /\ v[1].u.style # "legacy" /\ ToSet(v) \subseteq Around
      BY <1>1, <1>2, <2>2, <3>1 DEF UnitInv, FrameInv, Frames
    <3>3. PICK n : n = Len(v) /\ n \in Nat /\ n # 0
      BY <3>2
    <3>4. w \in Seq(Packets) /\ Len(w) = n + 1 /\ w[n + 1] = p /\ \A i \in 1..n : w[i] = v[i]
      BY <1>1, <2>2, <3>1, <3>2, <3>3, AppendProperties
    <3>5. ToSet(w) = ToSet(v) \cup {p}
      BY <1>1, <2>2, <3>1, <3>2, AppendSet
    <3>6. v[n] \in Around /\ Follows(v[n].seq, p.seq)
      <4>1. n \in DOMAIN v
        BY <3>2, <3>3
      <4>2. v[n] \in ToSet(v)
        BY <4>1 DEF ToSet
      <4>3. QED
        BY <2>2, <3>2, <3>3, <4>2
    <3>7. p.u = v[n].u /\ p.part = v[n].part + 1
      BY <2>2, <3>6, Successor
    <3>8. Run(w)
      BY <1>1, <2>2, <3>1, <3>2, <3>3, <3>7, Continued
    <3>9. v[n].u = v[1].u
      BY <3>2, <3>3 DEF Run
    <3>10. w[1] = v[1]
      BY <3>3, <3>4
    <3>11. w # << >> /\ w[Len(w)] = p
      BY <3>3, <3>4
    <3>12. w[1].u = p.u /\ p.u.style # "legacy" /\ ToSet(w) \subseteq Around
      BY <3>2, <3>5, <3>7, <3>9, <3>10
    <3>13. QED
      BY <1>3, <3>8, <3>11, <3>12
  <2>3. QED
    BY <1>3, <2>1, <2>2
<1>4. QED
  BY <1>1, <1>2, <1>3, JpegCases

\* What an image is put together from.
Segments == [key : {"dqt0", "dqt1", "app", "sof"}, of : Nat \X Nat]

LEMMA JoinDistinct ==
  ASSUME NEW S, NEW a \in Seq(S), NEW b \in Seq(S), Distinct(a), Distinct(b),
         \A x \in ToSet(a) : x \notin ToSet(b)
  PROVE  \A c : c = a \o b => c \in Seq(S) /\ Distinct(c) /\ ToSet(c) = ToSet(a) \cup ToSet(b)
<1> SUFFICES ASSUME NEW c, c = a \o b
             PROVE  c \in Seq(S) /\ Distinct(c) /\ ToSet(c) = ToSet(a) \cup ToSet(b)
  OBVIOUS
<1>1. PICK m \in Nat, n \in Nat : m = Len(a) /\ n = Len(b) /\ DOMAIN a = 1..m /\ DOMAIN b = 1..n
  <2>1. Len(a) \in Nat /\ DOMAIN a = 1..Len(a)
    OBVIOUS
  <2>2. Len(b) \in Nat /\ DOMAIN b = 1..Len(b)
    OBVIOUS
  <2>3. QED
    BY <2>1, <2>2, Zenon
<1>2. c \in Seq(S) /\ Len(c) = m + n /\ \A i \in 1..(m + n) : c[i] = IF i <= m THEN a[i] ELSE b[i - m]
  BY <1>1, ConcatProperties
<1>3. DOMAIN c = 1..(m + n)
  BY <1>2
<1>4. \A i \in 1..m : c[i] = a[i] /\ c[i] \in ToSet(a) /\ i \in 1..(m + n)
  <2>1. TAKE i \in 1..m
  <2>2. i \in 1..(m + n) /\ i <= m
    BY <1>1
  <2>3. c[i] = a[i]
    BY <1>2, <2>2
  <2>4. a[i] \in ToSet(a)
    BY <1>1 DEF ToSet
  <2>5. QED
    BY <2>2, <2>3, <2>4
<1>5. \A i \in 1..(m + n) : i > m => i - m \in 1..n /\ c[i] = b[i - m] /\ c[i] \in ToSet(b)
  BY <1>1, <1>2 DEF ToSet
<1>6. ToSet(c) \subseteq ToSet(a) \cup ToSet(b)
  <2>1. ASSUME NEW i \in 1..(m + n) PROVE c[i] \in ToSet(a) \cup ToSet(b)
    <3>1. CASE i <= m
      <4>1. i \in 1..m
        BY <1>1, <3>1
      <4>2. QED
        BY <1>4, <4>1
    <3>2. CASE i > m
      BY <1>5, <3>2
    <3>3. QED
      BY <1>1, <3>1, <3>2
  <2>2. QED
    BY <1>3, <2>1 DEF ToSet
<1>7. ToSet(a) \subseteq ToSet(c)
  BY <1>1, <1>3, <1>4 DEF ToSet
<1>8. ToSet(b) \subseteq ToSet(c)
  <2>1. ASSUME NEW j \in 1..n PROVE b[j] \in ToSet(c)
    <3>1. j + m \in 1..(m + n) /\ j + m > m /\ (j + m) - m = j
      BY <1>1
    <3>2. c[j + m] = b[j]
      BY <1>5, <3>1
    <3>3. QED
      BY <1>3, <3>1, <3>2 DEF ToSet
  <2>2. QED
    BY <1>1, <2>1 DEF ToSet
<1>9. ASSUME NEW i \in 1..(m + n), NEW j \in 1..(m + n), c[i] = c[j] PROVE i = j
  <2>1. CASE i <= m /\ j <= m
    <3>1. i \in 1..m /\ j \in 1..m
      BY <1>1, <2>1
    <3>2. QED
      BY <1>1, <1>4, <1>9, <3>1 DEF Distinct
  <2>2. CASE i > m /\ j > m
    <3>1. i - m \in 1..n /\ j - m \in 1..n /\ b[i - m] = b[j - m]
      BY <1>5, <1>9, <2>2
    <3>2. i - m = j - m
      BY <1>1, <3>1 DEF Distinct
    <3>3. QED
      BY <1>1, <3>2
  <2>3. CASE i <= m /\ j > m
    <3>1. i \in 1..m
      BY <1>1, <2>3
    <3>2. c[i] \in ToSet(a) /\ c[j] \in ToSet(b)
      BY <1>4, <1>5, <2>3, <3>1
    <3>3. QED
      BY <1>9, <3>2
  <2>4. CASE i > m /\ j <= m
    <3>1. j \in 1..m
      BY <1>1, <2>4
    <3>2. c[j] \in ToSet(a) /\ c[i] \in ToSet(b)
      BY <1>4, <1>5, <2>4, <3>1
    <3>3. QED
      BY <1>9, <3>2
  <2>5. QED
    BY <1>1, <2>1, <2>2, <2>3, <2>4
<1>10. QED
  BY <1>2, <1>6, <1>7, <1>8, <1>9 DEF Distinct

LEMMA DistinctCounted ==
  ASSUME NEW S, NEW s \in Seq(S), Distinct(s)
  PROVE  Cardinality(ToSet(s)) = Len(s)
<1>1. PICK n : n = Len(s) /\ n \in Nat /\ DOMAIN s = 1..n
  OBVIOUS
<1>2. s \in [1..n -> ToSet(s)]
  BY <1>1 DEF ToSet
<1>3. s \in Bijection(1..n, ToSet(s))
  BY <1>1, <1>2 DEF Distinct, Bijection, Injection, Surjection, IsInjective, ToSet
<1>4. ExistsBijection(1..n, ToSet(s))
  BY <1>3 DEF ExistsBijection
<1>5. Cardinality(ToSet(s)) = n
  BY <1>1, <1>4, FS_CountingElements
<1>6. QED
  BY <1>1, <1>5

LEMMA UnlessOne ==
  ASSUME NEW s \in Segments, NEW keys, NEW t, t = Unless(keys, s)
  PROVE  t \in Seq(Segments) /\ Distinct(t) /\ ToSet(t) = IF s.key \in keys THEN {} ELSE {s}
<1>1. CASE s.key \in keys
  <2>1. t = << >>
    BY <1>1 DEF Unless
  <2>2. Distinct(t) /\ t \in Seq(Segments)
    BY <2>1 DEF Distinct
  <2>3. QED
    BY <1>1, <2>1, <2>2, EmptySet
<1>2. CASE s.key \notin keys
  <2>1. t = <<s>>
    BY <1>2 DEF Unless
  <2>2. t \in Seq(Segments) /\ Len(t) = 1 /\ t[1] = s /\ DOMAIN t = 1..1
    BY <2>1
  <2>3. ToSet(t) = {s}
    BY <2>2 DEF ToSet
  <2>4. Distinct(t)
    BY <2>2 DEF Distinct
  <2>5. QED
    BY <1>2, <2>2, <2>3, <2>4
<1>3. QED
  BY <1>1, <1>2

\* media_jpeg_rewrite(): every header once, and the native segments that none overrides.
LEMMA RewriteExact ==
  ASSUME NEW u \in CameraUnits, NEW h \in Seq(Segments), Distinct(h), \A x \in ToSet(h) : x.of[2] # 0,
         NEW image, image = Rewrite(Native(u), h)
  PROVE  /\ Range(image.segs) = ToSet(h) \cup {s \in Range(Native(u)) : s.key \notin HeaderKeys(h)}
         /\ Cardinality(Range(image.segs)) = Len(image.segs)
         /\ \E s \in Range(image.segs) : s.key = "sof" /\ s.of = image.scan
<1>1. PICK keys : keys = HeaderKeys(h)
  OBVIOUS
<1>2. PICK n1, n2, n3 : n1 = Segment("dqt0", u, 0) /\ n2 = Segment("dqt1", u, 0) /\ n3 = Segment("sof", u, 0)
  OBVIOUS
<1>3. /\ n1 \in Segments /\ n2 \in Segments /\ n3 \in Segments
      /\ n1.key = "dqt0" /\ n2.key = "dqt1" /\ n3.key = "sof"
      /\ n1.of[2] = 0 /\ n2.of[2] = 0 /\ n3.of[2] = 0
  BY <1>2 DEF Segment, Segments, CameraUnits
<1>4. PICK nat : nat = <<n1, n2, n3>>
  OBVIOUS
<1>5. Native(u) = nat /\ nat[1] = n1 /\ nat[2] = n2 /\ nat[3] = n3 /\ Range(nat) = {n1, n2, n3}
  BY <1>2, <1>4 DEF Native, Range
<1>6. PICK t1, t2, t3 : t1 = Unless(keys, n1) /\ t2 = Unless(keys, n2) /\ t3 = Unless(keys, n3)
  OBVIOUS
<1>7. t1 \in Seq(Segments) /\ Distinct(t1) /\ ToSet(t1) = IF n1.key \in keys THEN {} ELSE {n1}
  BY <1>3, <1>6, UnlessOne
<1>8. t2 \in Seq(Segments) /\ Distinct(t2) /\ ToSet(t2) = IF n2.key \in keys THEN {} ELSE {n2}
  BY <1>3, <1>6, UnlessOne
<1>9. t3 \in Seq(Segments) /\ Distinct(t3) /\ ToSet(t3) = IF n3.key \in keys THEN {} ELSE {n3}
  BY <1>3, <1>6, UnlessOne
<1>10. PICK c2 : c2 = t1 \o t2
  OBVIOUS
<1>11. c2 \in Seq(Segments) /\ Distinct(c2) /\ ToSet(c2) = ToSet(t1) \cup ToSet(t2)
  <2>1. \A x \in ToSet(t1) : x \notin ToSet(t2)
    BY <1>3, <1>7, <1>8
  <2>2. t1 \in Seq(Segments) /\ Distinct(t1) /\ t2 \in Seq(Segments) /\ Distinct(t2)
    BY <1>7, <1>8
  <2>3. \A c : c = t1 \o t2 => c \in Seq(Segments) /\ Distinct(c) /\ ToSet(c) = ToSet(t1) \cup ToSet(t2)
    BY <2>1, <2>2, JoinDistinct, Zenon
  <2>4. QED
    BY <1>10, <2>3, Zenon
<1>12. PICK c3 : c3 = c2 \o t3
  OBVIOUS
<1>13. c3 \in Seq(Segments) /\ Distinct(c3) /\ ToSet(c3) = ToSet(c2) \cup ToSet(t3)
  <2>1. \A x \in ToSet(c2) : x \notin ToSet(t3)
    BY <1>3, <1>7, <1>8, <1>9, <1>11
  <2>2. c2 \in Seq(Segments) /\ Distinct(c2) /\ t3 \in Seq(Segments) /\ Distinct(t3)
    BY <1>9, <1>11
  <2>3. \A c : c = c2 \o t3 => c \in Seq(Segments) /\ Distinct(c) /\ ToSet(c) = ToSet(c2) \cup ToSet(t3)
    BY <2>1, <2>2, JoinDistinct, Zenon
  <2>4. QED
    BY <1>12, <2>3, Zenon
<1>14. PICK segs : segs = c3 \o h
  OBVIOUS
<1>15. segs \in Seq(Segments) /\ Distinct(segs) /\ ToSet(segs) = ToSet(c3) \cup ToSet(h)
  <2>1. \A x \in ToSet(c3) : x \notin ToSet(h)
    BY <1>3, <1>7, <1>8, <1>9, <1>11, <1>13
  <2>2. c3 \in Seq(Segments) /\ Distinct(c3) /\ h \in Seq(Segments) /\ Distinct(h)
    BY <1>13
  <2>3. \A c : c = c3 \o h => c \in Seq(Segments) /\ Distinct(c) /\ ToSet(c) = ToSet(c3) \cup ToSet(h)
    BY <2>1, <2>2, JoinDistinct, Zenon
  <2>4. QED
    BY <1>14, <2>3, Zenon
<1>16. image = [segs |-> segs, scan |-> (CHOOSE s \in Range(segs) : s.key = "sof").of]
  BY <1>1, <1>5, <1>6, <1>10, <1>12, <1>14 DEF Rewrite
<1>17. image.segs = segs /\ image.scan = (CHOOSE s \in Range(segs) : s.key = "sof").of
  BY <1>16
<1>18. Range(segs) = ToSet(segs)
  BY DEF Range, ToSet
<1>19. ToSet(segs) = ToSet(h) \cup {s \in Range(Native(u)) : s.key \notin HeaderKeys(h)}
  BY <1>1, <1>5, <1>7, <1>8, <1>9, <1>11, <1>13, <1>15
<1>20. \E s \in Range(segs) : s.key = "sof"
  <2>1. CASE "sof" \notin keys
    BY <1>1, <1>3, <1>5, <1>18, <1>19, <2>1
  <2>2. CASE "sof" \in keys
    <3>1. PICK i \in DOMAIN h : h[i].key = "sof"
      BY <1>1, <2>2 DEF HeaderKeys
    <3>2. h[i] \in ToSet(segs)
      BY <1>15 DEF ToSet
    <3>3. QED
      BY <1>18, <3>1, <3>2
  <2>3. QED
    BY <2>1, <2>2
<1>21. \E s \in Range(segs) : s.key = "sof" /\ s.of = image.scan
  BY <1>17, <1>20
<1>22. Cardinality(ToSet(segs)) = Len(segs)
  BY <1>15, DistinctCounted
<1>23. QED
  BY <1>17, <1>18, <1>19, <1>21, <1>22

\* The headers of the packets of a unit.
LEMMA CarriedDistinct ==
  ASSUME NEW w \in Seq(Packets), w # << >>, Run(w), NEW h, h = [i \in DOMAIN w |-> Carried(w[i])]
  PROVE  /\ h \in Seq(Segments) /\ Distinct(h) /\ \A x \in ToSet(h) : x.of[2] # 0
         /\ ToSet(h) = {Carried(Packet(w[1].u, k, 0)) : k \in 1..Len(w)}
<1>1. PICK n \in Nat : n = Len(w) /\ DOMAIN w = 1..n
  OBVIOUS
<1>2. \A i \in 1..n : w[i] \in Packets /\ w[i].u = w[1].u /\ w[i].part = i /\ w[i].u.id \in Nat
  <2>1. \A i \in 1..n : w[i] \in Packets
    BY <1>1
  <2>2. \A i \in 1..n : w[i].u.id \in Nat
    BY <2>1 DEF Packets, CameraUnits
  <2>3. QED
    BY <1>1, <2>1, <2>2 DEF Run
<1>3. \A i \in 1..n : /\ Carried(w[i]) \in Segments /\ Carried(w[i]).of[2] = i
                      /\ Carried(w[i]) = Carried(Packet(w[1].u, i, 0))
  <2>1. TAKE i \in 1..n
  <2>2. PICK u \in CameraUnits : u = w[i].u /\ u = w[1].u /\ u.id \in Nat
    BY <1>2 DEF Packets
  <2>3. w[i].part = i /\ i \in Nat
    BY <1>1, <1>2
  <2>4. PICK k : k = CASE i = 1 \/ u.style = "bad" -> "dqt0"
                       [] i = 2 /\ u.style # "bad" -> "app"
                       [] OTHER -> "sof"
    OBVIOUS
  <2>5. k \in {"dqt0", "dqt1", "app", "sof"}
    BY <2>4
  <2>6. Carried(w[i]) = [key |-> k, of |-> <<u.id, i>>]
    BY <2>2, <2>3, <2>4 DEF Carried, Segment
  <2>7. Packet(w[1].u, i, 0).u = u /\ Packet(w[1].u, i, 0).part = i
    BY <2>2 DEF Packet
  <2>8. Carried(Packet(w[1].u, i, 0)) = [key |-> k, of |-> <<u.id, i>>]
    BY <2>4, <2>7 DEF Carried, Segment
  <2>9. [key |-> k, of |-> <<u.id, i>>] \in Segments /\ [key |-> k, of |-> <<u.id, i>>].of[2] = i
    BY <2>2, <2>3, <2>5 DEF Segments
  <2>10. QED
    BY <2>6, <2>8, <2>9
<1>4. h \in [1..n -> Segments] /\ DOMAIN h = 1..n /\ \A i \in 1..n : h[i] = Carried(w[i])
  BY <1>1, <1>3
<1>5. h \in Seq(Segments) /\ Len(h) = n
  BY <1>4
<1>6. Distinct(h)
  BY <1>3, <1>4, <1>5 DEF Distinct
<1>7. ToSet(h) = {Carried(w[i]) : i \in 1..n}
  BY <1>4 DEF ToSet
<1>8. \A x \in ToSet(h) : x.of[2] # 0
  BY <1>3, <1>7
<1>9. {Carried(w[i]) : i \in 1..n} = {Carried(Packet(w[1].u, k, 0)) : k \in 1..n}
  BY <1>3
<1>10. QED
  BY <1>1, <1>5, <1>6, <1>7, <1>8, <1>9

\* jpeg_input() and jpeg_output().
LEMMA RenderStep ==
  ASSUME UnitInv, ~failed, NEW p \in Around, Render(p)
  PROVE  /\ FrameInv' /\ failed' \in BOOLEAN /\ ToSet(jpeg'.headers) \subseteq Around
         /\ DocumentsWhole' /\ FramesOwnHeaders'
<1>1. PICK r : r = PushJpeg(jpeg, p)
  OBVIOUS
<1>2. PICK h : h = [i \in DOMAIN r[1].headers |-> Carried(r[1].headers[i])]
  OBVIOUS
<1>3. p \in Packets
  BY AroundTyped
<1>4. failed \in BOOLEAN
  BY DEF UnitInv, UnitTypeOK
<1>5. /\ jpeg' = r[1]
      /\ \/ failed' = TRUE /\ out' = None
         \/ /\ r[2] \notin {"invalid", "limit"} /\ UNCHANGED failed
            /\ \/ out' = None
               \/ /\ Marker(p)
                  /\ out' = [kind |-> "frame", u |-> p.u, image |-> Rewrite(Native(p.u), IF r[1].active THEN h ELSE << >>)]
  BY <1>1, <1>2 DEF Render
<1>6. NoJpeg \in Frames /\ NoJpeg.headers = << >> /\ NoJpeg.active = FALSE
  BY NumbersNat DEF NoJpeg, Frames, Sequence
<1>7. \/ /\ r[1] \in Frames /\ ToSet(r[1].headers) \subseteq Around
         /\ r[2] \in {"invalid", "limit"}
      \/ r[1] = NoJpeg /\ p.u.style = "legacy"
      \/ /\ r[1] \in Frames /\ r[1].active /\ r[1].headers # << >> /\ Run(r[1].headers)
         /\ r[1].headers[Len(r[1].headers)] = p /\ r[1].seq = p.seq /\ r[1].headers[1].u = p.u
         /\ r[1].ts = p.u.id /\ p.u.style # "legacy" /\ ToSet(r[1].headers) \subseteq Around
  BY <1>1, HeadersStep
<1>8. FrameInv' /\ ToSet(jpeg'.headers) \subseteq Around
  <2>1. CASE r[1] \in Frames /\ ToSet(r[1].headers) \subseteq Around /\ r[2] \in {"invalid", "limit"}
    BY <1>5, <2>1 DEF FrameInv, Frames
  <2>2. CASE r[1] = NoJpeg /\ p.u.style = "legacy"
    BY <1>5, <1>6, <2>2, EmptySet DEF FrameInv, Frames
  <2>3. CASE /\ r[1] \in Frames /\ r[1].active /\ r[1].headers # << >> /\ Run(r[1].headers)
             /\ r[1].headers[Len(r[1].headers)] = p /\ r[1].seq = p.seq /\ r[1].headers[1].u = p.u
             /\ r[1].ts = p.u.id /\ p.u.style # "legacy" /\ ToSet(r[1].headers) \subseteq Around
    BY <1>5, <2>3 DEF FrameInv, Frames
  <2>4. QED
    BY <1>7, <2>1, <2>2, <2>3
<1>9. ASSUME out' # None PROVE DocumentsWhole' /\ FramesOwnHeaders'
  <2>1. PICK g : g = IF r[1].active THEN h ELSE << >>
    OBVIOUS
  <2>2. PICK image : image = Rewrite(Native(p.u), g)
    OBVIOUS
  <2>3. Marker(p) /\ r[2] \notin {"invalid", "limit"} /\ out' = [kind |-> "frame", u |-> p.u, image |-> image]
    BY <1>5, <1>9, <2>1, <2>2
  <2>4. out'.kind = "frame" /\ out'.u = p.u /\ out'.image = image
    BY <2>3
  <2>5. DocumentsWhole'
    BY <2>4 DEF DocumentsWhole
  <2>6. PICK own : own = IF p.u.style = "legacy" THEN {} ELSE {Carried(Packet(p.u, k, 0)) : k \in 1..p.u.parts}
    OBVIOUS
  <2>7. g \in Seq(Segments) /\ Distinct(g) /\ (\A x \in ToSet(g) : x.of[2] # 0) /\ ToSet(g) = own
    <3>1. CASE r[1] = NoJpeg /\ p.u.style = "legacy"
      <4>1. g = << >> /\ own = {}
        BY <1>6, <2>1, <2>6, <3>1
      <4>2. g \in Seq(Segments) /\ Len(g) = 0 /\ ToSet(g) = {}
        BY <4>1, EmptySet
      <4>3. QED
        BY <4>1, <4>2 DEF Distinct
    <3>2. CASE /\ r[1] \in Frames /\ r[1].active /\ r[1].headers # << >> /\ Run(r[1].headers)
               /\ r[1].headers[Len(r[1].headers)] = p /\ r[1].seq = p.seq /\ r[1].headers[1].u = p.u
               /\ r[1].ts = p.u.id /\ p.u.style # "legacy" /\ ToSet(r[1].headers) \subseteq Around
      <4>1. PICK w : w = r[1].headers
        OBVIOUS
      <4>2. w \in Seq(Packets) /\ w # << >> /\ Run(w) /\ w[Len(w)] = p /\ w[1].u = p.u
        BY <3>2, <4>1 DEF Frames
      <4>3. g = h /\ h = [i \in DOMAIN w |-> Carried(w[i])]
        BY <1>2, <2>1, <3>2, <4>1
      <4>4. Len(w) = p.u.parts
        <5>1. Len(w) \in 1..Len(w)
          BY <4>2
        <5>2. w[Len(w)].part = Len(w)
          BY <4>2, <5>1 DEF Run
        <5>3. QED
          BY <2>3, <4>2, <5>2 DEF Marker
      <4>5. own = {Carried(Packet(w[1].u, k, 0)) : k \in 1..Len(w)}
        BY <2>6, <3>2, <4>2, <4>4
      <4>6. QED
        BY <4>2, <4>3, <4>5, CarriedDistinct
    <3>3. QED
      BY <1>7, <2>3, <3>1, <3>2
  <2>8. p.u \in CameraUnits
    BY <1>3 DEF Packets
  <2>9. /\ Range(image.segs) = own \cup {s \in Range(Native(p.u)) : s.key \notin HeaderKeys(g)}
        /\ Cardinality(Range(image.segs)) = Len(image.segs)
        /\ \E s \in Range(image.segs) : s.key = "sof" /\ s.of = image.scan
    BY <2>2, <2>7, <2>8, RewriteExact
  <2>10. HeaderKeys(g) = {s.key : s \in own}
    BY <2>7 DEF HeaderKeys, ToSet
  <2>11. FramesOwnHeaders'
    BY <2>4, <2>6, <2>9, <2>10 DEF FramesOwnHeaders
  <2>12. QED
    BY <2>5, <2>11
<1>10. ASSUME out' = None PROVE DocumentsWhole' /\ FramesOwnHeaders'
  BY <1>10, NothingOut
<1>11. failed' \in BOOLEAN
  BY <1>4, <1>5
<1>12. QED
  BY <1>8, <1>9, <1>10, <1>11

\* The terminal filter.
LEMMA ChainStep ==
  ASSUME UnitInv, Chain
  PROVE  UnitInv'
<1>1. PICK p : p = Head(queue)
  OBVIOUS
<1>2. PICK pending : pending = (term.pending \/ (setup.recorded /\ p.part = 1 /\ p.u.last))
  OBVIOUS
<1>3. /\ queue # << >> /\ ~failed /\ queue' = Tail(queue)
      /\ UNCHANGED <<setup, camera, faults, wire, held, play, seen, meta>>
      /\ \/ out' = None /\ UNCHANGED <<term, jpeg, depay, failed>>
         \/ /\ Render(p) \/ (out' = None /\ UNCHANGED <<jpeg, depay, failed>>)
            /\ term' = [pending |-> pending, ended |-> pending /\ Marker(p) /\ ~failed',
                        by |-> IF pending /\ ~term.pending THEN p.u.cseq ELSE term.by]
  BY <1>1, <1>2 DEF Chain
<1>4. queue \in Seq(Packets) /\ failed \in BOOLEAN
  BY DEF UnitInv, UnitTypeOK
<1>5. /\ queue' \in Seq(Packets) /\ ToSet(queue') \subseteq ToSet(queue) /\ p \in ToSet(queue) /\ p \in Packets
      /\ p = queue[1] /\ Len(queue) \in Nat \ {0} /\ Len(queue') = Len(queue) - 1
      /\ \A j \in 1..(Len(queue) - 1) : queue'[j] = queue[j + 1]
  BY <1>1, <1>3, <1>4, TailSet
<1>6. ToSet(queue) \subseteq Around /\ ToSet(wire) \subseteq Around /\ ToSet(jpeg.headers) \subseteq Around
  BY DEF Around
<1>7. FrameInv' /\ failed' \in BOOLEAN /\ ToSet(jpeg'.headers) \subseteq Around /\ DocumentsWhole' /\ FramesOwnHeaders'
  <2>1. CASE Render(p)
    BY <1>3, <1>5, <1>6, <2>1, RenderStep
  <2>2. CASE out' = None /\ UNCHANGED <<jpeg, depay, failed>>
    <3>1. FrameInv'
      BY <2>2 DEF UnitInv, FrameInv
    <3>2. QED
      BY <1>4, <1>6, <2>2, <3>1, NothingOut
  <2>3. QED
    BY <1>3, <2>1, <2>2
<1>8. Around' \subseteq Around
  <2>1. ToSet(queue') \subseteq Around /\ wire' = wire /\ held' = held /\ meta' = meta
    BY <1>3, <1>5, <1>6
  <2>2. ({held} \ {None}) \cup (IF meta.active THEN ToSet(meta.wire) ELSE {}) \subseteq Around
    BY DEF Around
  <2>3. QED
    BY <1>6, <1>7, <2>1, <2>2 DEF Around
<1>9. CameraInv' /\ Coherent'
  BY <1>3, <1>8, NothingSent, BoundsNat DEF UnitInv
<1>10. DocumentInv'
  BY <1>3 DEF UnitInv, DocumentInv
<1>11. UnitTypeOK'
  BY <1>3, <1>5, <1>7 DEF UnitInv, UnitTypeOK
<1>12. PlayInv'
  BY <1>3, <1>8 DEF UnitInv, PlayInv
<1>13. TerminalInv'
  <2>1. /\ term \in [pending : BOOLEAN, ended : BOOLEAN, by : Nat] /\ (term.ended => term.pending)
        /\ (term.pending => setup.recorded /\ term.by = play.cseq)
        /\ (setup.recorded => \A i \in 1..Len(queue) : queue[i].part = 1 => queue[i].u.cseq = play.cseq)
        /\ play.control # "flushed"
    BY <1>3 DEF UnitInv, TerminalInv
  <2>2. setup.recorded => \A i \in 1..Len(queue') : queue'[i].part = 1 => queue'[i].u.cseq = play.cseq
    <3>1. ASSUME setup.recorded, NEW i \in 1..Len(queue'), queue'[i].part = 1 PROVE queue'[i].u.cseq = play.cseq
      <4>1. i \in 1..(Len(queue) - 1) /\ i + 1 \in 1..Len(queue)
        BY <1>5
      <4>2. queue'[i] = queue[i + 1]
        BY <1>5, <4>1
      <4>3. QED
        BY <2>1, <3>1, <4>1, <4>2
    <3>2. QED
      BY <3>1
  <2>3. /\ term' \in [pending : BOOLEAN, ended : BOOLEAN, by : Nat] /\ (term'.ended => term'.pending)
        /\ (term'.pending => setup.recorded /\ term'.by = play.cseq)
    <3>1. CASE term' = term
      BY <2>1, <3>1
    <3>2. CASE term' = [pending |-> pending, ended |-> pending /\ Marker(p) /\ ~failed',
                        by |-> IF pending /\ ~term.pending THEN p.u.cseq ELSE term.by]
      <4>1. p.u.cseq \in Nat /\ p.u.last \in BOOLEAN
        BY <1>5 DEF Packets, CameraUnits
      <4>2. PICK b : b = IF pending /\ ~term.pending THEN p.u.cseq ELSE term.by
        OBVIOUS
      <4>3. PICK e \in BOOLEAN : e = (pending /\ Marker(p) /\ ~failed')
        OBVIOUS
      <4>4. pending \in BOOLEAN /\ b \in Nat
        BY <1>2, <2>1, <4>1, <4>2
      <4>5. term' = [pending |-> pending, ended |-> e, by |-> b]
        BY <3>2, <4>2, <4>3
      <4>6. pending => setup.recorded /\ b = play.cseq
        <5>1. CASE term.pending
          BY <2>1, <4>2, <5>1
        <5>2. CASE ~term.pending
          <6>1. SUFFICES ASSUME pending PROVE setup.recorded /\ b = play.cseq
            OBVIOUS
          <6>2. setup.recorded /\ p.part = 1 /\ b = p.u.cseq
            BY <1>2, <4>2, <5>2, <6>1
          <6>3. 1 \in 1..Len(queue)
            BY <1>5
          <6>4. QED
            BY <1>5, <2>1, <6>2, <6>3
        <5>3. QED
          BY <5>1, <5>2
      <4>7. e => pending
        BY <4>3
      <4>8. QED
        BY <4>4, <4>5, <4>6, <4>7
    <3>3. QED
      BY <1>3, <3>1, <3>2
  <2>4. QED
    BY <1>3, <2>1, <2>2, <2>3 DEF TerminalInv
<1>14. QED
  BY <1>7, <1>9, <1>10, <1>11, <1>12, <1>13 DEF UnitInv

LEMMA InitUnits == PayloadInit => UnitInv
<1> SUFFICES ASSUME PayloadInit PROVE UnitInv
  OBVIOUS
<1>1. /\ camera = [unit |-> None, part |-> 1, seq |-> 2^16 - 2, ssrc |-> 1, units |-> 0]
      /\ wire = << >> /\ held = None /\ queue = << >> /\ failed = FALSE /\ out = None
      /\ play = [accepting |-> TRUE, cseq |-> 1, control |-> "none", controls |-> 0]
      /\ meta = NoMeta /\ jpeg = NoJpeg /\ term = [pending |-> FALSE, ended |-> FALSE, by |-> 0]
      /\ setup \in [track : {"metadata", "jpeg"}, recorded : BOOLEAN, gzip : BOOLEAN]
  BY DEF PayloadInit
<1>2. PICK s : s = 2^16 - 2
  OBVIOUS
<1>3. s \in Sequence /\ Index(s) = 0
  <2>1. s + 2 = Numbers /\ s \in Nat
    BY <1>2, NumbersNat, SMT DEF Numbers
  <2>2. s \in Sequence
    BY <2>1, NumbersNat, SMT DEF Sequence
  <2>3. QED
    BY <2>1, <2>2, IndexIs, NumbersNat, SMT
<1>4. camera = [unit |-> None, part |-> 1, seq |-> s, ssrc |-> 1, units |-> 0]
  BY <1>1, <1>2
<1>5. CameraInv
  <2>1. camera.unit = None /\ camera.units = 0 /\ camera.seq = s
    BY <1>4
  <2>2. camera \in [unit : CameraUnits \cup {None}, part : Nat, seq : Sequence, ssrc : Nat, units : Nat]
    BY <1>3, <1>4
  <2>3. 0 <= MaxCameraUnits /\ 0 <= 0 * MaxParts
    BY BoundsNat
  <2>4. QED
    BY <1>3, <2>1, <2>2, <2>3 DEF CameraInv
<1>6. meta.active = FALSE /\ DocumentInv
  BY <1>1, NumbersNat DEF NoMeta, DocumentInv, Sequence
<1>7. jpeg.headers = << >> /\ FrameInv
  BY <1>1, NumbersNat DEF NoJpeg, FrameInv, Sequence
<1>8. Around = {}
  BY <1>1, <1>6, <1>7, EmptySet DEF Around
<1>9. Coherent
  BY <1>8 DEF Coherent
<1>10. UnitTypeOK
  <2>1. << >> \in Seq(Packets)
    OBVIOUS
  <2>2. wire \in Seq(Packets) /\ queue \in Seq(Packets) /\ held \in Packets \cup {None} /\ failed \in BOOLEAN
    BY <1>1, <2>1
  <2>3. QED
    BY <1>1, <2>2 DEF UnitTypeOK
<1>11. PlayInv
  BY <1>1, <1>4, <1>8, BoundsNat DEF PlayInv
<1>12. TerminalInv
  BY <1>1 DEF TerminalInv
<1>13. DocumentsWhole /\ FramesOwnHeaders
  BY <1>1 DEF DocumentsWhole, FramesOwnHeaders
<1>14. QED
  BY <1>5, <1>6, <1>7, <1>9, <1>10, <1>11, <1>12, <1>13 DEF UnitInv

\* A step that is not of the packets changes none.
LEMMA UnitsSame == UnitInv /\ UNCHANGED payloadVars => UnitInv'
<1> SUFFICES ASSUME UnitInv, UNCHANGED payloadVars PROVE UnitInv'
  OBVIOUS
<1>1. /\ UNCHANGED <<setup, camera, wire, held, play, meta, queue, term, jpeg, failed, out>>
      /\ UnitTypeOK /\ CameraInv /\ Coherent /\ DocumentInv /\ FrameInv /\ PlayInv /\ TerminalInv
      /\ DocumentsWhole /\ FramesOwnHeaders
  BY DEF payloadVars, UnitInv
<1>2. Around' = Around
  BY <1>1 DEF Around
<1>3. CameraInv' /\ Coherent'
  BY <1>1, <1>2, NothingSent, BoundsNat
<1>4. UnitTypeOK' /\ DocumentInv' /\ FrameInv'
  BY <1>1 DEF UnitTypeOK, DocumentInv, FrameInv
<1>5. PlayInv'
  BY <1>1, <1>2 DEF PlayInv
<1>6. TerminalInv'
  BY <1>1 DEF TerminalInv
<1>7. DocumentsWhole' /\ FramesOwnHeaders'
  <2>1. PICK o : o = out
    OBVIOUS
  <2>2. out' = o
    BY <1>1, <2>1
  <2>3. DocumentsWhole'
    BY <1>1, <2>1, <2>2 DEF DocumentsWhole
  <2>4. FramesOwnHeaders'
    BY <1>1, <2>1, <2>2 DEF FramesOwnHeaders
  <2>5. QED
    BY <2>3, <2>4
<1>8. QED
  BY <1>3, <1>4, <1>5, <1>6, <1>7 DEF UnitInv

LEMMA UnitStep == UnitInv /\ Unwrapped /\ PayloadNext => UnitInv'
<1> SUFFICES ASSUME UnitInv, Unwrapped, PayloadNext PROVE UnitInv'
  OBVIOUS
<1>1. CASE Send
  BY <1>1, SendUnit
<1>2. CASE Restart \/ Lose \/ Enter
  BY <1>2, NetworkStep
<1>3. CASE Probe
  BY <1>3, ProbeStep
<1>4. CASE Expire
  BY <1>4, ExpireStep
<1>5. CASE Chain
  BY <1>5, ChainStep
<1>6. CASE \E kind \in {"PAUSE", "PLAY", "SEEK"} : Control(kind)
  BY <1>6, ControlStep
<1>7. CASE Flush
  BY <1>7, FlushStep
<1>8. CASE Played \/ Paused
  BY <1>8, PlayedStep
<1>9. QED
  BY <1>1, <1>2, <1>3, <1>4, <1>5, <1>6, <1>7, <1>8 DEF PayloadNext

\* The packets of a unit keep their order and their company wherever they are: under
\* way, in the probe, in the assembler (media_metadata_push()), in the queue and in
\* the header reader (media_jpeg_push()).
THEOREM UnitInvariant == ASSUME Unwrapped PROVE InputSpec => []UnitInv
<1>1. InputInit => UnitInv
  BY InitUnits DEF InputInit
<1>2. UnitInv /\ [InputNext]_<<payloadVars, openVars, stage>> => UnitInv'
  BY UnitStep, UnitsSame DEF InputNext
<1>3. QED
  BY <1>1, <1>2, PTL DEF InputSpec

\* What leaves the track is whole and its own, whatever the network loses, repeats or
\* reorders and whenever a control runs: no document or frame is a mixture, and the
\* end of a stream that a seek has replaced ends nothing (metadata.c, jpeg.c,
\* terminal.c, seek_native() of worker.c).
THEOREM UnitsAlwaysWhole == ASSUME Unwrapped PROVE InputSpec => []UnitsWhole
<1>1. UnitInv => UnitsWhole
  BY DEF UnitInv, TerminalInv, UnitsWhole, EndedByThisPlay
<1>2. QED
  BY <1>1, UnitInvariant, PTL

-----------------------------------------------------------------------------
\* A document in assembly is not one that is given up.
Shape(m) ==
  m \in [active : BOOLEAN, discarding : BOOLEAN, have : BOOLEAN, ssrc : {m.ssrc}, last : {m.last}, wire : {m.wire}]
AssemblyInv == Shape(meta) /\ (meta.active => ~meta.discarding)

LEMMA DropShape ==
  ASSUME NEW m, Shape(m)
  PROVE  /\ Shape(Drop(m)) /\ Drop(m).active = FALSE /\ Drop(m).discarding = TRUE
         /\ Drop(m).have = m.have /\ Drop(m).ssrc = m.ssrc /\ Drop(m).last = m.last
<1>1. PICK d : d = [m EXCEPT !.active = FALSE, !.discarding = TRUE, !.wire = << >>]
  OBVIOUS
<1>2. /\ d.active = FALSE /\ d.discarding = TRUE /\ d.wire = << >>
      /\ d.have = m.have /\ d.ssrc = m.ssrc /\ d.last = m.last /\ m.have \in BOOLEAN
  BY <1>1 DEF Shape
<1>3. d \in [active : BOOLEAN, discarding : BOOLEAN, have : BOOLEAN, ssrc : {m.ssrc}, last : {m.last}, wire : {<< >>}]
  BY <1>1 DEF Shape
<1>4. Shape(d)
  BY <1>2, <1>3 DEF Shape
<1>5. QED
  BY <1>1, <1>2, <1>4 DEF Drop

LEMMA MarkShape ==
  ASSUME NEW m, Shape(m), NEW q \in BOOLEAN, NEW d, d = [m EXCEPT !.discarding = q]
  PROVE  Shape(d) /\ d.active = m.active /\ d.discarding = q
<1>1. /\ d.active = m.active /\ d.discarding = q /\ d.wire = m.wire
      /\ d.have = m.have /\ d.ssrc = m.ssrc /\ d.last = m.last
  BY DEF Shape
<1>2. d \in [active : BOOLEAN, discarding : BOOLEAN, have : BOOLEAN, ssrc : {m.ssrc}, last : {m.last}, wire : {m.wire}]
  BY DEF Shape
<1>3. QED
  BY <1>1, <1>2 DEF Shape

Noted(m, s, l) == [m EXCEPT !.have = TRUE, !.ssrc = s, !.last = l]
LEMMA NoteShape ==
  ASSUME NEW m, Shape(m), NEW s, NEW l
  PROVE  LET d == Noted(m, s, l) IN Shape(d) /\ d.active = m.active /\ d.discarding = m.discarding
<1> SUFFICES ASSUME NEW d, d = [m EXCEPT !.have = TRUE, !.ssrc = s, !.last = l]
             PROVE  Shape(d) /\ d.active = m.active /\ d.discarding = m.discarding
  BY DEF Noted
<1>1. /\ d.active = m.active /\ d.discarding = m.discarding /\ d.wire = m.wire
      /\ d.have = TRUE /\ d.ssrc = s /\ d.last = l
  BY DEF Shape
<1>2. d \in [active : BOOLEAN, discarding : BOOLEAN, have : BOOLEAN, ssrc : {s}, last : {l}, wire : {m.wire}]
  BY DEF Shape
<1>3. QED
  BY <1>1, <1>2 DEF Shape

Wired(m, a, w) == [m EXCEPT !.active = a, !.wire = w]
LEMMA WireShape ==
  ASSUME NEW m, Shape(m), NEW a \in BOOLEAN, NEW w
  PROVE  LET d == Wired(m, a, w) IN Shape(d) /\ d.active = a /\ d.discarding = m.discarding
<1> SUFFICES ASSUME NEW d, d = [m EXCEPT !.active = a, !.wire = w]
             PROVE  Shape(d) /\ d.active = a /\ d.discarding = m.discarding
  BY DEF Wired
<1>1. /\ d.active = a /\ d.discarding = m.discarding /\ d.wire = w
      /\ d.have = m.have /\ d.ssrc = m.ssrc /\ d.last = m.last
  BY DEF Shape
<1>2. d \in [active : BOOLEAN, discarding : BOOLEAN, have : BOOLEAN, ssrc : {m.ssrc}, last : {m.last}, wire : {w}]
  BY DEF Shape
<1>3. QED
  BY <1>1, <1>2 DEF Shape

\* media_metadata_push(): what gives a document up is said in its result.
LEMMA PushReported ==
  ASSUME NEW m, Shape(m), m.active => ~m.discarding, NEW p, NEW late \in BOOLEAN, NEW r \in PushMetadata(m, p, late)
  PROVE  /\ Shape(r[1]) /\ (r[1].active => ~r[1].discarding)
         /\ m.active /\ ~r[1].active =>
              \/ r[2] \in {"gap", "limit", "invalid", "complete"}
              \/ p.seq = m.last /\ p.u.ssrc = m.ssrc
<1>1. PICK e \in BOOLEAN : e = (late /\ m.active)
  BY DEF Shape
<1>2. PICK m1 : m1 = IF e THEN Drop(m) ELSE m
  OBVIOUS
<1>3. PICK g \in BOOLEAN : g = Gap(m1, p)
  BY DEF Gap
<1>4. PICK m0 : m0 = IF g THEN Drop(m1) ELSE m1
  OBVIOUS
<1>5. PICK m2 : m2 = [m0 EXCEPT !.have = TRUE, !.ssrc = p.u.ssrc, !.last = p.seq]
  OBVIOUS
<1>6. PICK w : w = Append(IF m2.active THEN m2.wire ELSE << >>, p)
  OBVIOUS
<1>7. PICK q \in BOOLEAN : q = ~Marker(p)
  BY DEF Marker
<1>8. \/ m1.have /\ m1.ssrc = p.u.ssrc /\ m1.last = p.seq /\ r = <<m1, "more">>
      \/ m2.discarding /\ r = <<[m2 EXCEPT !.discarding = q], Problem(g, e)>>
      \/ r = <<[Drop(m2) EXCEPT !.discarding = q], "limit">>
      \/ ~m2.discarding /\ r = <<[m2 EXCEPT !.active = TRUE, !.wire = w], "more">>
      \/ ~m2.discarding /\ \E x \in Verdicts(w) : r = <<[m2 EXCEPT !.active = FALSE, !.wire = w], x>>
  BY <1>1, <1>2, <1>3, <1>4, <1>5, <1>6, <1>7 DEF PushMetadata
<1>9. /\ Shape(m1) /\ (~e => m1 = m) /\ (e => ~m1.active) /\ (m1.active => ~m1.discarding)
      /\ m1.ssrc = m.ssrc /\ m1.last = m.last
  BY <1>2, DropShape
<1>10. Shape(m0) /\ (~g => m0 = m1) /\ (m0.active => ~m0.discarding) /\ (g => ~m0.active)
  BY <1>4, <1>9, DropShape
<1>11. Shape(m2) /\ m2.active = m0.active /\ m2.discarding = m0.discarding
  <2>1. m2 = Noted(m0, p.u.ssrc, p.seq)
    BY <1>5 DEF Noted
  <2>2. QED
    BY <1>10, <2>1, NoteShape
<1>12. CASE m1.have /\ m1.ssrc = p.u.ssrc /\ m1.last = p.seq /\ r = <<m1, "more">>
  <2>1. r[1] = m1
    BY <1>12
  <2>2. QED
    BY <1>9, <1>12, <2>1
<1>13. CASE m2.discarding /\ r = <<[m2 EXCEPT !.discarding = q], Problem(g, e)>>
  <2>1. PICK d : d = [m2 EXCEPT !.discarding = q]
    OBVIOUS
  <2>2. r[1] = d /\ r[2] = Problem(g, e)
    BY <1>13, <2>1
  <2>3. Shape(d) /\ d.active = m2.active
    BY <1>11, <2>1, MarkShape
  <2>4. ~m2.active
    BY <1>10, <1>11, <1>13
  <2>5. CASE g \/ e
    <3>1. r[2] \in {"gap", "limit"}
      BY <2>2, <2>5 DEF Problem
    <3>2. QED
      BY <2>2, <2>3, <2>4, <3>1
  <2>6. CASE ~g /\ ~e
    <3>1. ~m.active
      BY <1>9, <1>10, <1>11, <2>4, <2>6
    <3>2. QED
      BY <2>2, <2>3, <2>4, <3>1
  <2>7. QED
    BY <2>5, <2>6
<1>14. CASE r = <<[Drop(m2) EXCEPT !.discarding = q], "limit">>
  <2>1. PICK d0 : d0 = Drop(m2)
    OBVIOUS
  <2>2. PICK d : d = [d0 EXCEPT !.discarding = q]
    OBVIOUS
  <2>3. r[1] = d /\ r[2] = "limit"
    BY <1>14, <2>1, <2>2
  <2>4. Shape(d0) /\ d0.active = FALSE
    BY <1>11, <2>1, DropShape
  <2>5. Shape(d) /\ d.active = FALSE
    BY <2>2, <2>4, MarkShape
  <2>6. QED
    BY <2>3, <2>5
<1>15. CASE ~m2.discarding /\ r = <<[m2 EXCEPT !.active = TRUE, !.wire = w], "more">>
  <2>1. PICK d : d = [m2 EXCEPT !.active = TRUE, !.wire = w]
    OBVIOUS
  <2>2. r[1] = d
    BY <1>15, <2>1
  <2>3. Shape(d) /\ d.active = TRUE /\ d.discarding = m2.discarding
    <3>1. d = Wired(m2, TRUE, w)
      BY <2>1 DEF Wired
    <3>2. QED
      BY <1>11, <3>1, WireShape
  <2>4. QED
    BY <1>15, <2>2, <2>3
<1>16. ASSUME ~m2.discarding, NEW x \in Verdicts(w), r = <<[m2 EXCEPT !.active = FALSE, !.wire = w], x>>
       PROVE  Shape(r[1]) /\ ~r[1].active /\ r[2] \in {"gap", "limit", "invalid", "complete"}
  <2>1. PICK d : d = [m2 EXCEPT !.active = FALSE, !.wire = w]
    OBVIOUS
  <2>2. r[1] = d /\ r[2] = x
    BY <1>16, <2>1
  <2>3. Shape(d) /\ d.active = FALSE
    <3>1. d = Wired(m2, FALSE, w)
      BY <2>1 DEF Wired
    <3>2. QED
      BY <1>11, <3>1, WireShape
  <2>4. x \in {"limit", "invalid", "complete"}
    BY <1>16 DEF Verdicts
  <2>5. QED
    BY <2>2, <2>3, <2>4
<1>17. QED
  BY <1>8, <1>12, <1>13, <1>14, <1>15, <1>16

\* What a step may do to the document in assembly.
Told ==
  meta.active /\ ~meta'.active /\ report' # "complete" =>
    \/ report' \in {"gap", "limit", "invalid", "control"}
    \/ held # None /\ held.seq = meta.last /\ held.u.ssrc = meta.ssrc

LEMMA AssemblyStep == AssemblyInv /\ PayloadNext => AssemblyInv' /\ Told
<1> SUFFICES ASSUME AssemblyInv, PayloadNext PROVE AssemblyInv' /\ Told
  OBVIOUS
<1>1. CASE UNCHANGED meta
  BY <1>1 DEF AssemblyInv, Shape, Told
<1>2. CASE Probe
  <2>1. PICK p : p = held
    OBVIOUS
  <2>2. CASE UNCHANGED meta
    BY <1>1, <2>2
  <2>3. ASSUME NEW late \in BOOLEAN, NEW r \in PushMetadata(meta, p, late), meta' = r[1], held # None,
               report' = IF r[2] = "more" /\ Discontinuous(p) THEN "gap" ELSE r[2]
        PROVE  AssemblyInv' /\ Told
    <3>1. /\ Shape(r[1]) /\ (r[1].active => ~r[1].discarding)
          /\ meta.active /\ ~r[1].active =>
               \/ r[2] \in {"gap", "limit", "invalid", "complete"}
               \/ p.seq = meta.last /\ p.u.ssrc = meta.ssrc
      BY PushReported DEF AssemblyInv
    <3>2. AssemblyInv'
      BY <2>3, <3>1 DEF AssemblyInv, Shape
    <3>3. Told
      BY <2>1, <2>3, <3>1 DEF Told
    <3>4. QED
      BY <3>2, <3>3
  <2>4. QED
    BY <1>2, <2>1, <2>2, <2>3 DEF Probe
<1>3. CASE Expire
  <2>1. meta' = Drop(meta) /\ report' = "limit"
    BY <1>3 DEF Expire, Quiet
  <2>2. PICK d : d = Drop(meta)
    OBVIOUS
  <2>3. Shape(d) /\ d.active = FALSE
    BY <2>2, DropShape DEF AssemblyInv
  <2>4. QED
    BY <2>1, <2>2, <2>3 DEF AssemblyInv, Shape, Told
<1>4. ASSUME NEW kind \in {"PAUSE", "PLAY", "SEEK"}, Control(kind) PROVE AssemblyInv' /\ Told
  <2>1. meta' = [active |-> FALSE, discarding |-> FALSE, have |-> FALSE, ssrc |-> meta.ssrc, last |-> meta.last, wire |-> << >>]
        /\ report' = "control"
    BY <1>4 DEF Control, Quiet, NoMeta
  <2>2. QED
    BY <2>1 DEF AssemblyInv, Shape, Told
<1>5. QED
  BY <1>1, <1>2, <1>3, <1>4 DEF PayloadNext, Send, Restart, Lose, Enter, Chain, Flush, Played, Paused

\* A document in assembly that is given up is reported (media_metadata_push() and
\* rtp_probe() of worker.c): no loss, expiry or new SSRC loses one silently.
THEOREM LossesReported == InputSpec => LossReported
<1>1. InputInit => AssemblyInv
  <2>1. InputInit => meta = [active |-> FALSE, discarding |-> FALSE, have |-> FALSE, ssrc |-> 0, last |-> 0, wire |-> << >>]
    BY DEF InputInit, PayloadInit, NoMeta
  <2>2. ASSUME meta = [active |-> FALSE, discarding |-> FALSE, have |-> FALSE, ssrc |-> 0, last |-> 0, wire |-> << >>]
        PROVE  AssemblyInv
    BY <2>2 DEF AssemblyInv, Shape
  <2>3. QED
    BY <2>1, <2>2
<1>2. AssemblyInv /\ [InputNext]_<<payloadVars, openVars, stage>> => AssemblyInv' /\ [Told]_payloadVars
  <2>1. UNCHANGED payloadVars => UNCHANGED meta
    BY DEF payloadVars
  <2>2. AssemblyInv /\ UNCHANGED meta => AssemblyInv'
    BY DEF AssemblyInv, Shape
  <2>3. QED
    BY <2>1, <2>2, AssemblyStep DEF InputNext
<1>3. QED
  BY <1>1, <1>2, PTL DEF InputSpec, LossReported, Told

=============================================================================
