----------------------------- MODULE MediaQueue -----------------------------
(***************************************************************************)
(* BoundedMediaQueue (media/queue.ts): the fan-out queue between the media *)
(* session and its consumers.  Every subscriber has its own bounded slot;  *)
(* a published unit is reference counted over the slots that hold it, and  *)
(* its release callback, which returns the unit's IPC credit, must run     *)
(* once, when the last slot lets go.                                       *)
(*                                                                         *)
(* Units are numbered in publication order and slots in creation order, so *)
(* the iteration order of the JavaScript Set of subscribers is the order   *)
(* of the slot numbers.  How a read settles (value, done or error) and the *)
(* gap counters are left out.                                              *)
(***************************************************************************)
EXTENDS Integers, Sequences, FiniteSets, Folds

CONSTANTS MaxBytes, MaxUnits, MaxSubscribers,  \* options of the constructor
          Sizes,                               \* the byte sizes units may have
          MaxPublish, MaxSlots                 \* bounds of the exploration

ASSUME QueueAssumption ==
  /\ MaxBytes \in Nat \ {0} /\ MaxUnits \in Nat \ {0}
  /\ MaxSubscribers \in Nat \ {0}
  /\ Sizes \in SUBSET (Nat \ {0})
  /\ MaxPublish \in Nat /\ MaxSlots \in Nat \ {0}

Unit == 1..MaxPublish
Slot == 1..MaxSlots
Entry == [id : Unit, bytes : Nat]

VARIABLES
  live,         \* the mode option: live, else recorded; never changes
  slot,         \* Slot -> [entries, claimed, ended, pending]
  bytes,        \* Slot -> bytes of its entries, kept incrementally
  subscribers,  \* the slots attached to the queue
  initial,      \* the slot the first iterator claims
  slots,        \* how many slots have been created
  ended, draining,
  published,    \* how many units have been published
  references,   \* Unit -> slots that still refer to the unit
  released,     \* Unit -> calls of the unit's release callback
  taken         \* Slot -> the units its reader has received, in order

vars == <<live, slot, bytes, subscribers, initial, slots, ended, draining,
          published, references, released, taken>>

SlotRecord == [entries : Seq(Entry), claimed : BOOLEAN,
               ended : BOOLEAN, pending : BOOLEAN]

NewSlot(isEnded) == [entries |-> << >>, claimed |-> FALSE,
                     ended |-> isEnded, pending |-> FALSE]

Init ==
  /\ live \in BOOLEAN
  /\ slot = [s \in Slot |-> NewSlot(FALSE)]
  /\ bytes = [s \in Slot |-> 0]
  /\ subscribers = {1} /\ initial = 1 /\ slots = 1
  /\ ended = FALSE /\ draining = FALSE
  /\ published = 0
  /\ references = [u \in Unit |-> 0]
  /\ released = [u \in Unit |-> 0]
  /\ taken = [s \in Slot |-> << >>]

Holds(s, u) == \E i \in 1..Len(slot[s].entries) : slot[s].entries[i].id = u
Holders(u) == {s \in Slot : Holds(s, u)}
Bytes(entries) == MapThenFoldSet(+, 0, LAMBDA i : entries[i].bytes,
                                 LAMBDA S : CHOOSE i \in S : TRUE, DOMAIN entries)

-----------------------------------------------------------------------------
\* Variant: the callback runs as soon as any slot lets go.
RelinquishEagerly(gone) ==
  /\ references' = [u \in Unit |-> references[u] - Cardinality(gone[u])]
  /\ released' = [u \in Unit |-> IF gone[u] # {} THEN released[u] + 1 ELSE released[u]]

\* relinquish() on behalf of every slot of gone[u], for every unit u: the
\* callback runs when the count reaches zero.
Relinquish(gone) ==
  /\ references' = [u \in Unit |-> references[u] - Cardinality(gone[u])]
  /\ released' = [u \in Unit |->
       IF gone[u] # {} /\ references[u] = Cardinality(gone[u])
       THEN released[u] + 1 ELSE released[u]]

\* Variant: the pending read of a detached slot is forgotten.
DetachForgetsReader(S) ==
  /\ slot' = [s \in Slot |->
       IF s \in S THEN [slot[s] EXCEPT !.entries = << >>, !.ended = TRUE] ELSE slot[s]]
  /\ bytes' = [s \in Slot |-> IF s \in S THEN 0 ELSE bytes[s]]
  /\ Relinquish([u \in Unit |-> Holders(u) \cap S])

\* detach() of every slot of S, entries included.
Detach(S) ==
  /\ slot' = [s \in Slot |->
       IF s \in S THEN [slot[s] EXCEPT !.entries = << >>, !.ended = TRUE, !.pending = FALSE]
                  ELSE slot[s]]
  /\ bytes' = [s \in Slot |-> IF s \in S THEN 0 ELSE bytes[s]]
  /\ Relinquish([u \in Unit |-> Holders(u) \cap S])

\* What slot s has left when its k oldest entries are removed, and whether b
\* more bytes fit then.
Rest(s, k) == SubSeq(slot[s].entries, k + 1, Len(slot[s].entries))
RestBytesStale(s, k) == bytes[s]  \* variant: evictions are not subtracted
RestBytes(s, k) == bytes[s] - Bytes(SubSeq(slot[s].entries, 1, k))
FitsOneMore(s, k, b) ==           \* variant: off by one in the unit bound
  Len(slot[s].entries) - k <= MaxUnits /\ RestBytes(s, k) + b <= MaxBytes
Fits(s, k, b) == Len(slot[s].entries) - k < MaxUnits /\ RestBytes(s, k) + b <= MaxBytes

\* A recorded queue throws at a slot that has no room, a live one evicts the
\* fewest oldest entries that make room.
Blocked(s, b) == ~slot[s].pending /\ ~Fits(s, 0, b)
Evicts(s, b, k) == /\ k <= Len(slot[s].entries)
                   /\ Fits(s, k, b)
                   /\ \A j \in 0..k - 1 : ~Fits(s, j, b)

\* The slots publish() gets to: all of them, or the ones before the slot at
\* which a recorded queue throws.
ReachedAll(b) == subscribers      \* variant: a recorded queue evicts too
Reached(b) ==
  {s \in subscribers : live \/ \A t \in subscribers : t <= s => ~Blocked(t, b)}

\* The unit goes to the waiting readers and into the slots with room for it,
\* cut[s] older entries being evicted from slot s.  The count starts at one,
\* for publish() itself, and that reference is dropped at the end.
Fanout(u, b, direct, queued, cut) ==
  /\ slot' = [s \in Slot |->
       CASE s \in direct -> [slot[s] EXCEPT !.pending = FALSE]
         [] s \in queued -> [slot[s] EXCEPT
              !.entries = Append(Rest(s, cut[s]), [id |-> u, bytes |-> b])]
         [] OTHER        -> slot[s]]
  /\ bytes' = [s \in Slot |-> IF s \in queued THEN RestBytes(s, cut[s]) + b ELSE bytes[s]]
  /\ taken' = [s \in Slot |-> IF s \in direct THEN Append(taken[s], u) ELSE taken[s]]
  /\ LET evicted(v) == {s \in queued : \E i \in 1..cut[s] : slot[s].entries[i].id = v}
     IN /\ references' = [v \in Unit |->
             IF v = u THEN Cardinality(queued)
                      ELSE references[v] - Cardinality(evicted(v))]
        /\ released' = [v \in Unit |->
             IF \/ v = u /\ queued = {}
                \/ v # u /\ evicted(v) # {} /\ references[v] = Cardinality(evicted(v))
             THEN released[v] + 1 ELSE released[v]]

\* publish(): after the end the unit is released at once.
Publish(b) ==
  LET u == published + 1
      direct == {s \in Reached(b) : slot[s].pending}
      queued == {s \in Reached(b) \ direct : b <= MaxBytes}
  IN /\ published < MaxPublish
     /\ published' = u
     /\ \/ /\ ended \/ draining
           /\ released' = [released EXCEPT ![u] = @ + 1]
           /\ UNCHANGED <<slot, bytes, references, taken>>
        \/ /\ ~ended /\ ~draining
           /\ \E cut \in [Slot -> 0..MaxUnits] :
                /\ \A s \in Slot : IF s \in queued THEN Evicts(s, b, cut[s]) ELSE cut[s] = 0
                /\ Fanout(u, b, direct, queued, cut)
     /\ UNCHANGED <<live, subscribers, initial, slots, ended, draining>>

\* Variant: discarded entries are dropped without being released.
DiscardLeaks ==
  /\ slot' = [s \in Slot |->
       IF s \in subscribers THEN [slot[s] EXCEPT !.entries = << >>] ELSE slot[s]]
  /\ bytes' = [s \in Slot |-> IF s \in subscribers THEN 0 ELSE bytes[s]]
  /\ UNCHANGED <<live, subscribers, initial, slots, ended, draining, published,
                 references, released, taken>>

\* discard(): every slot is emptied, the readers keep waiting.
Discard ==
  /\ slot' = [s \in Slot |->
       IF s \in subscribers THEN [slot[s] EXCEPT !.entries = << >>] ELSE slot[s]]
  /\ bytes' = [s \in Slot |-> IF s \in subscribers THEN 0 ELSE bytes[s]]
  /\ Relinquish([u \in Unit |-> Holders(u) \cap subscribers])
  /\ UNCHANGED <<live, subscribers, initial, slots, ended, draining, published, taken>>

\* end(): empty slots are detached, the others are left to drain.
End ==
  /\ ~ended /\ ~draining
  /\ draining' = TRUE
  /\ LET empty == {s \in subscribers : slot[s].entries = << >>}
     IN Detach(empty) /\ subscribers' = subscribers \ empty
  /\ UNCHANGED <<live, initial, slots, ended, published, taken>>


\* resume(): every old slot is detached and a fresh initial slot is created.
Resume ==
  /\ ~ended /\ draining /\ slots < MaxSlots
  /\ Detach(subscribers)
  /\ draining' = FALSE
  /\ slots' = slots + 1
  /\ initial' = slots + 1
  /\ subscribers' = {slots + 1}
  /\ UNCHANGED <<live, ended, published, taken>>

\* finish(): the queue is emptied and closed for good.
Finish ==
  /\ ~ended
  /\ ended' = TRUE
  /\ Detach(subscribers)
  /\ subscribers' = {}
  /\ UNCHANGED <<live, initial, slots, draining, published, taken>>

\* [Symbol.asyncIterator](): the first consumer claims the initial slot, a
\* later one gets a slot from add(), already ended when the queue no longer
\* accepts units.
Subscribe ==
  /\ \/ /\ ~slot[initial].claimed
        /\ slot' = [slot EXCEPT ![initial].claimed = TRUE]
        /\ UNCHANGED <<subscribers, slots>>
     \/ /\ slot[initial].claimed
        /\ Cardinality(subscribers) < MaxSubscribers /\ slots < MaxSlots
        /\ slots' = slots + 1
        /\ slot' = [slot EXCEPT ![slots + 1] =
                      [NewSlot(ended \/ draining) EXCEPT !.claimed = TRUE]]
        /\ subscribers' = IF ended \/ draining THEN subscribers
                                               ELSE subscribers \cup {slots + 1}
  /\ UNCHANGED <<live, bytes, initial, ended, draining, published, references, released, taken>>

\* A reader may use its iterator while neither the slot nor the queue ended;
\* next() on an ended one settles at once and changes nothing.
Readable(s) == slot[s].claimed /\ ~slot[s].ended /\ ~ended


\* next() with a queued unit.
Read(s) ==
  /\ Readable(s) /\ slot[s].entries # << >>
  /\ LET entry == Head(slot[s].entries)
     IN /\ slot' = [slot EXCEPT ![s].entries = Tail(@)]
        /\ bytes' = [bytes EXCEPT ![s] = @ - entry.bytes]
        /\ taken' = [taken EXCEPT ![s] = Append(@, entry.id)]
        /\ Relinquish([u \in Unit |-> IF u = entry.id THEN {s} ELSE {}])
  /\ UNCHANGED <<live, subscribers, initial, slots, ended, draining, published>>

\* next() on an empty slot: the last read of a draining queue, or a wait.
ReadEmpty(s) ==
  /\ Readable(s) /\ slot[s].entries = << >>
  /\ \/ draining /\ Detach({s}) /\ subscribers' = subscribers \ {s}
     \/ /\ ~draining /\ ~slot[s].pending
        /\ slot' = [slot EXCEPT ![s].pending = TRUE]
        /\ UNCHANGED <<bytes, subscribers, references, released>>
  /\ UNCHANGED <<live, initial, slots, ended, draining, published, taken>>

\* return() and throw() of the iterator, or a destroyed stream over it.
Return(s) ==
  /\ slot[s].claimed /\ s \in subscribers
  /\ Detach({s}) /\ subscribers' = subscribers \ {s}
  /\ UNCHANGED <<live, initial, slots, ended, draining, published, taken>>

Next ==
  \/ \E b \in Sizes : Publish(b)
  \/ Discard \/ End \/ Resume \/ Finish \/ Subscribe
  \/ \E s \in Slot : Read(s) \/ ReadEmpty(s) \/ Return(s)

Spec == Init /\ [][Next]_vars

-----------------------------------------------------------------------------
\* The types of the variables (queue.ts fields); bytes are in BytesExact.
TypeOK ==
  /\ live \in BOOLEAN
  /\ slot \in [Slot -> SlotRecord]
  /\ subscribers \in SUBSET (1..slots)
  /\ slots \in Slot /\ initial \in 1..slots
  /\ ended \in BOOLEAN /\ draining \in BOOLEAN
  /\ published \in 0..MaxPublish
  /\ references \in [Unit -> Int]
  /\ released \in [Unit -> Nat]
  /\ taken \in [Slot -> Seq(Unit)]

\* publish/relinquish: a published unit's callback has run exactly once when no
\* slot holds the unit any more, and not before, whatever mixture of reads,
\* evictions, discards, detaches and ends let go of it.
ReleasedOnceUnheld ==
  \A u \in Unit : released[u] = IF u <= published /\ Holders(u) = {} THEN 1 ELSE 0

\* The while loop of publish keeps every slot within both of its bounds, and
\* add() keeps the subscribers within theirs.
Bounded ==
  /\ \A s \in Slot : Len(slot[s].entries) <= MaxUnits
  /\ Cardinality(subscribers) <= MaxSubscribers

\* removeEntry and push keep the incremental byte count of a slot exact, so
\* the byte bound that publish tests is the real one.
BytesExact ==
  \A s \in Slot : bytes[s] = Bytes(slot[s].entries) /\ bytes[s] <= MaxBytes

\* No lost wakeup: a reader only waits while it is attached to a queue that
\* still accepts units and has nothing for it (publish, end, resume and
\* finish all have to settle or serve the pending read).
NoReaderStranded ==
  \A s \in Slot : slot[s].pending =>
    s \in subscribers /\ slot[s].entries = << >> /\ ~draining /\ ~ended

\* What a reader has received followed by what is queued for it is in
\* publication order without repetition, across direct hand-overs, evictions
\* and discards.
InOrder ==
  \A s \in Slot :
    LET seen == taken[s] \o [i \in 1..Len(slot[s].entries) |-> slot[s].entries[i].id]
    IN \A i, j \in 1..Len(seen) : i < j => seen[i] < seen[j]

\* The bookkeeping of every slot is exact: its byte count (removeEntry, push) and
\* the order of what it has handed out and still holds (next).
SlotsExact == BytesExact /\ InOrder

\* In recorded mode publish never removes a unit a reader has not had: only a
\* read, discard, resume, finish or the reader's own return may.
RecordedKeepsUnits ==
  [][~live /\ published' # published =>
       \A s \in Slot, u \in Unit : Holds(s, u) => Holds(s, u)']_vars

\* The queue implements the producer's view of it: units held or given back.
Ledger == INSTANCE UnitLedger WITH
  held <- {u \in Unit : Holders(u) # {}}, returned <- released
LedgerSpec == Ledger!Spec
=============================================================================
