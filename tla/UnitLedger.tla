----------------------------- MODULE UnitLedger -----------------------------
(***************************************************************************)
(* What a consumer queue owes its producer, whatever it does inside: every *)
(* unit handed over is either still held or has been given back, and it is *)
(* given back once.  The media session returns one IPC credit to the       *)
(* native worker per unit given back, so a unit given back twice would     *)
(* inflate the worker's window and a unit never given back would shrink it *)
(* for the rest of the session.                                            *)
(***************************************************************************)
EXTENDS Naturals

CONSTANT Unit          \* the units that may ever be handed over

VARIABLES held,        \* units the queue still holds for some consumer
          returned     \* [Unit -> Nat]: how often a unit has been given back

vars == <<held, returned>>

Init == /\ held = {}
        /\ returned = [u \in Unit |-> 0]

\* Units that were never handed over.
Fresh == {u \in Unit : u \notin held /\ returned[u] = 0}

\* In one step the queue accepts at most one new unit and gives back any of
\* the units it has, the new one included.
Move == \E accepted \in SUBSET Fresh, back \in SUBSET (held \cup Fresh) :
          /\ \A u, v \in accepted : u = v
          /\ back \subseteq held \cup accepted
          /\ held' = (held \cup accepted) \ back
          /\ returned' = [u \in Unit |-> IF u \in back THEN returned[u] + 1
                                                       ELSE returned[u]]

Spec == Init /\ [][Move]_vars
=============================================================================
