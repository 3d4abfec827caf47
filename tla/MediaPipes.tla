----------------------------- MODULE MediaPipes -----------------------------
(***************************************************************************)
(* What the Node media session (media/session.ts) and the native media     *)
(* worker (native-media/src/worker.c, ipc.c) share: the private pipes and  *)
(* the worker's process handle (media/process.ts).  A pipe delivers its    *)
(* messages in order; nothing orders one pipe with another.                *)
(*                                                                         *)
(* Sequence numbers of commands are kept for the requests that are answered*)
(* (OPEN, PAUSE, PLAY, SEEK, CLOSE); a CREDIT uses up a number too, but no *)
(* answer refers to it.  All media units have the same size, so the byte   *)
(* and the unit window coincide and credits are counted in units.          *)
(***************************************************************************)
EXTENDS Integers, Sequences, FiniteSets

CONSTANTS QueueUnits,   \* limits.queueUnits, the credit window
          Live,         \* mode = "live" (else recorded)
          Kinds,        \* the controls the consumer uses
          MaxRequests,  \* bound: commands that take a sequence number
          MaxData,      \* bound: media units the worker enqueues
          Faults        \* the faults that may happen

ASSUME LinkAssumption ==
  /\ QueueUnits \in Nat \ {0} /\ MaxRequests \in Nat /\ MaxData \in Nat
  /\ Live \in BOOLEAN
  /\ Kinds \subseteq {"PAUSE", "PLAY", "SEEK"}
  /\ Live => "SEEK" \notin Kinds
  /\ Faults \subseteq {"abort", "crash", "early", "native", "expire", "local"}

VARIABLES
  commands,   \* session -> worker, fd 0; EOF stands for the destroyed stream
  control,    \* worker -> session, fd 1
  data,       \* worker -> session, fd 3
  secrets,    \* fd 4: empty, written (and ended) or destroyed
  exit        \* the process: running, its exit code, killed or crashed

pipes == <<commands, control, data, secrets, exit>>

Command(kind, gen, seq, units) == [kind |-> kind, gen |-> gen, seq |-> seq, units |-> units]

\* A control frame; own tells whether it carries the session's identifier.
Frame(kind, own, gen, seq) == [kind |-> kind, own |-> own, gen |-> gen, seq |-> seq]
EndFrame(own, gen, seq, watermark) ==
  [kind |-> "END", own |-> own, gen |-> gen, seq |-> seq, watermark |-> watermark]
ControlFrame(gen, seq, command, state) ==
  [kind |-> "CONTROL", own |-> TRUE, gen |-> gen, seq |-> seq, command |-> command, state |-> state]
ClosedFrame(own, gen, seq, remote, local) ==
  [kind |-> "CLOSED", own |-> own, gen |-> gen, seq |-> seq, remote |-> remote, localCleanup |-> local]

PipesInit ==
  /\ commands = << >> /\ data = << >>
  /\ control = << Frame("HELLO", FALSE, 0, 0) >>
  /\ secrets = "empty"
  /\ exit = "running"
=============================================================================
