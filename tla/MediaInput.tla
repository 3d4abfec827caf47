----------------------------- MODULE MediaInput -----------------------------
(***************************************************************************)
(* What the native worker of a media session is given: the request that    *)
(* opens it (MediaOpen) and the packets of the camera (Payload).  A        *)
(* behaviour follows one of the two; they share no state.                  *)
(***************************************************************************)
EXTENDS Payload, MediaOpen

VARIABLE stage   \* which of the two this behaviour follows

InputInit ==
  \/ stage = "open" /\ OpenInit
     /\ PayloadInit /\ setup = [track |-> "jpeg", recorded |-> FALSE, gzip |-> FALSE]
  \/ stage = "payload" /\ PayloadInit
     /\ request = Nothing /\ trust = Nothing /\ NotStarted

InputNext ==
  \/ stage = "open" /\ OpenNext /\ UNCHANGED <<payloadVars, stage>>
  \/ stage = "payload" /\ PayloadNext /\ UNCHANGED <<openVars, stage>>

InputSpec == InputInit /\ [][InputNext]_<<payloadVars, openVars, stage>>

=============================================================================
