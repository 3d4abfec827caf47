--------------------------- MODULE DiscoveryEngine ---------------------------
(***************************************************************************)
(* The discovery engine in its two views: Discovery, what becomes of the   *)
(* announcements of one device and of its inspections, and Reception,      *)
(* which datagrams are believed and where native reads are sent.  The      *)
(* views share no state but the options; a behaviour is one of them.       *)
(***************************************************************************)
EXTENDS Discovery, Reception

vars == <<discoveryVars, receptionVars>>

Init == DiscoveryInit /\ ReceptionInit

Next ==
  \/ "datagrams" \notin scenario /\ DiscoveryNext /\ UNCHANGED receptionVars
  \/ "datagrams" \in scenario /\ ReceptionNext /\ UNCHANGED discoveryVars

Spec == Init /\ [][Next]_vars

-----------------------------------------------------------------------------
\* The inspection of a device is sent where it was really announced, or answered
\* as a seed, and where the operator allows now (TargetsGrounded); what the device's
\* own inspection verifies is not older than what was announced, and a superseded
\* one is run again (InspectionsCurrent).  Of the inspection of a seed, whose token
\* is taken only when its report is there, the second is not claimed.
InspectionsSound == TargetsGrounded /\ InspectionsCurrent
=============================================================================
