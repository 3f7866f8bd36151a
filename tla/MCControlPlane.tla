--------------------------- MODULE MCControlPlane ---------------------------
(***************************************************************************)
(* Instance of ControlPlane for TLC.                                       *)
(***************************************************************************)
EXTENDS ControlPlane, FiniteSets

\* Every manager opens one socket, and every lost connection one more.
ASSUME EnoughSockets == Cardinality(Sockets) >= Cardinality(Managers) + MaxDrops

=============================================================================
