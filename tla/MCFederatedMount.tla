-------------------------- MODULE MCFederatedMount --------------------------
(***************************************************************************)
(* Instances of FederatedMount for TLC.                                    *)
(***************************************************************************)
EXTENDS FederatedMount

\* The remote the code generator writes: a handle made with mfeReady.
GeneratedRemote == {"handle"}

=============================================================================
