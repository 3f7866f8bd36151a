--------------------------- MODULE MCMfeLifecycle ---------------------------
(***************************************************************************)
(* Instances of MfeLifecycle for TLC: concurrent calls of one instance     *)
(* whose manifest declares hooks for some phases.                          *)
(***************************************************************************)
EXTENDS MfeLifecycle

\* Hooks on phases where calls of different capabilities interleave.
ConcurrentHooks == {<<"load", "main">>, <<"health", "after">>}

\* Every phase of every capability in use has hooks.
AllHooks == Capabilities \X Phases

=============================================================================
