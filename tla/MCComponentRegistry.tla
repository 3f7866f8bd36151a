------------------------ MODULE MCComponentRegistry ------------------------
(***************************************************************************)
(* Instances of ComponentRegistry for TLC: an MFE that contributes a slot  *)
(* and an MFE that is placed there, or at the host.                        *)
(***************************************************************************)
EXTENDS ComponentRegistry, TLC

CONSTANTS p, m, s, key

OnKey    == [comp |-> None, act |-> None, key |-> key]
OnUpdate == [comp |-> None, act |-> "STATE_UPDATE", key |-> None]

AtHost == HostAddress
AtSlot == [provider |-> p, slot |-> s, malformed |-> FALSE]

To(when, address) == [when |-> when, address |-> address, resolves |-> TRUE]

\* Two routes, one route, none; a route at the slot of p; and a route without
\* a resolve part before a good one.
Lists ==
  {<<To(OnKey, AtHost), To(OnUpdate, AtHost)>>,
   <<To(OnUpdate, AtSlot)>>,
   <<>>,
   <<[To(OnKey, AtHost) EXCEPT !.resolves = FALSE], To(OnUpdate, AtHost)>>}

\* Ids are interchangeable.
IdSymmetry == Permutations(Ids)

=============================================================================
