--------------------------- MODULE MCLayoutManager ---------------------------
(***************************************************************************)
(* Instances of LayoutManager for TLC: one host address, one or two that   *)
(* experiences contribute, and a handful of placements and callbacks.      *)
(***************************************************************************)
EXTENDS LayoutManager, TLC

CONSTANTS p, c, d, main, x

\* p and c are layouts of one MFE that contribute the same address x.
LayoutProvides == [e \in Experiences |-> IF e = d THEN {} ELSE {x}]

\* The layouts go to the host address, the content anywhere.
LayoutTargets ==
  [e \in Experiences |-> IF e = d THEN Addresses ELSE {main}]

\* Every experience may contribute every address: provisions nest, form
\* cycles, and several experiences of one MFE contribute the same address.
AnyProvides == [e \in Experiences |-> Addresses]

NoProvides == [e \in Experiences |-> {}]

\* Every experience may be placed at every address, its own ones included.
AnyTargets == [e \in Experiences |-> Addresses]

=============================================================================
