----------------------------- MODULE IslandCycle -----------------------------
(***************************************************************************)
(* What the layout manager promises the adaptors it drives, address by     *)
(* address (packages/runtime/src/layout-manager.ts): an experience is      *)
(* mounted only where nothing is mounted or being mounted, and what was    *)
(* mounted is unmounted, once, before the next mount.  LayoutManager keeps *)
(* the promise; FederatedMount, the adaptor's side, rests on it: it binds  *)
(* and tears down an address wherever the promise allows it.               *)
(***************************************************************************)
CONSTANTS Experiences, Addresses

VARIABLE island   \* address -> the island there, from the mount's start to the unmount's

Empty == [at |-> "empty"]

Island(at, e) == [at |-> at, exp |-> e]

Init == island = [a \in Addresses |-> Empty]

\* The adaptor is called.
Mounts(a, e) ==
  /\ island[a] = Empty
  /\ island' = [island EXCEPT ![a] = Island("mounting", e)]

\* Its promise resolves: the slot holds the unmount function.
Settles(a, e) ==
  /\ island[a] = Island("mounting", e)
  /\ island' = [island EXCEPT ![a] = Island("mounted", e)]

\* Its promise rejects, or the unmount function is called.
Leaves(a) ==
  /\ island[a] # Empty
  /\ island' = [island EXCEPT ![a] = Empty]

\* The promise ends where the manager is first stopped.
Ends == island' = [a \in Addresses |-> Empty]

Next ==
  \/ \E a \in Addresses :
       \/ \E e \in Experiences : Mounts(a, e) \/ Settles(a, e)
       \/ Leaves(a)
  \/ Ends

Spec == Init /\ [][Next]_island

=============================================================================
