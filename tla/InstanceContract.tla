-------------------------- MODULE InstanceContract --------------------------
(***************************************************************************)
(* What the platform contract (packages/contracts/src/platform-contract.ts)*)
(* promises the callers of one micro-frontend instance, with no pipeline,  *)
(* hooks, queue or stack in sight: load and render run one at a time, each *)
(* from a state the capability table admits it in, and when the one inside *)
(* is gone the instance is ready or in error.                              *)
(***************************************************************************)
CONSTANT Calls    \* whoever may have a load or a render under way

VARIABLES
  state,    \* the lifecycle state of the instance
  inside    \* what each call is inside of: "load", "render" or "none"

vars == <<state, inside>>

\* preStates and enterState of load and render.
Before(c) == IF c = "load" THEN {"uninitialized", "ready", "error"} ELSE {"ready"}
During(c) == IF c = "load" THEN "loading" ELSE "rendering"

Init ==
  /\ state = "uninitialized"
  /\ inside = [i \in Calls |-> "none"]

\* The guard and the enter transition.
Enter(i, c) ==
  /\ \A j \in Calls : inside[j] = "none"
  /\ state \in Before(c)
  /\ state' = During(c)
  /\ inside' = [inside EXCEPT ![i] = c]

\* The exit transition, or the error transition.
Leave(i) ==
  /\ inside[i] # "none"
  /\ state = During(inside[i])
  /\ state' \in {"ready", "error"}
  /\ inside' = [inside EXCEPT ![i] = "none"]

Next == \E i \in Calls : Leave(i) \/ \E c \in {"load", "render"} : Enter(i, c)

Spec == Init /\ [][Next]_vars

=============================================================================
