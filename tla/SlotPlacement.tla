---------------------------- MODULE SlotPlacement ----------------------------
(***************************************************************************)
(* What the slot composition promises, without queues, mounts or elements  *)
(* (ADR-066): the registry's placements are desired state, an experience   *)
(* is wanted at no more than one address, and an address shows nothing but *)
(* an experience that was wanted there when the host set out to bind it.   *)
(***************************************************************************)
CONSTANTS Experiences, Addresses, None

VARIABLES
  wanted,   \* address -> the experience the registry wants there
  intent,   \* address -> the experience the host has set out to bind
  shown     \* address -> the experience that occupies it

vars == <<wanted, intent, shown>>

Init ==
  /\ wanted = [a \in Addresses |-> None]
  /\ intent = [a \in Addresses |-> None]
  /\ shown  = [a \in Addresses |-> None]

\* The registry places e at a, taking it from wherever else it was wanted.
Place(e, a) ==
  /\ wanted' = [b \in Addresses |->
                  IF b = a THEN e ELSE IF wanted[b] = e THEN None ELSE wanted[b]]
  /\ UNCHANGED <<intent, shown>>

\* The host sets out to bind what is wanted now, whether or not the address
\* still shows what it showed.
SetOut(a) ==
  /\ wanted[a] # None
  /\ intent' = [intent EXCEPT ![a] = wanted[a]]
  /\ \/ UNCHANGED shown
     \/ shown' = [shown EXCEPT ![a] = None]
  /\ UNCHANGED wanted

Show(a) ==
  /\ intent[a] # None
  /\ shown' = [shown EXCEPT ![a] = intent[a]]
  /\ intent' = [intent EXCEPT ![a] = None]
  /\ UNCHANGED wanted

Clear(a) ==
  /\ shown' = [shown EXCEPT ![a] = None]
  /\ UNCHANGED <<wanted, intent>>

\* A full shutdown forgets every placement.
Shutdown ==
  /\ wanted' = [a \in Addresses |-> None]
  /\ shown'  = [a \in Addresses |-> None]
  /\ UNCHANGED intent

Next ==
  \/ \E a \in Addresses :
       \/ \E e \in Experiences : Place(e, a)
       \/ SetOut(a) \/ Show(a) \/ Clear(a)
  \/ Shutdown

Spec == Init /\ [][Next]_vars

=============================================================================
