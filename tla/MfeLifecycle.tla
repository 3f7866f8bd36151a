---------------------------- MODULE MfeLifecycle ----------------------------
(***************************************************************************)
(* The capability pipeline of one micro-frontend instance: BaseMFE in      *)
(* packages/runtime/src/base-mfe.ts, over the contract tables of           *)
(* packages/contracts/src/platform-contract.ts.                            *)
(*                                                                         *)
(* The host and the daemon call capabilities concurrently on one instance. *)
(* Each call runs                                                          *)
(*   guard, enter transition, before, main, doX, after, exit transition    *)
(* and, when anything after the enter transition throws, the error phase   *)
(* and the error transition.  Between two awaits of one call the others    *)
(* run.  The bodies doX are left to the environment: they return or throw. *)
(***************************************************************************)
EXTENDS Naturals, Sequences

CONSTANTS
  Calls,          \* call slots: how many calls may be in flight at once
  Capabilities,   \* the capabilities the callers use
  Hooked          \* <<capability, phase>> pairs with hooks in the manifest

States == {"uninitialized", "loading", "ready", "rendering", "error",
           "destroyed"}

PlatformCapabilities ==
  {"describe", "load", "render", "refresh", "emit", "query", "schema",
   "authorizeAccess", "health", "updateControlPlaneState"}

Phases == {"before", "main", "after", "error"}

ASSUME CapabilitiesAssumption == Capabilities \subseteq PlatformCapabilities
ASSUME HookedAssumption == Hooked \subseteq (Capabilities \X Phases)

(***************************************************************************)
(* The contract tables.                                                    *)
(***************************************************************************)
Transitions(s) ==
  CASE s = "uninitialized" -> {"loading"}
    [] s = "loading"       -> {"ready", "error"}
    [] s = "ready"         -> {"loading", "rendering", "destroyed"}
    [] s = "rendering"     -> {"ready", "error"}
    [] s = "error"         -> {"loading", "destroyed"}
    [] s = "destroyed"     -> {}

LiveStates == States \ {"destroyed"}

PreStates(c) ==
  CASE c = "load"   -> {"uninitialized", "ready", "error"}
    [] c \in {"describe", "health"} -> LiveStates
    [] c = "emit"   -> States
    [] c = "updateControlPlaneState" -> {"ready", "rendering"}
    [] c \in {"render", "refresh", "query", "schema", "authorizeAccess"} ->
         {"ready"}

Transitional == {"load", "render"}

EnterState(c) == IF c = "load" THEN "loading" ELSE "rendering"
ExitState(c)  == "ready"
ErrorState(c) == "error"

(***************************************************************************)
(* State.  call[i] is one invocation: the capability, the pipeline stage   *)
(* it is in, whether that stage is still awaiting its hooks or body, and   *)
(* the phases whose hooks the re-entrancy guard has skipped.               *)
(***************************************************************************)
VARIABLES
  state,           \* this.state
  lifecycleStack,  \* this._lifecycleStack
  call

vars == <<state, lifecycleStack, call>>

Settled == {"idle", "ok", "failed", "rejected"}
Stages  == Phases \cup {"do"} \cup Settled

CallRecord == [cap: PlatformCapabilities, stage: Stages, busy: BOOLEAN,
               skipped: SUBSET Phases]

InFlight(i) == call[i].stage \notin Settled

OnStack(c, p) == \E k \in DOMAIN lifecycleStack : lifecycleStack[k] = <<c, p>>

\* Mutants of StartPhase: without the guard; a guard that waits for the pair
\* instead of skipping the phase; and a phase without hooks that returns early
\* and leaves its pair on the stack.
StartPhase_NoGuard(i, c, p, skippedSoFar) ==
  /\ call' = [call EXCEPT ![i] = [cap |-> c, stage |-> p,
                busy |-> <<c, p>> \in Hooked, skipped |-> skippedSoFar]]
  /\ lifecycleStack' = IF <<c, p>> \in Hooked
                         THEN Append(lifecycleStack, <<c, p>>)
                         ELSE lifecycleStack

StartPhase_Waits(i, c, p, skippedSoFar) ==
  /\ ~OnStack(c, p)
  /\ StartPhase_NoGuard(i, c, p, skippedSoFar)

StartPhase_KeepsEmpty(i, c, p, skippedSoFar) ==
  /\ call' = [call EXCEPT ![i] = [cap |-> c, stage |-> p,
                busy |-> <<c, p>> \in Hooked /\ ~OnStack(c, p),
                skipped |-> IF OnStack(c, p) THEN skippedSoFar \cup {p}
                                             ELSE skippedSoFar]]
  /\ lifecycleStack' = IF OnStack(c, p) THEN lifecycleStack
                                        ELSE Append(lifecycleStack, <<c, p>>)

(***************************************************************************)
(* executeLifecycle up to its first await: the guard skips the phase when  *)
(* its pair is on the stack; a phase without hooks is pushed and popped at *)
(* once; otherwise the pair is pushed and the hooks start.                 *)
(***************************************************************************)
StartPhase(i, c, p, skippedSoFar) ==
  IF OnStack(c, p) \/ <<c, p>> \notin Hooked
    THEN /\ call' = [call EXCEPT ![i] =
                       [cap |-> c, stage |-> p, busy |-> FALSE,
                        skipped |-> IF <<c, p>> \in Hooked
                                      THEN skippedSoFar \cup {p}
                                      ELSE skippedSoFar]]
         /\ UNCHANGED lifecycleStack
    ELSE /\ call' = [call EXCEPT ![i] =
                       [cap |-> c, stage |-> p, busy |-> TRUE,
                        skipped |-> skippedSoFar]]
         /\ lifecycleStack' = Append(lifecycleStack, <<c, p>>)

\* Array.pop: drops the newest entry, whoever pushed it.
Pop(s) == IF s = <<>> THEN s ELSE SubSeq(s, 1, Len(s) - 1)

(***************************************************************************)
(* Actions.                                                                *)
(***************************************************************************)
Init ==
  /\ state = "uninitialized"
  /\ lifecycleStack = <<>>
  /\ call = [i \in Calls |-> [cap |-> "describe", stage |-> "idle",
                             busy |-> FALSE, skipped |-> {}]]

\* Whether the guard and the enter transition let capability c start.
Admitted(c) ==
  /\ state \in PreStates(c)
  /\ c \in Transitional => EnterState(c) \in Transitions(state)

\* executeCapability: guard, enter transition and the start of the before
\* phase run without an await between them.
Call(i, c) ==
  /\ ~InFlight(i)
  /\ Admitted(c)
  /\ state' = IF c \in Transitional THEN EnterState(c) ELSE state
  /\ StartPhase(i, c, "before", {})

\* assertState or transitionState throws before the error boundary.
Reject(i, c) ==
  /\ ~InFlight(i)
  /\ ~Admitted(c)
  /\ call' = [call EXCEPT ![i] = [cap |-> c, stage |-> "rejected",
                                  busy |-> FALSE, skipped |-> {}]]
  /\ UNCHANGED <<state, lifecycleStack>>

\* The last hook of a phase returned (outside main, failures are swallowed).
HooksReturn(i) ==
  /\ call[i].stage \in Phases
  /\ call[i].busy
  /\ lifecycleStack' = Pop(lifecycleStack)
  /\ call' = [call EXCEPT ![i].busy = FALSE]
  /\ UNCHANGED state

\* A main-phase hook throws out of executeLifecycle, past its pop.
MainHookThrows(i) ==
  /\ call[i].stage = "main"
  /\ call[i].busy
  /\ StartPhase(i, call[i].cap, "error", call[i].skipped)
  /\ UNCHANGED state

AfterBefore(i) ==
  /\ call[i].stage = "before"
  /\ ~call[i].busy
  /\ StartPhase(i, call[i].cap, "main", call[i].skipped)
  /\ UNCHANGED state

\* The main phase is over: doX starts.
AfterMain(i) ==
  /\ call[i].stage = "main"
  /\ ~call[i].busy
  /\ call' = [call EXCEPT ![i].stage = "do", ![i].busy = TRUE]
  /\ UNCHANGED <<state, lifecycleStack>>

DoReturns(i) ==
  /\ call[i].stage = "do"
  /\ StartPhase(i, call[i].cap, "after", call[i].skipped)
  /\ UNCHANGED state

\* A mutant of DoThrows: the error transition is made before the error phase.
DoThrows_EarlyTransition(i) ==
  /\ call[i].stage = "do"
  /\ StartPhase(i, call[i].cap, "error", call[i].skipped)
  /\ state' = IF call[i].cap \in Transitional
                THEN ErrorState(call[i].cap) ELSE state

\* doX throws, or the capability is not implemented.
DoThrows(i) ==
  /\ call[i].stage = "do"
  /\ StartPhase(i, call[i].cap, "error", call[i].skipped)
  /\ UNCHANGED state

\* The exit transition, the last stage of the pipeline, inside the error
\* boundary: were it not an edge, the call would go to its error phase.
Exit(i) ==
  /\ call[i].stage = "after"
  /\ ~call[i].busy
  /\ IF call[i].cap \in Transitional => ExitState(call[i].cap) \in Transitions(state)
       THEN /\ state' = IF call[i].cap \in Transitional
                          THEN ExitState(call[i].cap) ELSE state
            /\ call' = [call EXCEPT ![i].stage = "ok"]
            /\ UNCHANGED lifecycleStack
       ELSE /\ StartPhase(i, call[i].cap, "error", call[i].skipped)
            /\ UNCHANGED state

\* A mutant of Fail: the error boundary rethrows without its transition.
Fail_NoTransition(i) ==
  /\ call[i].stage = "error"
  /\ ~call[i].busy
  /\ call' = [call EXCEPT ![i].stage = "failed"]
  /\ UNCHANGED <<state, lifecycleStack>>

\* The error transition; a transition that is not an edge throws in its turn
\* and the state stays.
Fail(i) ==
  /\ call[i].stage = "error"
  /\ ~call[i].busy
  /\ state' = IF /\ call[i].cap \in Transitional
                 /\ ErrorState(call[i].cap) \in Transitions(state)
                THEN ErrorState(call[i].cap) ELSE state
  /\ call' = [call EXCEPT ![i].stage = "failed"]
  /\ UNCHANGED lifecycleStack

Step(i) ==
  \/ HooksReturn(i)
  \/ MainHookThrows(i)
  \/ AfterBefore(i)
  \/ AfterMain(i)
  \/ DoReturns(i)
  \/ DoThrows(i)
  \/ Exit(i)
  \/ Fail(i)

Next ==
  \E i \in Calls :
    \/ \E c \in Capabilities : Call(i, c) \/ Reject(i, c)
    \/ Step(i)

\* Hooks and bodies are assumed to settle, and the event loop runs every
\* settled continuation.
Fairness == \A i \in Calls : WF_vars(Step(i))

Spec == Init /\ [][Next]_vars
FairSpec == Spec /\ Fairness

-----------------------------------------------------------------------------
(***************************************************************************)
(* Properties.                                                             *)
(***************************************************************************)

\* The types of the variables.  Only a phase that has hooks is ever left on the
\* stack between two awaits: the early returns of executeLifecycle pop.
TypeOK ==
  /\ state \in States
  /\ lifecycleStack \in Seq(Hooked)
  /\ call \in [Calls -> CallRecord]

Transiting(i) == InFlight(i) /\ call[i].cap \in Transitional

\* The state machine has one owner: `loading` and `rendering` say that exactly
\* one load or render is between its enter transition and its exit or error
\* transition, and that call finds the state it entered still in place, however
\* many other calls run meanwhile (ADR-042: a render arriving during a load
\* fails at the boundary).
TransitionOwner ==
  /\ \A i \in Calls : Transiting(i) => state = EnterState(call[i].cap)
  /\ \A i, j \in Calls : Transiting(i) /\ Transiting(j) => i = j
  /\ state \in {"loading", "rendering"} => \E i \in Calls : Transiting(i)

\* No call that got past its guard ever meets an illegal transition: neither
\* the exit nor the error transition throws, so the error a caller sees is
\* always the one that happened (errorBoundary rethrows after its transition).
TransitionsNeverThrow ==
  \A i \in Calls : Transiting(i) =>
    {ExitState(call[i].cap), ErrorState(call[i].cap)} \subseteq Transitions(state)

\* The guard keeps every pair at most once on the stack, so the stack cannot
\* outgrow the declared phases however long the instance lives.
StackHasNoRepeats ==
  \A k, l \in DOMAIN lifecycleStack :
    lifecycleStack[k] = lifecycleStack[l] => k = l

\* base-mfe.ts:308: the stack "tracks currently executing lifecycle phases".
StackTracksExecuting ==
  \A k \in DOMAIN lifecycleStack :
    \E i \in Calls : /\ call[i].busy
                     /\ lifecycleStack[k] = <<call[i].cap, call[i].stage>>

\* Every call settles once its hooks and body do: the pipeline itself never
\* waits for another call.
EveryCallSettles == \A i \in Calls : InFlight(i) ~> ~InFlight(i)

\* The pipeline keeps the platform contract: whatever calls, hooks, failures and
\* re-entrancy do, the lifecycle state changes only when a load or a render
\* enters alone or the one inside leaves, and leaving ends loading or rendering.
Contract == INSTANCE InstanceContract
  WITH inside <- [i \in Calls |-> IF Transiting(i) THEN call[i].cap ELSE "none"]

ImplementsContract == Contract!Spec

=============================================================================
