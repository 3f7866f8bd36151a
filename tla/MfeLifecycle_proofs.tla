------------------------ MODULE MfeLifecycle_proofs ------------------------
(***************************************************************************)
(* Proofs about the capability pipeline, for any number of call slots, any *)
(* capabilities in use and any hooks in the manifest.                      *)
(***************************************************************************)
EXTENDS MfeLifecycle, TLAPS, SequenceTheorems

USE CapabilitiesAssumption, HookedAssumption

(***************************************************************************)
(* Typing.                                                                 *)
(***************************************************************************)

\* Starting a phase keeps the stack and the calls well typed.
LEMMA StartPhaseType ==
  ASSUME TypeOK, NEW i \in Calls, NEW c \in PlatformCapabilities,
         NEW p \in Phases, NEW sk \in SUBSET Phases,
         StartPhase(i, c, p, sk)
  PROVE  /\ call' \in [Calls -> CallRecord]
         /\ lifecycleStack' \in Seq(Hooked)
<1>. p \in Stages
  BY DEF Stages
<1>1. CASE OnStack(c, p) \/ <<c, p>> \notin Hooked
  <2>. DEFINE ns == IF <<c, p>> \in Hooked THEN sk \cup {p} ELSE sk
  <2>1. call' = [call EXCEPT ![i] = [cap |-> c, stage |-> p, busy |-> FALSE,
                                     skipped |-> ns]]
    BY <1>1 DEF StartPhase
  <2>2. ns \in SUBSET Phases
    OBVIOUS
  <2>3. [cap |-> c, stage |-> p, busy |-> FALSE, skipped |-> ns] \in CallRecord
    BY <2>2 DEF CallRecord
  <2>4. call' \in [Calls -> CallRecord]
    BY <2>1, <2>3 DEF TypeOK
  <2>. QED BY <1>1, <2>4 DEF StartPhase, TypeOK
<1>2. CASE ~(OnStack(c, p) \/ <<c, p>> \notin Hooked)
  <2>1. call' = [call EXCEPT ![i] = [cap |-> c, stage |-> p, busy |-> TRUE,
                                     skipped |-> sk]]
    BY <1>2 DEF StartPhase
  <2>2. lifecycleStack' = Append(lifecycleStack, <<c, p>>)
    BY <1>2 DEF StartPhase
  <2>3. call' \in [Calls -> CallRecord]
    <3>1. [cap |-> c, stage |-> p, busy |-> TRUE, skipped |-> sk] \in CallRecord
      BY DEF CallRecord
    <3>. QED BY <2>1, <3>1 DEF TypeOK
  <2>4. lifecycleStack' \in Seq(Hooked)
    BY <1>2, <2>2 DEF TypeOK
  <2>. QED BY <2>3, <2>4
<1>. QED BY <1>1, <1>2

\* Popping keeps the stack well typed.
LEMMA PopType ==
  ASSUME NEW S, NEW s \in Seq(S)
  PROVE  Pop(s) \in Seq(S)
<1>1. CASE s = <<>>
  BY <1>1 DEF Pop
<1>2. CASE s # <<>>
  <2>1. Len(s) - 1 \in 0 .. Len(s)
    BY <1>2
  <2>2. SubSeq(s, 1, Len(s) - 1) \in Seq(S)
    BY <2>1
  <2>. QED BY <1>2, <2>2 DEF Pop
<1>. QED BY <1>1, <1>2

\* Every step of the pipeline keeps the types.
LEMMA TypeStep == TypeOK /\ [Next]_vars => TypeOK'
<1>. SUFFICES ASSUME TypeOK, [Next]_vars PROVE TypeOK'
  OBVIOUS
<1>. USE DEF TypeOK
<1>1. ASSUME NEW i \in Calls, NEW c \in Capabilities, Call(i, c)
      PROVE  TypeOK'
  <2>1. c \in PlatformCapabilities /\ "before" \in Phases /\ {} \in SUBSET Phases
    BY DEF Phases
  <2>2. call' \in [Calls -> CallRecord]
        /\ lifecycleStack' \in Seq(Hooked)
    BY <1>1, <2>1, StartPhaseType DEF Call
  <2>3. state' \in States
    BY <1>1 DEF Call, EnterState, States
  <2>. QED BY <2>2, <2>3
<1>2. ASSUME NEW i \in Calls, NEW c \in Capabilities, Reject(i, c)
      PROVE  TypeOK'
  <2>1. [cap |-> c, stage |-> "rejected", busy |-> FALSE, skipped |-> {}]
          \in CallRecord
    BY DEF CallRecord, Stages, Settled
  <2>. QED BY <1>2, <2>1 DEF Reject
<1>3. ASSUME NEW i \in Calls, Step(i)
      PROVE  TypeOK'
  <2>0. call[i] \in CallRecord /\ call[i].cap \in PlatformCapabilities
        /\ call[i].skipped \in SUBSET Phases
    BY DEF CallRecord
  <2>p. {"main", "after", "error"} \subseteq Phases
    BY DEF Phases
  <2>1. CASE HooksReturn(i)
    <3>1. [call[i] EXCEPT !.busy = FALSE] \in CallRecord
      BY <2>0 DEF CallRecord
    <3>. QED BY <2>1, <3>1, PopType DEF HooksReturn
  <2>2. CASE MainHookThrows(i)
    BY <2>0, <2>p, <2>2, StartPhaseType DEF MainHookThrows
  <2>3. CASE AfterBefore(i)
    BY <2>0, <2>p, <2>3, StartPhaseType DEF AfterBefore
  <2>4. CASE AfterMain(i)
    <3>1. [call[i] EXCEPT !.stage = "do", !.busy = TRUE] \in CallRecord
      BY <2>0 DEF CallRecord, Stages
    <3>. QED BY <2>4, <3>1 DEF AfterMain
  <2>5. CASE DoReturns(i)
    BY <2>0, <2>p, <2>5, StartPhaseType DEF DoReturns
  <2>6. CASE DoThrows(i)
    BY <2>0, <2>p, <2>6, StartPhaseType DEF DoThrows
  <2>7. CASE Exit(i)
    <3>1. [call[i] EXCEPT !.stage = "ok"] \in CallRecord
      BY <2>0 DEF CallRecord, Stages, Settled
    <3>2. ExitState(call[i].cap) \in States
      BY DEF ExitState, States
    <3>3. CASE UNCHANGED lifecycleStack /\ call' = [call EXCEPT ![i].stage = "ok"]
               /\ state' \in States
      BY <3>1, <3>3
    <3>4. CASE StartPhase(i, call[i].cap, "error", call[i].skipped)
               /\ UNCHANGED state
      BY <2>0, <2>p, <3>4, StartPhaseType
    <3>. QED BY <2>7, <3>2, <3>3, <3>4 DEF Exit
  <2>8. CASE Fail(i)
    <3>1. [call[i] EXCEPT !.stage = "failed"] \in CallRecord
      BY <2>0 DEF CallRecord, Stages, Settled
    <3>. QED BY <2>8, <3>1 DEF Fail, ErrorState, States
  <2>. QED BY <1>3, <2>1, <2>2, <2>3, <2>4, <2>5, <2>6, <2>7, <2>8 DEF Step
<1>4. ASSUME UNCHANGED vars PROVE TypeOK'
  BY <1>4 DEF vars
<1>. QED BY <1>1, <1>2, <1>3, <1>4 DEF Next

LEMMA TypeInit == Init => TypeOK
<1>. SUFFICES ASSUME Init PROVE TypeOK
  OBVIOUS
<1>1. [cap |-> "describe", stage |-> "idle", busy |-> FALSE, skipped |-> {}]
        \in CallRecord
  BY DEF CallRecord, PlatformCapabilities, Stages, Settled
<1>. QED BY <1>1 DEF Init, TypeOK, States

\* The variables keep their types, whatever the callers, hooks and bodies do.
THEOREM TypeCorrect == Spec => []TypeOK
BY TypeInit, TypeStep, PTL DEF Spec

(***************************************************************************)
(* One owner of the state machine.                                         *)
(***************************************************************************)

\* What the contract tables say of load and render, and of nothing else: they
\* are never admitted while one of them runs, and the state each enters has
\* both its exit and its error transition.
LEMMA ContractTables ==
  /\ \A c \in Transitional :
        /\ EnterState(c) \in {"loading", "rendering"}
        /\ ExitState(c) \in Transitions(EnterState(c))
        /\ ErrorState(c) \in Transitions(EnterState(c))
        /\ EnterState(c) \notin PreStates(c)
  /\ PreStates("load") \cap {"loading", "rendering"} = {}
  /\ PreStates("render") \cap {"loading", "rendering"} = {}
<1>1. Transitions("loading") = {"ready", "error"}
  BY DEF Transitions
<1>2. Transitions("rendering") = {"ready", "error"}
  BY DEF Transitions
<1>3. PreStates("load") = {"uninitialized", "ready", "error"}
  BY DEF PreStates
<1>4. PreStates("render") = {"ready"}
  BY DEF PreStates
<1>. QED
  BY <1>1, <1>2, <1>3, <1>4
  DEF Transitional, EnterState, ExitState, ErrorState


\* Starting a phase changes one call: its capability and stage are the ones
\* started, whether or not the guard skips the hooks.
LEMMA StartPhaseEffect ==
  ASSUME TypeOK, NEW i \in Calls, NEW c \in PlatformCapabilities,
         NEW p \in Phases, NEW sk, StartPhase(i, c, p, sk)
  PROVE  /\ call'[i].cap = c
         /\ call'[i].stage = p
         /\ \A j \in Calls \ {i} : call'[j] = call[j]
<1>. USE DEF TypeOK
<1>1. CASE OnStack(c, p) \/ <<c, p>> \notin Hooked
  BY <1>1 DEF StartPhase
<1>2. CASE ~(OnStack(c, p) \/ <<c, p>> \notin Hooked)
  BY <1>2 DEF StartPhase
<1>. QED BY <1>1, <1>2

\* A step that leaves the state alone and keeps one call in flight with its
\* capability (or moves a call that owns nothing) keeps the single owner.
LEMMA OwnerKept ==
  ASSUME TypeOK, TransitionOwner, NEW i \in Calls, InFlight(i),
         call'[i].cap = call[i].cap,
         call'[i].stage \in Phases \cup {"do"}
           \/ call[i].cap \notin Transitional,
         \A j \in Calls \ {i} : call'[j] = call[j],
         state' = state
  PROVE  TransitionOwner'
<1>1. \A j \in Calls : (Transiting(j))' <=> Transiting(j)
  BY DEF Transiting, InFlight, Settled, Phases
<1>2. \A j \in Calls : call'[j].cap = call[j].cap
  OBVIOUS
<1>. QED BY <1>1, <1>2 DEF TransitionOwner, EnterState

\* A step in which the owner gives the state machine up keeps the single
\* owner, provided it leaves the transitional state.
LEMMA OwnerReleases ==
  ASSUME TypeOK, TransitionOwner, NEW i \in Calls, Transiting(i),
         call'[i].stage \in Settled,
         \A j \in Calls \ {i} : call'[j] = call[j],
         state' \notin {"loading", "rendering"}
  PROVE  TransitionOwner'
<1>1. \A j \in Calls : ~(Transiting(j))'
  BY DEF TransitionOwner, Transiting, InFlight
<1>. QED BY <1>1 DEF TransitionOwner

\* The single owner is inductive together with the types.
LEMMA OwnerStep == TypeOK /\ TransitionOwner /\ [Next]_vars => TransitionOwner'
<1>. SUFFICES ASSUME TypeOK, TransitionOwner, [Next]_vars
              PROVE  TransitionOwner'
  OBVIOUS
<1>p. /\ {"before", "main", "after", "error"} = Phases
      /\ Phases \cap Settled = {}
      /\ "do" \notin Settled
  BY DEF Phases, Settled
<1>1. ASSUME NEW i \in Calls, NEW c \in Capabilities, Call(i, c)
      PROVE  TransitionOwner'
  <2>1. c \in PlatformCapabilities
    OBVIOUS
  <2>2. /\ call'[i].cap = c /\ call'[i].stage = "before"
        /\ \A j \in Calls \ {i} : call'[j] = call[j]
    BY <1>1, <2>1, <1>p, StartPhaseEffect DEF Call
  <2>3. CASE c \in Transitional
    <3>1. state \notin {"loading", "rendering"}
      BY <1>1, <2>3, ContractTables DEF Call, Admitted, Transitional
    <3>2. \A j \in Calls : ~Transiting(j)
      BY <3>1 DEF TransitionOwner, Transiting, EnterState
    <3>3. \A j \in Calls : (Transiting(j))' <=> j = i
      BY <2>2, <2>3, <3>2, <1>p DEF Transiting, InFlight
    <3>4. state' = EnterState(c)
      BY <1>1, <2>3 DEF Call
    <3>. QED BY <2>2, <3>3, <3>4 DEF TransitionOwner, EnterState
  <2>4. CASE c \notin Transitional
    <3>1. \A j \in Calls : (Transiting(j))' <=> Transiting(j)
      BY <1>1, <2>2, <2>4 DEF Transiting, InFlight, Call
    <3>2. state' = state
      BY <1>1, <2>4 DEF Call
    <3>3. \A j \in Calls : Transiting(j) => call'[j] = call[j]
      BY <1>1, <2>2 DEF Transiting, Call
    <3>. QED BY <3>1, <3>2, <3>3 DEF TransitionOwner, EnterState
  <2>. QED BY <2>3, <2>4
<1>2. ASSUME NEW i \in Calls, NEW c \in Capabilities, Reject(i, c)
      PROVE  TransitionOwner'
  <2>0. call' = [call EXCEPT ![i] = [cap |-> c, stage |-> "rejected",
                                     busy |-> FALSE, skipped |-> {}]]
    BY <1>2 DEF Reject
  <2>1. /\ call'[i].stage = "rejected" /\ state' = state
        /\ \A j \in Calls \ {i} : call'[j] = call[j]
    BY <1>2, <2>0 DEF Reject, TypeOK
  <2>2. \A j \in Calls : (Transiting(j))' <=> Transiting(j)
    BY <1>2, <2>1 DEF Reject, Transiting, InFlight, Settled
  <2>3. \A j \in Calls : Transiting(j) => call'[j] = call[j]
    BY <1>2, <2>1 DEF Transiting, Reject
  <2>. QED BY <2>1, <2>2, <2>3 DEF TransitionOwner, EnterState
<1>3. ASSUME NEW i \in Calls, Step(i)
      PROVE  TransitionOwner'
  <2>0. call[i].cap \in PlatformCapabilities
    BY DEF TypeOK, CallRecord
  <2>1. InFlight(i)
    BY <1>3, <1>p DEF Step, InFlight, HooksReturn, MainHookThrows, AfterBefore,
                      AfterMain, DoReturns, DoThrows, Exit, Fail
  <2>2. CASE HooksReturn(i)
    BY <2>1, <2>2, OwnerKept DEF HooksReturn, TypeOK
  <2>3. CASE MainHookThrows(i)
    BY <2>0, <2>1, <2>3, <1>p, StartPhaseEffect, OwnerKept DEF MainHookThrows
  <2>4. CASE AfterBefore(i)
    BY <2>0, <2>1, <2>4, <1>p, StartPhaseEffect, OwnerKept DEF AfterBefore
  <2>5. CASE AfterMain(i)
    BY <2>1, <2>5, OwnerKept DEF AfterMain, TypeOK
  <2>6. CASE DoReturns(i)
    BY <2>0, <2>1, <2>6, <1>p, StartPhaseEffect, OwnerKept DEF DoReturns
  <2>7. CASE DoThrows(i)
    BY <2>0, <2>1, <2>7, <1>p, StartPhaseEffect, OwnerKept DEF DoThrows
  <2>8. CASE Exit(i)
    <3>1. CASE call[i].cap \in Transitional
      <4>1. Transiting(i) /\ state = EnterState(call[i].cap)
        BY <2>1, <3>1 DEF Transiting, TransitionOwner
      <4>2. ExitState(call[i].cap) \in Transitions(state)
        BY <3>1, <4>1, ContractTables
      <4>3. state' = "ready" /\ call' = [call EXCEPT ![i].stage = "ok"]
        BY <2>8, <3>1, <4>2 DEF Exit, ExitState
      <4>4. /\ call'[i].stage = "ok"
            /\ \A j \in Calls \ {i} : call'[j] = call[j]
        BY <4>3 DEF TypeOK, CallRecord
      <4>. QED BY <4>1, <4>3, <4>4, OwnerReleases DEF Settled
    <3>2. CASE call[i].cap \notin Transitional
      <4>1. state' = state /\ call' = [call EXCEPT ![i].stage = "ok"]
        BY <2>8, <3>2 DEF Exit
      <4>2. /\ call'[i].cap = call[i].cap
            /\ \A j \in Calls \ {i} : call'[j] = call[j]
        BY <4>1 DEF TypeOK, CallRecord
      <4>. QED BY <2>1, <3>2, <4>1, <4>2, OwnerKept
    <3>. QED BY <3>1, <3>2
  <2>9. CASE Fail(i)
    <3>1. CASE call[i].cap \in Transitional
      <4>1. Transiting(i) /\ state = EnterState(call[i].cap)
        BY <2>1, <3>1 DEF Transiting, TransitionOwner
      <4>2. /\ state' = "error" /\ call'[i].stage = "failed"
            /\ \A j \in Calls \ {i} : call'[j] = call[j]
        BY <2>9, <3>1, <4>1, ContractTables DEF Fail, ErrorState, TypeOK
      <4>. QED BY <4>1, <4>2, OwnerReleases DEF Settled
    <3>2. CASE call[i].cap \notin Transitional
      BY <2>1, <2>9, <3>2, OwnerKept DEF Fail, TypeOK
    <3>. QED BY <3>1, <3>2
  <2>. QED BY <1>3, <2>2, <2>3, <2>4, <2>5, <2>6, <2>7, <2>8, <2>9 DEF Step
<1>4. ASSUME UNCHANGED vars PROVE TransitionOwner'
  BY <1>4 DEF vars, TransitionOwner, Transiting, InFlight
<1>. QED BY <1>1, <1>2, <1>3, <1>4 DEF Next

\* `loading` and `rendering` have exactly one owner, and it finds the state it
\* entered still in place: the guard and the enter transition, run without an
\* await between them, are all the mutual exclusion the pipeline has.
THEOREM OneTransitionOwner == Spec => []TransitionOwner
<1>1. Init => TransitionOwner
  BY DEF Init, TransitionOwner, Transiting, InFlight, Settled
<1>. QED BY <1>1, TypeInit, TypeStep, OwnerStep, PTL DEF Spec

\* No exit or error transition of an admitted call ever throws.
THEOREM NoTransitionThrows == Spec => []TransitionsNeverThrow
<1>1. TransitionOwner => TransitionsNeverThrow
  BY ContractTables DEF TransitionOwner, TransitionsNeverThrow, Transiting
<1>. QED BY <1>1, OneTransitionOwner, PTL

(***************************************************************************)
(* The re-entrancy stack is bounded.                                       *)
(***************************************************************************)

NoRepeats(s) == \A k, l \in DOMAIN s : s[k] = s[l] => k = l

\* Popping repeats nothing.
LEMMA PopNoRepeats ==
  ASSUME NEW S, NEW s \in Seq(S), NoRepeats(s)
  PROVE  NoRepeats(Pop(s))
<1>1. CASE s = <<>>
  BY <1>1 DEF Pop
<1>2. CASE s # <<>>
  <2>. DEFINE t == SubSeq(s, 1, Len(s) - 1)
  <2>1. Len(s) \in Nat /\ Len(s) - 1 \in Int /\ DOMAIN s = 1 .. Len(s)
    OBVIOUS
  <2>2. \A k \in 1 .. (Len(s) - 1) : s[k] \in S
    BY <2>1
  <2>3. /\ t \in Seq(S)
        /\ \A k \in 1 .. (Len(s) - 1) - 1 + 1 : t[k] = s[1 + k - 1]
        /\ Len(t) = IF 1 <= Len(s) - 1 THEN (Len(s) - 1) - 1 + 1 ELSE 0
    BY <2>1, <2>2, SubSeqProperties
  <2>4. DOMAIN t = 1 .. Len(t) /\ Len(t) <= Len(s) - 1
    BY <1>2, <2>1, <2>3
  <2>5. \A k \in DOMAIN t : k \in DOMAIN s /\ t[k] = s[k]
    BY <2>1, <2>3, <2>4
  <2>. QED BY <1>2, <2>5 DEF Pop, NoRepeats
<1>. QED BY <1>1, <1>2

\* Appending what is not there repeats nothing.
LEMMA AppendNoRepeats ==
  ASSUME NEW S, NEW s \in Seq(S), NEW e \in S, NoRepeats(s),
         \A k \in DOMAIN s : s[k] # e
  PROVE  NoRepeats(Append(s, e))
<1>. DEFINE t == Append(s, e)
<1>1. Len(s) \in Nat /\ DOMAIN s = 1 .. Len(s)
  OBVIOUS
<1>2. /\ t \in Seq(S)
      /\ Len(t) = Len(s) + 1
      /\ \A k \in 1 .. Len(s) : t[k] = s[k]
      /\ t[Len(s) + 1] = e
  BY AppendProperties
<1>. HIDE DEF t
<1>3. DOMAIN t = 1 .. (Len(s) + 1)
  BY <1>2
<1>4. ASSUME NEW k \in DOMAIN t
      PROVE  (k \in DOMAIN s /\ t[k] = s[k]) \/ (k = Len(s) + 1 /\ t[k] = e)
  <2>1. k \in 1 .. Len(s) \/ k = Len(s) + 1
    BY <1>1, <1>3
  <2>. QED BY <1>1, <1>2, <2>1
<1>5. NoRepeats(t)
  BY <1>4 DEF NoRepeats
<1>. QED BY <1>5 DEF t

\* The pairs on the stack are pairs of the platform.
LEMMA StackPairs ==
  ASSUME TypeOK
  PROVE  lifecycleStack \in Seq(PlatformCapabilities \X Phases)
<1>1. Hooked \subseteq PlatformCapabilities \X Phases
  OBVIOUS
<1>2. /\ Len(lifecycleStack) \in Nat
      /\ lifecycleStack \in [1 .. Len(lifecycleStack) -> Hooked]
  BY DEF TypeOK
<1>3. lifecycleStack \in [1 .. Len(lifecycleStack) -> PlatformCapabilities \X Phases]
  BY <1>1, <1>2
<1>. QED BY <1>2, <1>3, SeqDef

\* The same for the steps of the stack: it stays, it is popped, or a pair that
\* is not on it is appended.
LEMMA StackKept ==
  ASSUME TypeOK, StackHasNoRepeats,
         NEW pair \in PlatformCapabilities \X Phases,
         \/ lifecycleStack' = lifecycleStack
         \/ lifecycleStack' = Pop(lifecycleStack)
         \/ /\ \A k \in DOMAIN lifecycleStack : lifecycleStack[k] # pair
            /\ lifecycleStack' = Append(lifecycleStack, pair)
  PROVE  StackHasNoRepeats'
<1>1. NoRepeats(lifecycleStack)
  BY DEF StackHasNoRepeats, NoRepeats
<1>2. NoRepeats(lifecycleStack')
  BY <1>1, StackPairs, PopNoRepeats, AppendNoRepeats
<1>. QED BY <1>2 DEF StackHasNoRepeats, NoRepeats

\* The same for the start of a phase.
LEMMA StartPhaseStack ==
  ASSUME TypeOK, StackHasNoRepeats, NEW i \in Calls,
         NEW c \in PlatformCapabilities, NEW p \in Phases, NEW sk,
         StartPhase(i, c, p, sk)
  PROVE  StackHasNoRepeats'
<1>1. <<c, p>> \in PlatformCapabilities \X Phases
  OBVIOUS
<1>2. CASE OnStack(c, p) \/ <<c, p>> \notin Hooked
  BY <1>1, <1>2, StackKept DEF StartPhase
<1>3. CASE ~(OnStack(c, p) \/ <<c, p>> \notin Hooked)
  <2>1. \A k \in DOMAIN lifecycleStack : lifecycleStack[k] # <<c, p>>
    BY <1>3 DEF OnStack
  <2>2. lifecycleStack' = Append(lifecycleStack, <<c, p>>)
    BY <1>3 DEF StartPhase
  <2>. QED BY <1>1, <2>1, <2>2, StackKept
<1>. QED BY <1>2, <1>3

LEMMA StackStep == TypeOK /\ StackHasNoRepeats /\ [Next]_vars => StackHasNoRepeats'
<1>. SUFFICES ASSUME TypeOK, StackHasNoRepeats, [Next]_vars
              PROVE  StackHasNoRepeats'
  OBVIOUS
<1>p. {"before", "main", "after", "error"} = Phases
  BY DEF Phases
<1>1. ASSUME UNCHANGED lifecycleStack PROVE StackHasNoRepeats'
  BY <1>1 DEF StackHasNoRepeats
<1>2. ASSUME NEW i \in Calls, NEW c \in Capabilities, Call(i, c)
      PROVE  StackHasNoRepeats'
  <2>1. c \in PlatformCapabilities
    OBVIOUS
  <2>. QED BY <1>2, <1>p, <2>1, StartPhaseStack DEF Call
<1>3. ASSUME NEW i \in Calls, NEW c \in Capabilities, Reject(i, c)
      PROVE  StackHasNoRepeats'
  BY <1>1, <1>3 DEF Reject
<1>4. ASSUME NEW i \in Calls, Step(i)
      PROVE  StackHasNoRepeats'
  <2>0. call[i].cap \in PlatformCapabilities
    BY DEF TypeOK, CallRecord
  <2>1. CASE HooksReturn(i)
    <3>1. <<call[i].cap, "main">> \in PlatformCapabilities \X Phases
      BY <2>0, <1>p
    <3>. QED BY <2>1, <3>1, StackKept DEF HooksReturn
  <2>2. CASE MainHookThrows(i)
    BY <2>0, <2>2, <1>p, StartPhaseStack DEF MainHookThrows
  <2>3. CASE AfterBefore(i)
    BY <2>0, <2>3, <1>p, StartPhaseStack DEF AfterBefore
  <2>4. CASE AfterMain(i)
    BY <1>1, <2>4 DEF AfterMain
  <2>5. CASE DoReturns(i)
    BY <2>0, <2>5, <1>p, StartPhaseStack DEF DoReturns
  <2>6. CASE DoThrows(i)
    BY <2>0, <2>6, <1>p, StartPhaseStack DEF DoThrows
  <2>7. CASE Exit(i)
    <3>1. UNCHANGED lifecycleStack
          \/ StartPhase(i, call[i].cap, "error", call[i].skipped)
      BY <2>7 DEF Exit
    <3>. QED BY <1>1, <2>0, <3>1, <1>p, StartPhaseStack
  <2>8. CASE Fail(i)
    BY <1>1, <2>8 DEF Fail
  <2>. QED BY <1>4, <2>1, <2>2, <2>3, <2>4, <2>5, <2>6, <2>7, <2>8 DEF Step
<1>. QED BY <1>1, <1>2, <1>3, <1>4 DEF Next, vars

\* A capability and phase is on the stack at most once, so the stack never
\* outgrows the phases the manifest declares, leaked entries included.
THEOREM StackBounded == Spec => []StackHasNoRepeats
<1>1. Init => StackHasNoRepeats
  BY DEF Init, StackHasNoRepeats
<1>. QED BY <1>1, TypeInit, TypeStep, StackStep, PTL DEF Spec

(***************************************************************************)
(* The pipeline implements the platform contract.                          *)
(*                                                                         *)
(* Admitting a load or a render maps to entering, settling it to leaving,  *)
(* and every other step - hooks, bodies, errors on their way out, the      *)
(* calls that own nothing - to a stutter.                                  *)
(***************************************************************************)
Within == [i \in Calls |-> IF Transiting(i) THEN call[i].cap ELSE "none"]

EnterStep(i) ==
  /\ \A j \in Calls : Within[j] = "none"
  /\ \E c \in {"load", "render"} :
       /\ state \in Contract!Before(c)
       /\ state' = Contract!During(c)
       /\ Within' = [Within EXCEPT ![i] = c]

LeaveStep(i) ==
  /\ Within[i] # "none"
  /\ state = Contract!During(Within[i])
  /\ state' \in {"ready", "error"}
  /\ Within' = [Within EXCEPT ![i] = "none"]

ContractStep ==
  \/ UNCHANGED <<state, Within>>
  \/ \E i \in Calls : EnterStep(i) \/ LeaveStep(i)

\* The contract's tables are those the pipeline consults.
LEMMA ContractTablesAgree ==
  /\ \A c \in Transitional : /\ PreStates(c) = Contract!Before(c)
                             /\ EnterState(c) = Contract!During(c)
  /\ "none" \notin Transitional
BY DEF Transitional, PreStates, EnterState, Contract!Before, Contract!During

\* A step that keeps the state and moves one call without letting it in or out.
LEMMA WithinKept ==
  ASSUME NEW i \in Calls, state' = state,
         \A j \in Calls \ {i} : call'[j] = call[j],
         \/ ~Transiting(i) /\ ~Transiting(i)'
         \/ Transiting(i) /\ Transiting(i)' /\ call'[i].cap = call[i].cap
  PROVE  ContractStep
<1>1. \A j \in Calls \ {i} : Transiting(j)' <=> Transiting(j)
  BY DEF Transiting, InFlight
<1>2. Within' = Within
  BY <1>1 DEF Within
<1>. QED BY <1>2 DEF ContractStep

\* The owner of the lifecycle settles.
LEMMA WithinLeft ==
  ASSUME TransitionOwner, NEW i \in Calls, Transiting(i), ~Transiting(i)',
         \A j \in Calls \ {i} : call'[j] = call[j],
         state' \in {"ready", "error"}
  PROVE  ContractStep
<1>1. \A j \in Calls \ {i} : Transiting(j)' <=> Transiting(j)
  BY DEF Transiting, InFlight
<1>2. Within[i] = call[i].cap /\ call[i].cap \in Transitional
  BY DEF Within, Transiting
<1>3. state = Contract!During(Within[i])
  BY <1>2, ContractTablesAgree DEF TransitionOwner
<1>4. Within' = [Within EXCEPT ![i] = "none"]
  BY <1>1 DEF Within
<1>. QED BY <1>2, <1>3, <1>4, ContractTablesAgree DEF ContractStep, LeaveStep

\* A load or a render is admitted.
LEMMA WithinEntered ==
  ASSUME TypeOK, TransitionOwner, NEW i \in Calls, NEW c \in Transitional,
         Call(i, c)
  PROVE  ContractStep
<1>1. c \in PlatformCapabilities /\ "before" \in Phases \ Settled
  BY DEF Transitional, PlatformCapabilities, Phases, Settled
<1>2. /\ call'[i].cap = c /\ call'[i].stage = "before"
      /\ \A j \in Calls \ {i} : call'[j] = call[j]
  BY <1>1, StartPhaseEffect DEF Call
<1>3. state \in PreStates(c) /\ state' = EnterState(c)
  BY DEF Call, Admitted
<1>4. \A j \in Calls : ~Transiting(j)
  BY <1>3, ContractTables DEF TransitionOwner, Transiting, EnterState, Transitional
<1>5. /\ Transiting(i)'
      /\ \A j \in Calls \ {i} : ~Transiting(j)'
  BY <1>1, <1>2, <1>4 DEF Transiting, InFlight
<1>6. Within' = [Within EXCEPT ![i] = c]
  BY <1>2, <1>4, <1>5 DEF Within
<1>7. \A j \in Calls : Within[j] = "none"
  BY <1>4 DEF Within
<1>. QED
  BY <1>3, <1>6, <1>7, ContractTablesAgree DEF ContractStep, EnterStep, Transitional

\* Every step of the pipeline is a step of the contract, or none.
LEMMA PipelineContract ==
  ASSUME TypeOK, TransitionOwner, [Next]_vars
  PROVE  ContractStep
<1>p. /\ {"before", "main", "after", "error"} = Phases
      /\ Phases \cap Settled = {}
      /\ "do" \notin Settled
      /\ {"ok", "failed", "rejected"} \subseteq Settled
  BY DEF Phases, Settled
<1>1. ASSUME NEW i \in Calls, NEW c \in Capabilities, Call(i, c)
      PROVE  ContractStep
  <2>1. CASE c \in Transitional
    BY <1>1, <2>1, WithinEntered
  <2>2. CASE c \notin Transitional
    <3>1. /\ call'[i].cap = c
          /\ \A j \in Calls \ {i} : call'[j] = call[j]
      BY <1>1, <1>p, StartPhaseEffect DEF Call
    <3>2. ~Transiting(i) /\ ~Transiting(i)' /\ state' = state
      BY <1>1, <2>2, <3>1 DEF Call, Transiting
    <3>. QED BY <3>1, <3>2, WithinKept
  <2>. QED BY <2>1, <2>2
<1>2. ASSUME NEW i \in Calls, NEW c \in Capabilities, Reject(i, c)
      PROVE  ContractStep
  <2>1. /\ call'[i].stage = "rejected" /\ state' = state
        /\ \A j \in Calls \ {i} : call'[j] = call[j]
    BY <1>2 DEF Reject, TypeOK
  <2>2. ~Transiting(i) /\ ~Transiting(i)'
    BY <1>2, <1>p, <2>1 DEF Reject, Transiting, InFlight
  <2>. QED BY <2>1, <2>2, WithinKept
<1>3. ASSUME NEW i \in Calls, Step(i)
      PROVE  ContractStep
  <2>0. call[i].cap \in PlatformCapabilities
    BY DEF TypeOK, CallRecord
  <2>1. InFlight(i)
    BY <1>3, <1>p DEF Step, InFlight, HooksReturn, MainHookThrows, AfterBefore,
                      AfterMain, DoReturns, DoThrows, Exit, Fail
  <2>2. ASSUME state' = state, call'[i].cap = call[i].cap,
               call'[i].stage \in Phases \cup {"do"},
               \A j \in Calls \ {i} : call'[j] = call[j]
        PROVE  ContractStep
    <3>1. Transiting(i) <=> Transiting(i)'
      BY <1>p, <2>1, <2>2 DEF Transiting, InFlight
    <3>. QED BY <2>2, <3>1, WithinKept
  <2>3. ASSUME NEW p \in Phases, NEW sk, StartPhase(i, call[i].cap, p, sk),
               state' = state
        PROVE  ContractStep
    BY <2>0, <2>2, <2>3, StartPhaseEffect
  <2>4. CASE HooksReturn(i)
    BY <2>2, <2>4 DEF HooksReturn, TypeOK
  <2>5. CASE MainHookThrows(i) \/ AfterBefore(i) \/ DoReturns(i) \/ DoThrows(i)
    BY <1>p, <2>3, <2>5 DEF MainHookThrows, AfterBefore, DoReturns, DoThrows
  <2>6. CASE AfterMain(i)
    BY <2>2, <2>6 DEF AfterMain, TypeOK
  <2>7. CASE (Exit(i) \/ Fail(i)) /\ call[i].cap \in Transitional
    <3>1. Transiting(i) /\ state = EnterState(call[i].cap)
      BY <2>1, <2>7 DEF Transiting, TransitionOwner
    <3>2. ExitState(call[i].cap) \in Transitions(state)
          /\ ErrorState(call[i].cap) \in Transitions(state)
      BY <2>7, <3>1, ContractTables
    <3>3. /\ state' \in {"ready", "error"}
          /\ \/ call' = [call EXCEPT ![i].stage = "ok"]
             \/ call' = [call EXCEPT ![i].stage = "failed"]
      BY <2>7, <3>2 DEF Exit, Fail, ExitState, ErrorState
    <3>4. /\ call'[i].stage \in Settled
          /\ \A j \in Calls \ {i} : call'[j] = call[j]
      BY <1>p, <3>3 DEF TypeOK, CallRecord
    <3>5. ~Transiting(i)'
      BY <3>4 DEF Transiting, InFlight
    <3>. QED BY <3>1, <3>3, <3>4, <3>5, WithinLeft
  <2>8. CASE (Exit(i) \/ Fail(i)) /\ call[i].cap \notin Transitional
    <3>1. /\ state' = state
          /\ \/ call' = [call EXCEPT ![i].stage = "ok"]
             \/ call' = [call EXCEPT ![i].stage = "failed"]
      BY <2>8 DEF Exit, Fail
    <3>2. /\ call'[i].cap = call[i].cap
          /\ \A j \in Calls \ {i} : call'[j] = call[j]
      BY <3>1 DEF TypeOK, CallRecord
    <3>3. ~Transiting(i) /\ ~Transiting(i)'
      BY <2>8, <3>2 DEF Transiting
    <3>. QED BY <3>1, <3>2, <3>3, WithinKept
  <2>. QED BY <1>3, <2>4, <2>5, <2>6, <2>7, <2>8 DEF Step
<1>4. ASSUME UNCHANGED vars PROVE ContractStep
  BY <1>4 DEF vars, ContractStep, Within, Transiting, InFlight
<1>. QED BY <1>1, <1>2, <1>3, <1>4 DEF Next

\* What the contract sees is a step of its own, or none.
LEMMA ContractNext == ContractStep => [Contract!Next]_(Contract!vars)
BY DEF ContractStep, EnterStep, LeaveStep, Within, Contract!Next, Contract!vars,
       Contract!Enter, Contract!Leave

\* The pipeline implements the platform contract, for any number of concurrent
\* calls, any capabilities in use and any hooks, leaked stack entries included:
\* the lifecycle state moves only when a load or render enters alone in a state
\* that admits it, or when the one inside leaves it ready or in error.
THEOREM PipelineImplementsContract == Spec => ImplementsContract
<1>1. Init => TypeOK /\ TransitionOwner
  BY TypeInit DEF Init, TransitionOwner, Transiting, InFlight, Settled
<1>2. TypeOK /\ TransitionOwner /\ [Next]_vars => TypeOK' /\ TransitionOwner'
  BY TypeStep, OwnerStep
<1>3. Init => Contract!Init
  BY DEF Init, Contract!Init, Transiting, InFlight, Settled
<1>4. TypeOK /\ TransitionOwner /\ [Next]_vars => [Contract!Next]_(Contract!vars)
  BY PipelineContract, ContractNext
<1>. QED
  BY <1>1, <1>2, <1>3, <1>4, PTL DEF Spec, ImplementsContract, Contract!Spec

=============================================================================
