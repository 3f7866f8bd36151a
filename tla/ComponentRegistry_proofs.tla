---------------------- MODULE ComponentRegistry_proofs ----------------------
(***************************************************************************)
(* Theorems about ComponentRegistry for any MFEs, slots, routes, ids,      *)
(* overlapping evaluations and number of registrations.                    *)
(***************************************************************************)
EXTENDS ComponentRegistry, SequenceTheorems, TLAPS

(***************************************************************************)
(* Refused registrations.  Registration numbers only grow, and neither a   *)
(* rule nor a refusal names one that is still to come: a rule installed by *)
(* the next registration cannot be among the refused ones.                 *)
(***************************************************************************)
RefusedInv ==
  /\ registrations \in Nat
  /\ DOMAIN rules = RuleNames
  /\ \A n \in RuleNames : rules[n].registration \in 0 .. registrations
  /\ refused \subseteq 1 .. registrations
  /\ RefusedNeverPlaced

\* Every rule starts as a default or as a free name, of registration 0.
LEMMA InitRefused == Init => RefusedInv
BY DEF Init, RefusedInv, RefusedNeverPlaced, DefaultRule, FreeRule

\* Whatever leaves the registrations alone keeps the invariant.
LEMMA UnchangedRefused ==
  RefusedInv /\ UNCHANGED <<rules, registrations, refused>> => RefusedInv'
BY DEF RefusedInv, RefusedNeverPlaced

\* A registration is refused, and installs nothing, or is installed, and is
\* not refused; either way its number is fresh.
LEMMA RegisterRefused ==
  ASSUME RefusedInv,
         NEW m \in Mfes, NEW slots, NEW rs \in RouteLists,
         RegisterMfe(m, slots, rs)
  PROVE  RefusedInv'
<1> DEFINE n == registrations + 1
<1>1. registrations' = n /\ registrations \in Nat /\ n \notin refused
  BY DEF RegisterMfe, RefusedInv
<1>2. CASE Refuse(m, rs, n)
  <2>1. rules' = rules /\ refused' = refused \cup {n}
    BY <1>2 DEF Refuse
  <2> QED
    BY <1>1, <2>1 DEF RefusedInv, RefusedNeverPlaced
<1>3. CASE Install(m, rs, n) /\ UNCHANGED refused
  <2>1. DOMAIN rules' = RuleNames
    BY <1>3 DEF Install
  <2>2. ASSUME NEW name \in RuleNames
        PROVE  rules'[name].registration \in {n, rules[name].registration}
    BY <1>3 DEF Install, RuleOf
  <2>3. ASSUME NEW name \in RuleNames
        PROVE  /\ rules'[name].registration \in 0 .. n
               /\ rules'[name].registration \notin refused'
    BY <1>1, <1>3, <2>2 DEF RefusedInv, RefusedNeverPlaced
  <2> QED
    BY <1>1, <1>3, <2>1, <2>3 DEF RefusedInv, RefusedNeverPlaced
<1> QED
  BY <1>2, <1>3 DEF RegisterMfe

LEMMA NextRefused == RefusedInv /\ [Next]_vars => RefusedInv'
<1> SUFFICES ASSUME RefusedInv, [Next]_vars
             PROVE  RefusedInv'
  OBVIOUS
<1>1. CASE \E m \in Mfes, slots \in {Undeclared} \cup SUBSET LocalSlots,
             rs \in RouteLists : RegisterMfe(m, slots, rs)
  BY <1>1, RegisterRefused
<1>2. ASSUME NEW id \in Ids,
             \/ Expire(id)
             \/ \E type \in {"CARD", "FORM"} :
                  RenderComponent(id, type) \/ UpdateComponentState(id, type)
      PROVE  RefusedInv'
  BY <1>2, UnchangedRefused
  DEF Expire, RenderComponent, UpdateComponentState, registrationVars
<1>3. ASSUME NEW k \in Evaluations,
             \/ Evaluate(k)
             \/ \E comp \in ComponentTypes \cup {None}, action \in Action :
                  HandleAction(k, comp, action)
      PROVE  RefusedInv'
  BY <1>3, UnchangedRefused
  DEF Evaluate, FireNext, EndEvaluation, HandleAction, registrationVars
<1>4. CASE UNCHANGED vars
  BY <1>4, UnchangedRefused DEF vars, registrationVars
<1> QED
  BY <1>1, <1>2, <1>3, <1>4 DEF Next

\* ADR-067: a placement that was refused never becomes a rule, however often
\* its MFE registers before and after.
THEOREM NothingRefusedIsPlaced == Spec => []RefusedNeverPlaced
<1>1. RefusedInv => RefusedNeverPlaced
  BY DEF RefusedInv
<1> QED
  BY InitRefused, NextRefused, <1>1, PTL DEF Spec

-----------------------------------------------------------------------------
(***************************************************************************)
(* Types.                                                                  *)
(***************************************************************************)
EvaluationType ==
  [at: {"idle", "running", "done"}, comp: ComponentTypes, action: Action,
   next: Nat, fired: Seq(RuleNames), due: SUBSET RuleNames]

RuleTypes ==
  /\ rules \in [RuleNames -> Rule] /\ order \in Seq(RuleNames)
  /\ evaluation \in [Evaluations -> EvaluationType]

LEMMA NamesTyped ==
  /\ 1 \in 1 .. MaxRoutes /\ 2 \in 1 .. MaxRoutes
  /\ \A m \in Mfes : <<m, 1>> \in RuleNames /\ <<m, 2>> \in RuleNames
BY DEF RuleNames, MaxRoutes

LEMMA InitTyped == Init => TypeOK
<1> SUFFICES ASSUME Init PROVE TypeOK
  OBVIOUS
<1>1. HostAddress \in Address /\ FreeRule \in Rule
      /\ DefaultRule("CARD", "CLICK", "NOTIFICATION") \in Rule
      /\ DefaultRule("FORM", "SUBMIT", "CARD") \in Rule
  BY DEF HostAddress, Address, FreeRule, DefaultRule, Rule, When, ComponentTypes, ActionTypes
<1>2. rules \in [RuleNames -> Rule]
  BY <1>1 DEF Init
<1>3. CardClick \in RuleNames /\ FormSubmit \in RuleNames
  BY DEF CardClick, FormSubmit, RuleNames, MaxRoutes
<1>4. order \in Seq(RuleNames)
  BY <1>3 DEF Init
<1>5. NoEvaluation \in EvaluationType
  BY DEF NoEvaluation, EvaluationType, ComponentTypes, Action, ActionTypes
<1> QED
  BY <1>2, <1>4, <1>5, BoundsAssumption DEF Init, TypeOK, EvaluationType

\* The names of a registration go to the end of the order, each of them once.
NoRepeats(s) == \A i, j \in 1 .. Len(s) : s[i] = s[j] => i = j

Grown(s, t) ==
  /\ t \in Seq(RuleNames) /\ Len(s) \in Nat /\ Len(t) \in Nat /\ Len(s) <= Len(t)
  /\ \A i \in 1 .. Len(s) : t[i] = s[i]

\* t holds the names of s, and x at most.
Adds(s, t, x) == \A j \in 1 .. Len(t) : t[j] = x \/ \E k \in 1 .. Len(s) : t[j] = s[k]

LEMMA AddName ==
  ASSUME NEW s \in Seq(RuleNames), NEW x \in RuleNames, NEW t,
         t = s \/ (t = Append(s, x) /\ \A j \in 1 .. Len(s) : s[j] # x)
  PROVE  /\ Grown(s, t)
         /\ Adds(s, t, x)
         /\ NoRepeats(s) => NoRepeats(t)
<1>1. CASE t = s
  BY <1>1 DEF Grown, Adds
<1>2. CASE t = Append(s, x) /\ \A j \in 1 .. Len(s) : s[j] # x
  <2>1. /\ t \in Seq(RuleNames) /\ Len(s) \in Nat /\ Len(t) = Len(s) + 1
        /\ \A j \in 1 .. Len(s) : t[j] = s[j]
        /\ t[Len(t)] = x
    BY <1>2
  <2>2. \A j \in 1 .. Len(t) : j \in 1 .. Len(s) \/ j = Len(t)
    BY <2>1
  <2>3. Grown(s, t)
    BY <2>1 DEF Grown
  <2>4. ASSUME NoRepeats(s), NEW j \in 1 .. Len(t), NEW k \in 1 .. Len(t), t[j] = t[k]
        PROVE  j = k
    BY <1>2, <2>1, <2>2, <2>4 DEF NoRepeats
  <2>5. Adds(s, t, x)
    BY <2>1, <2>2 DEF Adds
  <2> QED BY <2>3, <2>4, <2>5 DEF NoRepeats
<1> QED BY <1>1, <1>2

LEMMA NewNameAdds ==
  ASSUME NEW s \in Seq(RuleNames), NEW m \in Mfes, NEW i \in 1 .. MaxRoutes, NEW new \in BOOLEAN
  PROVE  s \o NewName(m, i, new) = IF new THEN Append(s, <<m, i>>) ELSE s
<1>1. <<m, i>> \in RuleNames
  BY DEF RuleNames
<1>2. s \o <<>> = s
  BY ConcatEmptySeq
<1>3. s \o <<<<m, i>>>> = Append(s, <<m, i>>)
  BY <1>1
<1> QED BY <1>2, <1>3 DEF NewName

LEMMA OrderGrows ==
  ASSUME order \in Seq(RuleNames), NEW m \in Mfes, NEW rs, order' = order \o NewNames(m, rs)
  PROVE  Grown(order, order') /\ (NoRepeats(order) => NoRepeats(order'))
<1> DEFINE new1 == 1 \in Installed(rs) /\ ~Registered(<<m, 1>>)
           new2 == 2 \in Installed(rs) /\ ~Registered(<<m, 2>>)
           n1 == NewName(m, 1, new1)
           n2 == NewName(m, 2, new2)
           mid == IF new1 THEN Append(order, <<m, 1>>) ELSE order
<1>1. n1 \in Seq(RuleNames) /\ n2 \in Seq(RuleNames)
  BY NamesTyped DEF NewName
<1>2. new1 \in BOOLEAN /\ new2 \in BOOLEAN
  OBVIOUS
<1>3. order' = (order \o n1) \o n2
  <2>1. order' = order \o (n1 \o n2)
    BY DEF NewNames
  <2> HIDE DEF n1, n2
  <2> QED BY <1>1, <2>1, ConcatAssociative
<1>4. /\ new1 => \A j \in 1 .. Len(order) : order[j] # <<m, 1>>
      /\ new2 => \A j \in 1 .. Len(order) : order[j] # <<m, 2>>
  <2>1. DOMAIN order = 1 .. Len(order)
    OBVIOUS
  <2> QED BY <2>1 DEF Registered, Elems
<1> HIDE DEF new1, new2
<1>5. mid = order \o n1
  BY <1>2, NamesTyped, NewNameAdds
<1>6. \/ mid = order
      \/ mid = Append(order, <<m, 1>>) /\ \A j \in 1 .. Len(order) : order[j] # <<m, 1>>
  BY <1>4
<1> HIDE DEF mid
<1>7. /\ Grown(order, mid) /\ (NoRepeats(order) => NoRepeats(mid))
      /\ Adds(order, mid, <<m, 1>>)
  BY <1>6, NamesTyped, AddName
<1>8. mid \in Seq(RuleNames)
  BY <1>7 DEF Grown
<1>9. order' = IF new2 THEN Append(mid, <<m, 2>>) ELSE mid
  <2>1. order' = mid \o n2
    BY <1>3, <1>5
  <2>2. 2 \in 1 .. MaxRoutes
    BY NamesTyped
  <2> QED BY <1>2, <1>8, <2>1, <2>2, NewNameAdds
<1>10. new2 => \A j \in 1 .. Len(mid) : mid[j] # <<m, 2>>
  <2>1. <<m, 1>> # <<m, 2>>
    OBVIOUS
  <2> QED BY <1>4, <1>7, <2>1 DEF Adds
<1>11. Grown(mid, order') /\ (NoRepeats(mid) => NoRepeats(order'))
  BY <1>8, <1>9, <1>10, NamesTyped, AddName
<1>12. Grown(order, order')
  BY <1>7, <1>11 DEF Grown
<1> QED BY <1>7, <1>11, <1>12

LEMMA InstallTyped ==
  ASSUME RuleTypes, NEW m \in Mfes, NEW rs \in RouteLists, NEW n \in Nat, Install(m, rs, n)
  PROVE  RuleTypes'
<1>1. rs \in Seq(Route)
  BY RoutesAssumption
<1>2. \A i \in Installed(rs) : RuleOf(rs[i], n) \in Rule
  <2> SUFFICES ASSUME NEW i \in Installed(rs) PROVE RuleOf(rs[i], n) \in Rule
    OBVIOUS
  <2>1. rs[i] \in Route
    BY <1>1 DEF Installed
  <2> QED BY <2>1 DEF RuleOf, Rule, Route, ComponentTypes
<1>3. rules' \in [RuleNames -> Rule]
  <2>1. \A name \in RuleNames : \A i : name = <<m, i>> => name[2] = i
    OBVIOUS
  <2>2. \A name \in RuleNames : rules[name] \in Rule
    BY DEF RuleTypes
  <2> QED BY <1>2, <2>1, <2>2 DEF Install
<1>4. order' \in Seq(RuleNames)
  BY OrderGrows DEF Install, RuleTypes, Grown
<1>5. evaluation' \in [Evaluations -> EvaluationType]
  <2> DEFINE gone == {<<m, i>> : i \in Installed(rs)}
  <2>1. evaluation' = [k \in Evaluations |-> [evaluation[k] EXCEPT !.due = @ \ gone]]
    BY DEF Install
  <2> HIDE DEF gone
  <2>2. \A k \in Evaluations : [evaluation[k] EXCEPT !.due = @ \ gone] \in EvaluationType
    BY DEF RuleTypes, EvaluationType
  <2> QED BY <2>1, <2>2
<1> QED BY <1>3, <1>4, <1>5 DEF RuleTypes

LEMMA StoreTyped ==
  ASSUME TypeOK, NEW id \in Ids, NEW type \in ComponentTypes, Store(id, type)
  PROVE  /\ components' \in [Ids -> ComponentTypes \cup {None}]
         /\ timers' \in SUBSET Ids /\ minted' \in SUBSET Ids
BY DEF TypeOK, Store

LEMMA RegisterTyped ==
  ASSUME TypeOK, NEW m \in Mfes, NEW slots \in {Undeclared} \cup SUBSET LocalSlots,
         NEW rs \in RouteLists, RegisterMfe(m, slots, rs)
  PROVE  TypeOK'
<1> DEFINE n == registrations + 1
<1>1. n \in Nat /\ n \in 1 .. MaxRegistrations /\ n \in 0 .. MaxRegistrations
  BY BoundsAssumption DEF RegisterMfe, TypeOK
<1>2. /\ mfes' = [mfes EXCEPT ![m] = n] /\ registrations' = n
      /\ providedSlots' \in {providedSlots, [providedSlots EXCEPT ![m] = slots]}
      /\ declaredIn' \in {declaredIn, [declaredIn EXCEPT ![m] = n]}
      /\ UNCHANGED componentVars
  BY DEF RegisterMfe, TypeOK
<1>3. Refuse(m, rs, n) \/ (Install(m, rs, n) /\ UNCHANGED refused)
  BY DEF RegisterMfe
<1>4. RuleTypes
  BY DEF TypeOK, RuleTypes, EvaluationType
<1> HIDE DEF n
<1>5. RuleTypes' /\ refused' \in SUBSET (1 .. MaxRegistrations)
  <2>1. CASE Refuse(m, rs, n)
    BY <1>1, <1>4, <2>1 DEF Refuse, RuleTypes, TypeOK
  <2>2. CASE Install(m, rs, n) /\ UNCHANGED refused
    BY <1>1, <1>4, <2>2, InstallTyped DEF TypeOK
  <2> QED BY <1>3, <2>1, <2>2
<1>6. providedSlots' \in [Mfes -> {Undeclared} \cup SUBSET LocalSlots]
      /\ mfes' \in [Mfes -> 0 .. MaxRegistrations]
      /\ declaredIn' \in [Mfes -> 0 .. MaxRegistrations]
  BY <1>1, <1>2 DEF TypeOK
<1> QED
  BY <1>1, <1>2, <1>5, <1>6 DEF TypeOK, RuleTypes, EvaluationType, componentVars

LEMMA FireTyped ==
  ASSUME TypeOK, NEW k \in Evaluations, NEW i \in 1 .. Len(order), NEW id \in Ids,
         FireNext(k, i, id)
  PROVE  TypeOK'
<1>1. order[i] \in RuleNames /\ i \in Nat
  BY DEF TypeOK
<1>2. rules[order[i]].makes \in ComponentTypes
  BY <1>1 DEF TypeOK, Rule
<1>3. evaluation' \in [Evaluations -> EvaluationType]
  <2> DEFINE f == Append(evaluation[k].fired, order[i])
             n == i + 1
             e == [evaluation[k] EXCEPT !.next = n, !.fired = f]
  <2>1. evaluation[k] \in EvaluationType
    BY DEF TypeOK, EvaluationType
  <2>2. f \in Seq(RuleNames) /\ n \in Nat
    BY <1>1, <2>1 DEF EvaluationType
  <2>3. e \in EvaluationType
    <3> HIDE DEF f, n
    <3> QED BY <2>1, <2>2 DEF EvaluationType
  <2>4. evaluation' = [evaluation EXCEPT ![k] = e]
    BY DEF FireNext, TypeOK
  <2> HIDE DEF e
  <2> QED BY <2>3, <2>4 DEF TypeOK, EvaluationType
<1>4. UNCHANGED registrationVars /\ Store(id, rules[order[i]].makes)
  BY DEF FireNext
<1> QED BY <1>2, <1>3, <1>4, StoreTyped DEF TypeOK, EvaluationType, registrationVars

LEMMA HandleActionTyped ==
  ASSUME TypeOK, NEW k \in Evaluations, NEW comp \in ComponentTypes \cup {None},
         NEW action \in Action, HandleAction(k, comp, action)
  PROVE  TypeOK'
<1> DEFINE e == [at |-> "running", comp |-> comp, action |-> action, next |-> 1, fired |-> <<>>,
                 due |-> {n \in Elems(order) : Fires(rules[n], comp, action)}]
<1>1. Elems(order) \subseteq RuleNames /\ comp \in ComponentTypes
  BY DEF TypeOK, Elems, HandleAction
<1>2. e \in EvaluationType
  BY <1>1 DEF EvaluationType
<1>3. evaluation' = [evaluation EXCEPT ![k] = e]
  BY DEF HandleAction
<1> HIDE DEF e
<1> QED
  BY <1>2, <1>3 DEF HandleAction, TypeOK, EvaluationType, registrationVars, componentVars

LEMMA NextTyped == TypeOK /\ [Next]_vars => TypeOK'
<1> SUFFICES ASSUME TypeOK, [Next]_vars PROVE TypeOK'
  OBVIOUS
<1>1. ASSUME NEW id \in Ids, Expire(id) PROVE TypeOK'
  BY <1>1 DEF Expire, TypeOK, registrationVars
<1>2. ASSUME NEW id \in Ids, NEW type \in {"CARD", "FORM"}, RenderComponent(id, type) PROVE TypeOK'
  <2>1. type \in ComponentTypes
    BY DEF ComponentTypes
  <2> QED BY <1>2, <2>1, StoreTyped DEF RenderComponent, TypeOK, registrationVars
<1>3. ASSUME NEW id \in Ids, NEW type \in {"CARD", "FORM"}, UpdateComponentState(id, type)
      PROVE  TypeOK'
  BY <1>3 DEF UpdateComponentState, TypeOK, registrationVars, ComponentTypes
<1>4. ASSUME NEW k \in Evaluations, EndEvaluation(k) PROVE TypeOK'
  <2>1. [evaluation[k] EXCEPT !.at = "done"] \in EvaluationType
    BY DEF TypeOK, EvaluationType
  <2>2. evaluation' = [evaluation EXCEPT ![k] = [evaluation[k] EXCEPT !.at = "done"]]
    BY <1>4 DEF EndEvaluation, TypeOK
  <2>3. evaluation' \in [Evaluations -> EvaluationType]
    BY <2>1, <2>2 DEF TypeOK, EvaluationType
  <2> QED
    BY <1>4, <2>3 DEF EndEvaluation, TypeOK, EvaluationType, registrationVars, componentVars
<1>5. CASE UNCHANGED vars
  BY <1>5 DEF vars, registrationVars, componentVars, TypeOK
<1> QED
  BY <1>1, <1>2, <1>3, <1>4, <1>5, RegisterTyped, FireTyped, HandleActionTyped DEF Next, Evaluate

\* The types of the registrations, the rules, the store and the evaluations.
THEOREM RegistryTypesHold == Spec => []TypeOK
BY InitTyped, NextTyped, PTL DEF Spec

-----------------------------------------------------------------------------
(***************************************************************************)
(* Evaluations.  Rules are only ever added at the end of the order and     *)
(* keep their place, so what an evaluation fired lies behind it, and what  *)
(* was due and has not been registered again lies behind it, fired, or is  *)
(* still ahead.                                                            *)
(***************************************************************************)
Behind(e, ord) ==
  /\ e.next \in 1 .. Len(ord) + 1
  /\ NoRepeats(e.fired)
  /\ \A i \in 1 .. Len(e.fired) : \E j \in 1 .. e.next - 1 : e.fired[i] = ord[j]

Was(e, n) == \E i \in 1 .. Len(e.fired) : e.fired[i] = n

Ahead(e, n, ord, by) ==
  \E j \in e.next .. Len(ord) : ord[j] = n /\ Fires(by[n], e.comp, e.action)

Reached(e, ord, by) ==
  /\ e.at # "idle" => \A n \in e.due : Was(e, n) \/ Ahead(e, n, ord, by)
  /\ e.at = "done" => \A n \in e.due : Was(e, n)

RunInv ==
  /\ NoRepeats(order)
  /\ \A k \in Evaluations :
       Behind(evaluation[k], order) /\ Reached(evaluation[k], order, rules)

LEMMA InitRun == Init => RunInv
<1> SUFFICES ASSUME Init PROVE RunInv
  OBVIOUS
<1>1. order = <<CardClick, FormSubmit>> /\ CardClick # FormSubmit
  BY DEF Init, CardClick, FormSubmit
<1>2. NoRepeats(order) /\ Len(order) = 2
  BY <1>1 DEF NoRepeats
<1>3. Behind(NoEvaluation, order) /\ Reached(NoEvaluation, order, rules)
  BY <1>2 DEF NoEvaluation, Behind, Reached, NoRepeats
<1> QED BY <1>2, <1>3 DEF Init, RunInv

\* A registration that changes no rule that is due, or appends to the order.
LEMMA InstallRun ==
  ASSUME TypeOK, RunInv, NEW m \in Mfes, NEW rs \in RouteLists, NEW n, Install(m, rs, n)
  PROVE  RunInv'
<1> DEFINE gone == {<<m, i>> : i \in Installed(rs)}
<1>1. /\ Grown(order, order') /\ NoRepeats(order') /\ order \in Seq(RuleNames)
  BY OrderGrows DEF Install, RunInv, TypeOK
<1>2. \A name \in RuleNames : name \notin gone => rules'[name] = rules[name]
  BY DEF Install
<1>3. ASSUME NEW k \in Evaluations
      PROVE  /\ evaluation'[k].at = evaluation[k].at /\ evaluation'[k].next = evaluation[k].next
             /\ evaluation'[k].fired = evaluation[k].fired
             /\ evaluation'[k].comp = evaluation[k].comp
             /\ evaluation'[k].action = evaluation[k].action
             /\ evaluation'[k].due = evaluation[k].due \ gone
             /\ evaluation[k].due \in SUBSET RuleNames /\ evaluation[k].next \in Nat
  <2>1. evaluation'[k] = [evaluation[k] EXCEPT !.due = @ \ gone]
    BY DEF Install
  <2>2. evaluation[k] \in EvaluationType
    BY DEF TypeOK, EvaluationType
  <2> HIDE DEF gone
  <2> QED BY <2>1, <2>2 DEF EvaluationType
<1> HIDE DEF gone
<1>4. ASSUME NEW k \in Evaluations PROVE Behind(evaluation'[k], order')
  <2>1. Behind(evaluation[k], order)
    BY DEF RunInv
  <2>2. \A j \in 1 .. evaluation[k].next - 1 : order'[j] = order[j]
    BY <1>1, <1>3, <2>1 DEF Behind, Grown
  <2>3. evaluation[k].next \in 1 .. Len(order') + 1
    BY <1>1, <2>1 DEF Behind, Grown
  <2>4. \A i \in 1 .. Len(evaluation[k].fired) :
          \E j \in 1 .. evaluation[k].next - 1 : evaluation[k].fired[i] = order'[j]
    BY <2>1, <2>2 DEF Behind
  <2>5. NoRepeats(evaluation[k].fired)
    BY <2>1 DEF Behind
  <2>6. evaluation'[k].next = evaluation[k].next /\ evaluation'[k].fired = evaluation[k].fired
    BY <1>3
  <2> QED BY <2>3, <2>4, <2>5, <2>6 DEF Behind
<1>5. ASSUME NEW k \in Evaluations PROVE Reached(evaluation'[k], order', rules')
  <2>1. Reached(evaluation[k], order, rules)
    BY DEF RunInv
  <2>2. \A x : Was(evaluation[k], x) => Was(evaluation'[k], x)
    BY <1>3 DEF Was
  <2>3. ASSUME NEW x \in RuleNames, x \notin gone, Ahead(evaluation[k], x, order, rules)
        PROVE  Ahead(evaluation'[k], x, order', rules')
    <3>1. PICK j \in evaluation[k].next .. Len(order) :
            order[j] = x /\ Fires(rules[x], evaluation[k].comp, evaluation[k].action)
      BY <2>3 DEF Ahead
    <3>2. j \in 1 .. Len(order) /\ j \in evaluation[k].next .. Len(order')
      <4>1. evaluation[k].next \in 1 .. Len(order) + 1
        BY DEF RunInv, Behind
      <4> QED BY <1>1, <3>1, <4>1 DEF Grown
    <3>3. order'[j] = x /\ rules'[x] = rules[x]
      BY <1>1, <1>2, <2>3, <3>1, <3>2 DEF Grown
    <3> QED BY <1>3, <3>1, <3>2, <3>3 DEF Ahead
  <2> QED BY <1>3, <2>1, <2>2, <2>3 DEF Reached
<1> QED BY <1>1, <1>4, <1>5 DEF RunInv

\* The rule that fires is the first one ahead that is due.
LEMMA FireRun ==
  ASSUME TypeOK, RunInv, NEW k \in Evaluations, NEW i \in 1 .. Len(order), NEW id \in Ids,
         FireNext(k, i, id)
  PROVE  RunInv'
<1> DEFINE e == evaluation[k]
           d == evaluation'[k]
           len == Len(e.fired)
<1>1. /\ e \in EvaluationType /\ Behind(e, order) /\ Reached(e, order, rules) /\ e.at = "running"
      /\ i \in e.next .. Len(order) /\ \A j \in e.next .. i - 1 : ~Due(k, j)
      /\ order \in Seq(RuleNames) /\ Len(order) \in Nat /\ NoRepeats(order)
  BY DEF TypeOK, EvaluationType, RunInv, FireNext, Due
<1>2. /\ d.at = e.at /\ d.comp = e.comp /\ d.action = e.action /\ d.due = e.due
      /\ d.next = i + 1 /\ d.fired = Append(e.fired, order[i])
      /\ \A q \in Evaluations \ {k} : evaluation'[q] = evaluation[q]
  BY <1>1 DEF FireNext, TypeOK, EvaluationType
<1>3. UNCHANGED <<order, rules>>
  BY DEF FireNext, registrationVars
<1>4. /\ len \in Nat /\ Len(d.fired) = len + 1 /\ d.fired[len + 1] = order[i]
      /\ \A j \in 1 .. len : d.fired[j] = e.fired[j]
  <2>1. e.fired \in Seq(RuleNames) /\ order[i] \in RuleNames
    BY <1>1 DEF EvaluationType
  <2> HIDE DEF e, d
  <2> QED BY <1>2, <2>1
<1>5. e.next \in Nat /\ e.next <= i /\ i \in Nat /\ i <= Len(order)
  BY <1>1 DEF EvaluationType
<1> HIDE DEF e, d, len
<1>6. \A j \in 1 .. len + 1 : j \in 1 .. len \/ j = len + 1
  BY <1>4
<1>7. \A j \in 1 .. len : e.fired[j] # order[i]
  <2> SUFFICES ASSUME NEW j \in 1 .. len, e.fired[j] = order[i] PROVE FALSE
    OBVIOUS
  <2>1. PICK h \in 1 .. e.next - 1 : e.fired[j] = order[h]
    BY <1>1 DEF Behind, len
  <2>2. h \in 1 .. Len(order) /\ h # i
    BY <1>1, <1>5, <2>1
  <2> QED BY <1>1, <2>1, <2>2 DEF NoRepeats
<1>8. Behind(d, order)
  <2>1. NoRepeats(d.fired)
    <3>1. NoRepeats(e.fired)
      BY <1>1 DEF Behind
    <3>2. ASSUME NEW g \in 1 .. len + 1, NEW h \in 1 .. len + 1, d.fired[g] = d.fired[h]
          PROVE  g = h
      BY <1>4, <1>6, <1>7, <3>1, <3>2 DEF NoRepeats, len
    <3> QED BY <1>4, <3>2 DEF NoRepeats
  <2>2. d.next \in 1 .. Len(order) + 1
    BY <1>1, <1>2, <1>5
  <2>3. \A h \in 1 .. Len(d.fired) : \E j \in 1 .. d.next - 1 : d.fired[h] = order[j]
    <3> SUFFICES ASSUME NEW h \in 1 .. len + 1
                 PROVE  \E j \in 1 .. d.next - 1 : d.fired[h] = order[j]
      BY <1>4
    <3>1. CASE h \in 1 .. len
      <4>1. PICK j \in 1 .. e.next - 1 : e.fired[h] = order[j]
        BY <1>1, <3>1 DEF Behind, len
      <4>2. j \in 1 .. d.next - 1
        BY <1>2, <1>5, <4>1
      <4> QED BY <1>4, <3>1, <4>1, <4>2
    <3>2. CASE h = len + 1
      <4>1. i \in 1 .. d.next - 1
        BY <1>2, <1>5
      <4> QED BY <1>4, <3>2, <4>1
    <3> QED BY <1>6, <3>1, <3>2
  <2> QED BY <2>1, <2>2, <2>3 DEF Behind
<1>9. Reached(d, order, rules)
  <2>1. ASSUME NEW n \in e.due PROVE Was(d, n) \/ Ahead(d, n, order, rules)
    <3>1. CASE Was(e, n)
      BY <1>4, <3>1 DEF Was, len
    <3>2. CASE Ahead(e, n, order, rules)
      <4>1. PICK j \in e.next .. Len(order) : order[j] = n /\ Fires(rules[n], e.comp, e.action)
        BY <3>2 DEF Ahead
      <4>2. ~(j \in e.next .. i - 1)
        BY <1>1, <1>5, <4>1 DEF Due, e
      <4>3. CASE j = i
        BY <1>4, <4>1, <4>3 DEF Was
      <4>4. CASE j # i
        <5>1. j \in d.next .. Len(order)
          BY <1>2, <1>5, <4>1, <4>2, <4>4
        <5> QED BY <1>2, <4>1, <5>1 DEF Ahead
      <4> QED BY <4>3, <4>4
    <3> QED BY <1>1, <2>1, <3>1, <3>2 DEF Reached
  <2> QED BY <1>1, <1>2, <2>1 DEF Reached
<1>10. \A q \in Evaluations \ {k} : Behind(evaluation'[q], order) /\ Reached(evaluation'[q], order, rules)
  BY <1>2 DEF RunInv
<1> QED BY <1>1, <1>3, <1>8, <1>9, <1>10 DEF RunInv, d

\* An evaluation ends when nothing ahead fires.
LEMMA EndRun ==
  ASSUME TypeOK, RunInv, NEW k \in Evaluations, EndEvaluation(k)
  PROVE  RunInv'
<1> DEFINE e == evaluation[k]
           d == evaluation'[k]
<1>1. /\ e \in EvaluationType /\ Behind(e, order) /\ Reached(e, order, rules) /\ e.at = "running"
      /\ \A j \in e.next .. Len(order) : ~Due(k, j)
  BY DEF TypeOK, EvaluationType, RunInv, EndEvaluation
<1>2. /\ d.at = "done" /\ d.comp = e.comp /\ d.action = e.action /\ d.due = e.due
      /\ d.next = e.next /\ d.fired = e.fired
      /\ \A q \in Evaluations \ {k} : evaluation'[q] = evaluation[q]
  BY <1>1 DEF EndEvaluation, TypeOK, EvaluationType
<1>3. UNCHANGED <<order, rules>>
  BY DEF EndEvaluation, registrationVars
<1>4. \A n : ~Ahead(e, n, order, rules)
  BY <1>1 DEF Ahead, Due
<1>5. Behind(d, order) /\ Reached(d, order, rules)
  BY <1>1, <1>2, <1>4 DEF Behind, Reached, Was
<1>6. \A q \in Evaluations \ {k} : Behind(evaluation'[q], order) /\ Reached(evaluation'[q], order, rules)
  BY <1>2 DEF RunInv
<1> QED BY <1>3, <1>5, <1>6 DEF RunInv

\* An evaluation starts before the first rule, with what fires now due.
LEMMA HandleActionRun ==
  ASSUME TypeOK, RunInv, NEW k \in Evaluations, NEW comp, NEW action, HandleAction(k, comp, action)
  PROVE  RunInv'
<1> DEFINE d == evaluation'[k]
<1>1. /\ d.comp = comp /\ d.action = action /\ d.next = 1 /\ d.fired = <<>> /\ d.at = "running"
      /\ d.due = {n \in Elems(order) : Fires(rules[n], comp, action)}
      /\ \A q \in Evaluations \ {k} : evaluation'[q] = evaluation[q]
  BY DEF HandleAction, TypeOK
<1>2. UNCHANGED <<order, rules>> /\ Len(order) \in Nat /\ DOMAIN order = 1 .. Len(order)
  BY DEF HandleAction, registrationVars, TypeOK
<1>3. Behind(d, order)
  BY <1>1, <1>2 DEF Behind, NoRepeats
<1>4. Reached(d, order, rules)
  BY <1>1, <1>2 DEF Reached, Ahead, Elems
<1>5. \A q \in Evaluations \ {k} : Behind(evaluation'[q], order) /\ Reached(evaluation'[q], order, rules)
  BY <1>1 DEF RunInv
<1> QED BY <1>2, <1>3, <1>4, <1>5 DEF RunInv

LEMMA NextRun == TypeOK /\ RunInv /\ [Next]_vars => RunInv'
<1> SUFFICES ASSUME TypeOK, RunInv, [Next]_vars PROVE RunInv'
  OBVIOUS
<1>1. ASSUME UNCHANGED <<order, rules, evaluation>> PROVE RunInv'
  BY <1>1 DEF RunInv
<1>2. ASSUME NEW m \in Mfes, NEW slots, NEW rs \in RouteLists, RegisterMfe(m, slots, rs)
      PROVE  RunInv'
  BY <1>1, <1>2, InstallRun DEF RegisterMfe, Refuse
<1>3. ASSUME NEW id \in Ids, NEW type,
             Expire(id) \/ RenderComponent(id, type) \/ UpdateComponentState(id, type)
      PROVE  RunInv'
  BY <1>1, <1>3 DEF Expire, RenderComponent, UpdateComponentState, registrationVars
<1>4. ASSUME NEW k \in Evaluations, Evaluate(k) PROVE RunInv'
  BY <1>4, FireRun, EndRun DEF Evaluate
<1>5. CASE UNCHANGED vars
  BY <1>1, <1>5 DEF vars, registrationVars
<1>6. CASE \E m \in Mfes, slots \in {Undeclared} \cup SUBSET LocalSlots,
             rs \in RouteLists : RegisterMfe(m, slots, rs)
  BY <1>2, <1>6
<1>7. CASE \E id \in Ids :
             \/ Expire(id)
             \/ \E type \in {"CARD", "FORM"} :
                  RenderComponent(id, type) \/ UpdateComponentState(id, type)
  BY <1>3, <1>7
<1> QED BY <1>4, <1>5, <1>6, <1>7, HandleActionRun DEF Next

LEMMA InitTypedRun == Init => TypeOK /\ RunInv
BY InitTyped, InitRun

LEMMA NextTypedRun == TypeOK /\ RunInv /\ [Next]_vars => TypeOK' /\ RunInv'
BY NextTyped, NextRun

\* One action fires a rule at most once, for any registrations that change or
\* add rules while it is evaluated.
THEOREM RulesFireOnce == Spec => []FiresOnce
<1>1. TypeOK /\ RunInv => FiresOnce
  <2> SUFFICES ASSUME TypeOK, RunInv, NEW k \in Evaluations PROVE NoRepeats(evaluation[k].fired)
    <3>1. \A k \in Evaluations : TypeOK => DOMAIN evaluation[k].fired = 1 .. Len(evaluation[k].fired)
      BY DEF TypeOK
    <3> QED BY <3>1 DEF FiresOnce, NoRepeats
  <2> QED BY DEF RunInv, Behind
<1> QED BY InitTypedRun, NextTypedRun, <1>1, PTL DEF Spec

-----------------------------------------------------------------------------
(***************************************************************************)
(* The order in which an evaluation fires.  What it fired lies behind it,  *)
(* at places of the order that never change, so a rule that fires next     *)
(* comes after all of them.                                                *)
(***************************************************************************)
InOrder(e, ord) ==
  \A g, h \in 1 .. Len(e.fired) :
    g < h => \A p, q \in 1 .. Len(ord) :
               ord[p] = e.fired[g] /\ ord[q] = e.fired[h] => p < q

OrderedInv == \A k \in Evaluations : InOrder(evaluation[k], order)

\* An order that only grows keeps what has fired in its places.
LEMMA GrownInOrder ==
  ASSUME NEW s, NEW t, Grown(s, t), NoRepeats(t), NEW e, Behind(e, s), InOrder(e, s)
  PROVE  InOrder(e, t)
<1> SUFFICES ASSUME NEW g \in 1 .. Len(e.fired), NEW h \in 1 .. Len(e.fired), g < h,
                    NEW p \in 1 .. Len(t), NEW q \in 1 .. Len(t),
                    t[p] = e.fired[g], t[q] = e.fired[h]
             PROVE  p < q
  BY DEF InOrder
<1>1. ASSUME NEW f \in 1 .. Len(e.fired), NEW r \in 1 .. Len(t), t[r] = e.fired[f]
      PROVE  r \in 1 .. Len(s) /\ s[r] = e.fired[f]
  <2>1. PICK j \in 1 .. e.next - 1 : e.fired[f] = s[j]
    BY DEF Behind
  <2>2. j \in 1 .. Len(s) /\ j \in 1 .. Len(t) /\ t[j] = s[j]
    BY <2>1 DEF Behind, Grown
  <2>3. r = j
    BY <1>1, <2>1, <2>2 DEF NoRepeats
  <2> QED BY <2>1, <2>2, <2>3
<1> QED BY <1>1 DEF InOrder

\* The rule at place i fires after everything that lies before i.
LEMMA FireInOrder ==
  ASSUME TypeOK, RunInv, OrderedInv, NEW k \in Evaluations, NEW i \in 1 .. Len(order),
         NEW id \in Ids, FireNext(k, i, id)
  PROVE  OrderedInv'
<1> DEFINE e == evaluation[k]
           d == evaluation'[k]
           len == Len(e.fired)
<1>1. /\ Behind(e, order) /\ InOrder(e, order) /\ NoRepeats(order)
      /\ e \in EvaluationType /\ i \in e.next .. Len(order) /\ order \in Seq(RuleNames)
  BY DEF RunInv, OrderedInv, TypeOK, EvaluationType, FireNext, Due
<1>2. /\ d.fired = Append(e.fired, order[i]) /\ order' = order
      /\ \A o \in Evaluations \ {k} : evaluation'[o] = evaluation[o]
  BY <1>1 DEF FireNext, TypeOK, EvaluationType, registrationVars
<1>3. /\ len \in Nat /\ Len(d.fired) = len + 1 /\ d.fired[len + 1] = order[i]
      /\ \A j \in 1 .. len : d.fired[j] = e.fired[j]
  <2>1. e.fired \in Seq(RuleNames) /\ order[i] \in RuleNames
    BY <1>1 DEF EvaluationType
  <2> HIDE DEF e, d
  <2> QED BY <1>2, <2>1
<1>4. e.next \in Nat /\ i \in Nat /\ e.next <= i /\ Len(order) \in Nat
  BY <1>1 DEF EvaluationType
<1> HIDE DEF e, d, len
<1>5. InOrder(d, order)
  <2> SUFFICES ASSUME NEW g \in 1 .. len + 1, NEW h \in 1 .. len + 1, g < h,
                      NEW p \in 1 .. Len(order), NEW q \in 1 .. Len(order),
                      order[p] = d.fired[g], order[q] = d.fired[h]
               PROVE  p < q
    BY <1>3 DEF InOrder
  <2>1. g \in 1 .. len /\ d.fired[g] = e.fired[g]
    BY <1>3
  <2>2. CASE h \in 1 .. len
    BY <1>1, <1>3, <2>1, <2>2 DEF InOrder, len
  <2>3. CASE h = len + 1
    <3>1. q = i
      BY <1>1, <1>3, <2>3 DEF NoRepeats
    <3>2. PICK j \in 1 .. e.next - 1 : e.fired[g] = order[j]
      BY <1>1, <2>1 DEF Behind, len
    <3>3. j \in 1 .. Len(order) /\ j < i
      BY <1>1, <1>4, <3>2
    <3>4. p = j
      BY <1>1, <2>1, <3>2, <3>3 DEF NoRepeats
    <3> QED BY <3>1, <3>3, <3>4
  <2> QED BY <1>3, <2>2, <2>3
<1>6. \A o \in Evaluations \ {k} : InOrder(evaluation'[o], order)
  BY <1>2 DEF OrderedInv
<1> QED BY <1>2, <1>5, <1>6 DEF OrderedInv, d

LEMMA NextInOrder == TypeOK /\ RunInv /\ OrderedInv /\ [Next]_vars => OrderedInv'
<1> SUFFICES ASSUME TypeOK, RunInv, OrderedInv, [Next]_vars PROVE OrderedInv'
  OBVIOUS
<1>1. ASSUME order' = order, \A k \in Evaluations : evaluation'[k].fired = evaluation[k].fired
      PROVE  OrderedInv'
  BY <1>1 DEF OrderedInv, InOrder
<1>2. ASSUME NEW m \in Mfes, NEW rs \in RouteLists, NEW n, Install(m, rs, n) PROVE OrderedInv'
  <2>1. Grown(order, order') /\ NoRepeats(order')
    BY <1>2, OrderGrows DEF Install, RunInv, TypeOK
  <2>2. \A k \in Evaluations : InOrder(evaluation[k], order')
    BY <2>1, GrownInOrder DEF OrderedInv, RunInv
  <2>3. \A k \in Evaluations : evaluation'[k].fired = evaluation[k].fired
    BY <1>2 DEF Install, TypeOK
  <2>4. \A k \in Evaluations : InOrder(evaluation'[k], order')
    BY <2>2, <2>3 DEF InOrder
  <2> QED BY <2>4 DEF OrderedInv, InOrder
<1>3. ASSUME NEW m \in Mfes, NEW slots, NEW rs \in RouteLists, RegisterMfe(m, slots, rs)
      PROVE  OrderedInv'
  BY <1>1, <1>2, <1>3 DEF RegisterMfe, Refuse
<1>4. ASSUME NEW id \in Ids, NEW type,
             Expire(id) \/ RenderComponent(id, type) \/ UpdateComponentState(id, type)
      PROVE  OrderedInv'
  BY <1>1, <1>4 DEF Expire, RenderComponent, UpdateComponentState, registrationVars
<1>5. ASSUME NEW k \in Evaluations, NEW comp, NEW action, HandleAction(k, comp, action)
      PROVE  OrderedInv'
  <2>1. /\ order' = order /\ evaluation'[k].fired = <<>>
        /\ \A o \in Evaluations \ {k} : evaluation'[o] = evaluation[o]
    BY <1>5 DEF HandleAction, TypeOK, registrationVars
  <2> QED BY <2>1 DEF OrderedInv, InOrder
<1>6. ASSUME NEW k \in Evaluations, EndEvaluation(k) PROVE OrderedInv'
  <2>1. order' = order /\ \A o \in Evaluations : evaluation'[o].fired = evaluation[o].fired
    BY <1>6 DEF EndEvaluation, TypeOK, registrationVars
  <2> QED BY <1>1, <2>1
<1>7. ASSUME NEW k \in Evaluations, Evaluate(k) PROVE OrderedInv'
  BY <1>6, <1>7, FireInOrder DEF Evaluate
<1>8. CASE UNCHANGED vars
  BY <1>1, <1>8 DEF vars, registrationVars
<1>9. CASE \E m \in Mfes, slots \in {Undeclared} \cup SUBSET LocalSlots,
             rs \in RouteLists : RegisterMfe(m, slots, rs)
  BY <1>3, <1>9
<1>10. CASE \E id \in Ids :
              \/ Expire(id)
              \/ \E type \in {"CARD", "FORM"} :
                   RenderComponent(id, type) \/ UpdateComponentState(id, type)
  BY <1>4, <1>10
<1> QED BY <1>5, <1>7, <1>8, <1>9, <1>10 DEF Next

\* One action fires its rules in the order in which they were first registered,
\* for any registrations that add rules or replace them while it is evaluated.
THEOREM RulesFireInOrder == Spec => []FiresInOrder
<1>1. Init => OrderedInv
  BY DEF Init, OrderedInv, InOrder, NoEvaluation
<1>2. TypeOK /\ OrderedInv => FiresInOrder
  <2> SUFFICES ASSUME TypeOK, OrderedInv, NEW k \in Evaluations
               PROVE  /\ DOMAIN evaluation[k].fired = 1 .. Len(evaluation[k].fired)
                      /\ DOMAIN order = 1 .. Len(order)
                      /\ InOrder(evaluation[k], order)
    BY DEF FiresInOrder, InOrder
  <2> QED BY DEF TypeOK, OrderedInv
<1> QED BY InitTypedRun, NextTypedRun, NextInOrder, <1>1, <1>2, PTL DEF Spec

\* Every rule that matched when the action arrived, and was not registered
\* again since, has fired when its evaluation ends.
THEOREM NoDueRuleIsSkipped == Spec => []NoRuleSkipped
<1>1. TypeOK /\ RunInv => NoRuleSkipped
  <2>1. TypeOK => \A k \in Evaluations :
          DOMAIN evaluation[k].fired = 1 .. Len(evaluation[k].fired)
    BY DEF TypeOK
  <2> QED BY <2>1 DEF RunInv, Reached, Was, NoRuleSkipped, Elems
<1> QED BY InitTypedRun, NextTypedRun, <1>1, PTL DEF Spec

-----------------------------------------------------------------------------
(***************************************************************************)
(* Placements.  A rule carries a number up to the current registration.    *)
(* The rules a registration installs passed its check against the slots    *)
(* declared by then; a rule that was there before it is older than the     *)
(* declaration the registration brings.                                    *)
(***************************************************************************)
PlacedRule(rule) ==
  LET provider == rule.address.provider IN
  /\ provider # None
  /\ providedSlots[provider] # Undeclared
  /\ rule.address.slot \notin providedSlots[provider]
  => rule.registration < declaredIn[provider]

PlacedInv == \A name \in RuleNames : PlacedRule(rules[name])

LEMMA InitPlaced == Init => PlacedInv
BY DEF Init, PlacedInv, PlacedRule, DefaultRule, FreeRule, HostAddress

\* A rule that was there before a registration is older than its declaration.
LEMMA OldRulePlaced ==
  ASSUME TypeOK, RefusedInv, PlacedInv, NEW m \in Mfes,
         NEW slots \in {Undeclared} \cup SUBSET LocalSlots, NEW rs \in RouteLists,
         RegisterMfe(m, slots, rs), NEW name \in RuleNames, rules'[name] = rules[name]
  PROVE  PlacedRule(rules[name])'
<1> DEFINE provider == rules[name].address.provider
<1>1. rules[name] \in Rule
  BY DEF TypeOK
<1>2. /\ rules[name].registration \in 0 .. registrations
      /\ provider \in Mfes \cup {None} /\ registrations \in Nat
  BY <1>1 DEF RefusedInv, Rule, Address
<1>3. CASE slots = Undeclared
  <2>1. providedSlots' = providedSlots /\ declaredIn' = declaredIn
    BY <1>3 DEF RegisterMfe, TypeOK
  <2> QED BY <2>1 DEF PlacedInv, PlacedRule
<1>4. CASE slots # Undeclared
  <2>1. /\ providedSlots' = [providedSlots EXCEPT ![m] = slots]
        /\ declaredIn' = [declaredIn EXCEPT ![m] = registrations + 1]
    BY <1>4 DEF RegisterMfe, TypeOK
  <2>2. CASE provider = m
    <3>1. declaredIn'[m] = registrations + 1
      BY <2>1 DEF TypeOK
    <3>2. rules[name].registration < declaredIn'[m]
      BY <1>2, <3>1
    <3> QED BY <2>2, <3>2 DEF PlacedRule
  <2>3. CASE provider \in Mfes \ {m}
    <3>1. /\ providedSlots'[provider] = providedSlots[provider]
          /\ declaredIn'[provider] = declaredIn[provider]
      BY <2>1, <2>3 DEF TypeOK
    <3> QED BY <3>1 DEF PlacedInv, PlacedRule
  <2> QED BY <1>2, <2>2, <2>3 DEF PlacedRule
<1> QED BY <1>3, <1>4

\* A rule that a registration installs passed its check.
LEMMA NewRulePlaced ==
  ASSUME TypeOK, NEW m \in Mfes, NEW slots \in {Undeclared} \cup SUBSET LocalSlots,
         NEW rs \in RouteLists, RegisterMfe(m, slots, rs),
         Install(m, rs, registrations + 1),
         ~\E i \in DOMAIN rs : Undeclarable(rs[i].address, providedSlots'),
         NEW i \in Installed(rs), <<m, i>> \in RuleNames
  PROVE  PlacedRule(rules[<<m, i>>])'
<1>1. i \in DOMAIN rs
  BY DEF Installed
<1>2. rules'[<<m, i>>] = RuleOf(rs[i], registrations + 1)
  BY DEF Install
<1>3. rules'[<<m, i>>].address = rs[i].address
  BY <1>2 DEF RuleOf
<1>4. ~Undeclarable(rs[i].address, providedSlots')
  BY <1>1
<1> QED BY <1>3, <1>4 DEF Undeclarable, PlacedRule

LEMMA RegisterPlaces ==
  ASSUME TypeOK, RefusedInv, PlacedInv, NEW m \in Mfes,
         NEW slots \in {Undeclared} \cup SUBSET LocalSlots, NEW rs \in RouteLists,
         RegisterMfe(m, slots, rs)
  PROVE  PlacedInv'
<1> SUFFICES ASSUME NEW name \in RuleNames PROVE PlacedRule(rules[name])'
  BY DEF PlacedInv
<1>1. \/ Refuse(m, rs, registrations + 1)
      \/ /\ ~\E i \in DOMAIN rs : Undeclarable(rs[i].address, providedSlots')
         /\ Install(m, rs, registrations + 1)
  BY DEF RegisterMfe
<1>2. CASE rules'[name] = rules[name]
  BY <1>2, OldRulePlaced
<1>3. CASE rules'[name] # rules[name]
  <2>1. Install(m, rs, registrations + 1)
    BY <1>1, <1>3 DEF Refuse
  <2>2. PICK i \in Installed(rs) : name = <<m, i>>
    BY <1>3, <2>1 DEF Install
  <2>3. rules' # rules
    BY <1>3
  <2> QED BY <1>1, <2>1, <2>2, <2>3, NewRulePlaced DEF Refuse
<1> QED BY <1>2, <1>3

LEMMA NextPlaced == TypeOK /\ RefusedInv /\ PlacedInv /\ [Next]_vars => PlacedInv'
<1> SUFFICES ASSUME TypeOK, RefusedInv, PlacedInv, [Next]_vars PROVE PlacedInv'
  OBVIOUS
<1>1. CASE \E m \in Mfes, slots \in {Undeclared} \cup SUBSET LocalSlots,
             rs \in RouteLists : RegisterMfe(m, slots, rs)
  BY <1>1, RegisterPlaces
<1>2. CASE UNCHANGED <<rules, providedSlots, declaredIn>>
  BY <1>2 DEF PlacedInv, PlacedRule
<1> QED
  BY <1>1, <1>2 DEF Next, vars, Expire, RenderComponent, UpdateComponentState, Evaluate,
     FireNext, EndEvaluation, HandleAction, registrationVars

\* ADR-067: no order of registrations installs a rule against a declaration it
\* could have read.  A rule that places at an undeclared slot is older than the
\* declaration that leaves the slot out.
THEOREM PlacementsAreDeclared == Spec => []PlacedWhereDeclared
<1>1. TypeOK /\ PlacedInv => PlacedWhereDeclared
  <2>1. TypeOK => Elems(order) \subseteq RuleNames
    BY DEF TypeOK, Elems
  <2> QED BY <2>1 DEF PlacedInv, PlacedRule, PlacedWhereDeclared
<1> QED
  BY InitTyped, NextTyped, InitRefused, NextRefused, InitPlaced, NextPlaced, <1>1, PTL
  DEF Spec

=============================================================================
