-------------------------- MODULE ComponentRegistry --------------------------
(***************************************************************************)
(* The control plane's registry: ComponentRegistry in                      *)
(* packages/control-plane/registry/simple-registry.js, with the placement  *)
(* check of slot-target.js (ADR-054, ADR-067, ADR-073).                    *)
(*                                                                         *)
(* MFEs register the slots they contribute and the routes that place them; *)
(* each route becomes a rule.  An action of a renderer is evaluated against *)
(* the rules in the order they were first registered, with an await after  *)
(* each rule that fires: registrations, other actions and expiries run in  *)
(* between.                                                                *)
(***************************************************************************)
EXTENDS Naturals, Sequences, FiniteSets

CONSTANTS
  Mfes,              \* names of MFEs
  LocalSlots,        \* slot ids an MFE may declare
  Keys,              \* state keys
  RouteLists,        \* the lists of routes registrations carry
  Ids,               \* bound: the component ids that are generated
  Evaluations,       \* bound: actions evaluated, overlapping or not
  MaxRegistrations,  \* bound
  None

MaxRoutes == 2       \* bound: routes of one registration

ASSUME BoundsAssumption == MaxRegistrations \in Nat
ASSUME NamesAssumption ==
  /\ None \notin Mfes \cup LocalSlots \cup Keys \cup Ids
  /\ "default" \notin Mfes

(***************************************************************************)
(* Data.                                                                   *)
(***************************************************************************)
ComponentTypes ==
  {"CARD", "FORM", "NOTIFICATION", "RESOLUTION", "UNKNOWN"}

ActionTypes == {"CLICK", "SUBMIT", "STATE_UPDATE"}

Action == [type: ActionTypes, key: Keys \cup {None}]

\* A slot address: owned by the host when the provider is None.  An address
\* with a separator but an empty half is malformed.
Address ==
  [provider: Mfes \cup {None}, slot: LocalSlots \cup {None},
   malformed: BOOLEAN]

\* `when` with the predicates that are absent as None; `resolves` is whether
\* the route has a resolve part at all.
When == [comp: ComponentTypes \cup {None}, act: ActionTypes \cup {None},
         key: Keys \cup {None}]

Route == [when: When, address: Address, resolves: BOOLEAN]

ASSUME RoutesAssumption ==
  \A rs \in RouteLists : rs \in Seq(Route) /\ Len(rs) <= MaxRoutes

\* Rule names: the two default rules and one for each route of an MFE.
CardClick  == <<"default", 1>>
FormSubmit == <<"default", 2>>
RuleNames == (Mfes \cup {"default"}) \X (1 .. MaxRoutes)

\* A rule keeps the registration it comes from, 0 for the default rules.
Rule == [when: When, makes: ComponentTypes, resolves: BOOLEAN,
         registration: Nat, address: Address]

HostAddress == [provider |-> None, slot |-> None, malformed |-> FALSE]

DefaultRule(comp, act, makes) ==
  [when |-> [comp |-> comp, act |-> act, key |-> None], makes |-> makes,
   resolves |-> TRUE, registration |-> 0, address |-> HostAddress]

Undeclared == {None}   \* stands for the slots of an MFE that declared none yet

-----------------------------------------------------------------------------
VARIABLES
  mfes,           \* this.mfes: MFE -> its registration, 0 when unknown
  providedSlots,  \* this.providedSlots
  declaredIn,     \* the registration each declaration came with (history)
  rules,          \* this.rules, by name; names that are not in `order` are free
  order,          \* the insertion order of this.rules
  components,     \* this.components: id -> type, None when not stored
  timers,         \* ids whose expiry is scheduled
  minted,         \* ids in use so far: a fresh id is never one of them
  evaluation,     \* the handleAction calls
  registrations,  \* registrations received
  refused         \* registrations refused for their placements (history)

registrationVars == <<mfes, providedSlots, declaredIn, rules, order,
                      registrations, refused>>
componentVars == <<components, timers, minted>>
vars == <<registrationVars, componentVars, evaluation>>

Elems(s) == {s[i] : i \in DOMAIN s}

Registered(name) == name \in Elems(order)

NoEvaluation ==
  [at |-> "idle", comp |-> "UNKNOWN", action |-> [type |-> "CLICK", key |-> None],
   next |-> 1, fired |-> <<>>, due |-> {}]

FreeRule == DefaultRule(None, None, "RESOLUTION")

Init ==
  /\ mfes = [m \in Mfes |-> 0]
  /\ providedSlots = [m \in Mfes |-> Undeclared]
  /\ declaredIn = [m \in Mfes |-> 0]
  /\ order = <<CardClick, FormSubmit>>
  /\ rules = [n \in RuleNames |->
                CASE n = CardClick  -> DefaultRule("CARD", "CLICK", "NOTIFICATION")
                  [] n = FormSubmit -> DefaultRule("FORM", "SUBMIT", "CARD")
                  [] OTHER -> FreeRule]
  /\ components = [id \in Ids |-> None]
  /\ timers = {} /\ minted = {}
  /\ evaluation = [k \in Evaluations |-> NoEvaluation]
  /\ registrations = 0 /\ refused = {}

-----------------------------------------------------------------------------
(***************************************************************************)
(* Registration.                                                           *)
(***************************************************************************)

\* A mutant of Undeclarable: a provider that declares nothing is not checked.
Undeclarable_SkipsEmpty(address, declared) ==
  \/ address.malformed
  \/ /\ address.provider # None
     /\ declared[address.provider] \notin {Undeclared, {}}
     /\ address.slot \notin declared[address.provider]

\* validateSlotTarget refuses a malformed address, and a slot that a
\* registered provider does not declare; an unknown provider only warns.
Undeclarable(address, declared) ==
  \/ address.malformed
  \/ /\ address.provider # None
     /\ declared[address.provider] # Undeclared
     /\ address.slot \notin declared[address.provider]

\* The rules a list of routes installs: all of them, or those up to the first
\* route without a resolve part, where registerMfe throws.
Installed(rs) ==
  {i \in DOMAIN rs : \A j \in 1 .. i - 1 : rs[j].resolves}

RuleOf(route, n) ==
  [when |-> route.when, makes |-> "RESOLUTION", resolves |-> route.resolves,
   registration |-> n, address |-> route.address]

\* The name of route i of m, if it is new to the Map.
NewName(m, i, new) == IF new THEN <<<<m, i>>>> ELSE <<>>

\* A mutant of NewNames: a name that is registered again is listed again.
NewNames_Pushes(m, rs) ==
  NewName(m, 1, 1 \in Installed(rs)) \o NewName(m, 2, 2 \in Installed(rs))

\* One term for each of the MaxRoutes names, in the order of the routes.
NewNames(m, rs) ==
  NewName(m, 1, 1 \in Installed(rs) /\ ~Registered(<<m, 1>>))
    \o NewName(m, 2, 2 \in Installed(rs) /\ ~Registered(<<m, 2>>))

\* The routes of a registration become rules; a rule that is registered again
\* keeps its place.
Install(m, rs, n) ==
  /\ rules' = [name \in RuleNames |->
                 IF \E i \in Installed(rs) : name = <<m, i>>
                   THEN RuleOf(rs[name[2]], n) ELSE rules[name]]
  /\ order' = order \o NewNames(m, rs)
  /\ evaluation' = [k \in Evaluations |->
       [evaluation[k] EXCEPT !.due = @ \ {<<m, i>> : i \in Installed(rs)}]]

\* A mutant of Refuse: the check comes after the rules are installed.
Refuse_TooLate(m, rs, n) ==
  /\ refused' = refused \cup {n}
  /\ Install(m, rs, n)

Refuse(m, rs, n) ==
  /\ refused' = refused \cup {n}
  /\ UNCHANGED <<rules, order, evaluation>>

\* registerMfe: the registration and its slots are recorded first, the routes
\* are checked next, and only then do they become rules.  `slots` is Undeclared
\* when the registration carries no providesSlots.  A registration without a
\* name or a baseUrl throws before it changes anything, and is no step.
RegisterMfe(m, slots, rs) ==
  LET n == registrations + 1
      declared == IF slots = Undeclared THEN providedSlots
                  ELSE [providedSlots EXCEPT ![m] = slots]
      fatal == \E i \in DOMAIN rs : Undeclarable(rs[i].address, declared)
  IN
  /\ registrations < MaxRegistrations
  /\ registrations' = n
  /\ mfes' = [mfes EXCEPT ![m] = n]
  /\ providedSlots' = declared
  /\ declaredIn' = [declaredIn EXCEPT ![m] = IF slots = Undeclared THEN @ ELSE n]
  /\ \/ fatal /\ Refuse(m, rs, n)
     \/ ~fatal /\ Install(m, rs, n) /\ UNCHANGED refused
  /\ UNCHANGED componentVars

(***************************************************************************)
(* Components.                                                             *)
(***************************************************************************)

\* renderComponent: a fresh component is stored and its expiry scheduled.
Store(id, type) ==
  /\ id \notin minted
  /\ minted' = minted \cup {id}
  /\ components' = [components EXCEPT ![id] = type]
  /\ timers' = timers \cup {id}

\* POST /render, or the renderComponent mutation.
RenderComponent(id, type) ==
  /\ Store(id, type)
  /\ UNCHANGED <<registrationVars, evaluation>>

\* The COMPONENT_TTL_MS timer.
Expire(id) ==
  /\ id \in timers
  /\ timers' = timers \ {id}
  /\ components' = [components EXCEPT ![id] = None]
  /\ UNCHANGED <<minted, registrationVars, evaluation>>

\* A COMPONENT message; it schedules no expiry.
UpdateComponentState(id, type) ==
  /\ components' = [components EXCEPT ![id] = type]
  /\ minted' = minted \cup {id}
  /\ UNCHANGED <<timers, registrationVars, evaluation>>

(***************************************************************************)
(* Actions and rule evaluation.                                            *)
(***************************************************************************)

\* The condition of a rule; a route with an empty `when` never fires.
Matches(rule, comp, action) ==
  /\ rule.when.comp \in {None, comp}
  /\ rule.when.act \in {None, action.type}
  /\ rule.when.key \in {None, action.key}
  /\ rule.when # [comp |-> None, act |-> None, key |-> None]

\* A rule that matches but has nothing to resolve throws in generate, which
\* is caught: the next rule is tried.
Fires(rule, comp, action) == Matches(rule, comp, action) /\ rule.resolves

\* A mutant of HandleAction: no state is synthesised, and none is asked for.
HandleAction_NoState(k, comp, action) ==
  /\ evaluation[k].at = "idle"
  /\ \E id \in Ids : comp = components[id]
  /\ evaluation' = [evaluation EXCEPT ![k] =
       [at |-> "running", comp |-> comp, action |-> action, next |-> 1,
        fired |-> <<>>,
        due |-> {n \in Elems(order) : Fires(rules[n], comp, action)}]]
  /\ UNCHANGED <<registrationVars, componentVars>>

\* handleAction: the state is the stored component, or a synthesised one for
\* an action with a state key; any other action is dropped.
HandleAction(k, comp, action) ==
  /\ evaluation[k].at = "idle"
  /\ \/ \E id \in Ids : comp = components[id]
     \/ comp = "UNKNOWN" /\ action.key # None
  /\ comp # None
  /\ evaluation' = [evaluation EXCEPT ![k] =
       [at |-> "running", comp |-> comp, action |-> action, next |-> 1,
        fired |-> <<>>,
        due |-> {n \in Elems(order) : Fires(rules[n], comp, action)}]]
  /\ UNCHANGED <<registrationVars, componentVars>>

\* A mutant of Due: a rule that throws ends the evaluation.
Due_UnlessThrown(k, i) ==
  /\ i \in evaluation[k].next .. Len(order)
  /\ \A j \in evaluation[k].next .. i :
       LET rule == rules[order[j]] IN
       Matches(rule, evaluation[k].comp, evaluation[k].action) => rule.resolves
  /\ Fires(rules[order[i]], evaluation[k].comp, evaluation[k].action)

\* The rule at place i is still to be reached, and fires.
Due(k, i) ==
  /\ i \in evaluation[k].next .. Len(order)
  /\ Fires(rules[order[i]], evaluation[k].comp, evaluation[k].action)

\* Up to the next await: the first rule from here on that fires.
FireNext(k, i, id) ==
  /\ evaluation[k].at = "running"
  /\ Due(k, i)
  /\ \A j \in evaluation[k].next .. i - 1 : ~Due(k, j)
  /\ Store(id, rules[order[i]].makes)
  /\ evaluation' = [evaluation EXCEPT ![k].next = i + 1,
                                      ![k].fired = Append(@, order[i])]
  /\ UNCHANGED registrationVars

EndEvaluation(k) ==
  /\ evaluation[k].at = "running"
  /\ \A i \in evaluation[k].next .. Len(order) : ~Due(k, i)
  /\ evaluation' = [evaluation EXCEPT ![k].at = "done"]
  /\ UNCHANGED <<registrationVars, componentVars>>

-----------------------------------------------------------------------------
Evaluate(k) ==
  \/ \E i \in 1 .. Len(order), id \in Ids : FireNext(k, i, id)
  \/ EndEvaluation(k)

Next ==
  \/ \E m \in Mfes, slots \in {Undeclared} \cup SUBSET LocalSlots,
        rs \in RouteLists : RegisterMfe(m, slots, rs)
  \/ \E id \in Ids :
       \/ Expire(id)
       \/ \E type \in {"CARD", "FORM"} :
            RenderComponent(id, type) \/ UpdateComponentState(id, type)
  \/ \E k \in Evaluations :
       \/ Evaluate(k)
       \/ \E comp \in ComponentTypes \cup {None}, action \in Action :
            HandleAction(k, comp, action)

Spec == Init /\ [][Next]_vars

-----------------------------------------------------------------------------
(***************************************************************************)
(* Properties.                                                             *)
(***************************************************************************)

\* The types of the variables.
TypeOK ==
  /\ mfes \in [Mfes -> 0 .. MaxRegistrations]
  /\ providedSlots \in [Mfes -> {Undeclared} \cup SUBSET LocalSlots]
  /\ declaredIn \in [Mfes -> 0 .. MaxRegistrations]
  /\ rules \in [RuleNames -> Rule]
  /\ order \in Seq(RuleNames)
  /\ components \in [Ids -> ComponentTypes \cup {None}]
  /\ timers \in SUBSET Ids /\ minted \in SUBSET Ids
  /\ evaluation \in [Evaluations ->
       [at: {"idle", "running", "done"}, comp: ComponentTypes, action: Action,
        next: Nat, fired: Seq(RuleNames), due: SUBSET RuleNames]]
  /\ registrations \in 0 .. MaxRegistrations
  /\ refused \in SUBSET (1 .. MaxRegistrations)

\* One action fires its rules in the order in which they were first registered,
\* and each at most once, although registrations add rules and replace them
\* while it is evaluated: no rule overtakes one that was there before it.
FiresInOrder ==
  \A k \in Evaluations :
    LET fired == evaluation[k].fired IN
    \A i, j \in DOMAIN fired :
      i < j => \A at, next \in DOMAIN order :
                 order[at] = fired[i] /\ order[next] = fired[j] => at < next

\* What of it a single evaluation shows: no rule fires twice.
FiresOnce ==
  \A k \in Evaluations :
    \A i, j \in DOMAIN evaluation[k].fired :
      evaluation[k].fired[i] = evaluation[k].fired[j] => i = j

\* Every rule that matched when the action arrived and was not registered
\* again since has fired by the end: neither a rule that throws nor a
\* registration in between makes the evaluation skip one.
NoRuleSkipped ==
  \A k \in Evaluations :
    evaluation[k].at = "done" => evaluation[k].due \subseteq Elems(evaluation[k].fired)

\* ADR-067: a registration that is refused places nothing and displaces nothing.
\* Its slots stay recorded, yet no rule ever comes from it: the rules its MFE had
\* are the ones of its earlier registrations, whatever is registered after it.
\* (A placement at a provider that is unknown is not refused; what becomes of it
\* is PlacedWhereDeclared's.)
RefusedNeverPlaced ==
  \A n \in RuleNames : rules[n].registration \notin refused

\* A rule places at a slot that its provider does not declare only when the
\* declaration came after the rule: the provider was unknown at the time, "order
\* is not guaranteed", or declares other slots since.  No order of registrations,
\* refused ones among them, installs a rule against a declaration it could have
\* read.
PlacedWhereDeclared ==
  \A n \in Elems(order) :
    LET provider == rules[n].address.provider IN
    /\ provider # None
    /\ providedSlots[provider] # Undeclared
    /\ rules[n].address.slot \notin providedSlots[provider]
    => rules[n].registration < declaredIn[provider]

=============================================================================
