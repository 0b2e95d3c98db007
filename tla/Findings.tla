------------------------------ MODULE Findings ------------------------------
(***************************************************************************)
(* The data of IAM Zero and the pure functions on it: findings (one policy *)
(* recommendation for a role), actions (one recorded AWS API call each),   *)
(* and the queries of the storage interfaces over both.                    *)
(*                                                                         *)
(* The store is two tables, functions from the uuids a run may draw to a   *)
(* record or to None.  An advisory is named by its action and its position *)
(* in the action's Recommendations: CreateAdviceFromEvent gives each one a *)
(* fresh uuid, so no two actions share one.  A document is the set of the  *)
(* advisories whose statements it holds; times, accounts, resources and    *)
(* the wording of statements are left out.                                 *)
(***************************************************************************)
EXTENDS Naturals, FiniteSets, FiniteSetsExt

CONSTANTS
  Roles,       \* IAM role ARNs events are reported for
  FindingIds,  \* uuids of findings, as numbers: Bolt iterates in key order
  ActionIds,   \* uuids of actions
  MaxAdvice,   \* most advisory templates an AWS operation has
  None         \* no record: a nil pointer, an absent JSON field

ASSUME IdsAssumption == FindingIds \subseteq Nat /\ IsFiniteSet(ActionIds)
ASSUME AdviceAssumption == MaxAdvice \in Nat

Statuses == {"active", "resolved"}

Advisories == ActionIds \X (1..MaxAdvice)

(* How many advisory templates there may be for the operation of an event. *)
AdviceCounts == 0..MaxAdvice

Finding == [id         : FindingIds,
            role       : Roles,
            status     : Statuses,
            eventCount : Nat,
            document   : SUBSET Advisories]

(* selected = 0 is the empty SelectedLeastPrivilegePolicyID. *)
Action == [id       : ActionIds,
           finding  : FindingIds,
           role     : Roles,
           advice   : AdviceCounts,
           enabled  : BOOLEAN,
           selected : 0..MaxAdvice]

ASSUME NoneAssumption ==
  /\ None \notin Finding
  /\ None \notin Action
  /\ None \notin BOOLEAN
  /\ None \notin 0..MaxAdvice
  /\ None \notin Advisories

(* The JSON body of an edit: an absent field leaves the action alone, and  *)
(* selected = 0 is an id that no recommendation has.                       *)
EditBody == [enabled : BOOLEAN \cup {None}, selected : (0..MaxAdvice) \cup {None}]

FindingTable == [FindingIds -> Finding \cup {None}]
ActionTable  == [ActionIds -> Action \cup {None}]

Stored(table) == {id \in DOMAIN table : table[id] # None}

-----------------------------------------------------------------------------
(* Mutant: the role of the query is ignored. *)
Matching_AnyRole(findings, role, status) ==
  {f \in FindingIds : findings[f] # None /\ findings[f].status = status}

(* FindByRole returns the first match in key order, or nil. *)
Matching(findings, role, status) ==
  {f \in FindingIds : /\ findings[f] # None
                      /\ findings[f].role = role
                      /\ findings[f].status = status}

FindByRole(findings, role, status) ==
  LET found == Matching(findings, role, status)
  IN  IF found = {} THEN None ELSE findings[Min(found)]

(* Mutant: the actions of all findings are listed. *)
ListForPolicy_Unfiltered(actions, f) == {actions[a] : a \in Stored(actions)}

(* Every action of a finding, whether enabled or not. *)
ListForPolicy(actions, f) ==
  {actions[a] : a \in {b \in ActionIds : actions[b] # None /\ actions[b].finding = f}}

NewFinding(f, role) ==
  [id |-> f, role |-> role, status |-> "active", eventCount |-> 0, document |-> {}]

(* A new action is enabled and its first recommendation, if any, selected. *)
NewAction(a, f, role, advice) ==
  [id |-> a, finding |-> f, role |-> role, advice |-> advice,
   enabled |-> TRUE, selected |-> IF advice > 0 THEN 1 ELSE 0]

(* Mutant: any id is accepted. *)
SelectAdvisory_Unchecked(action, k) == [action EXCEPT !.selected = k]

(* SelectAdvisory fails, here with None, on an id that is no recommendation. *)
SelectAdvisory(action, k) ==
  IF k \in 1..action.advice THEN [action EXCEPT !.selected = k] ELSE None

(* GetSelectedAdvisory returns nil when no recommendation has the id. *)
GetSelectedAdvisory(action) ==
  IF action.selected \in 1..action.advice THEN <<action.id, action.selected>> ELSE None

(* Mutant: actions without recommendations are not skipped. *)
Contributing_All(acts) == {x \in acts : x.enabled}

(* The actions RecalculateDocument takes statements from. *)
Contributing(acts) == {x \in acts : x.enabled /\ x.advice > 0}

(* Mutant: the event is counted, not the actions. *)
RecalculateDocument_Increments(finding, acts) ==
  [finding EXCEPT !.eventCount = @ + 1,
                  !.document   = {GetSelectedAdvisory(x) : x \in Contributing(acts)}]

(* RecalculateDocument dereferences GetSelectedAdvisory without a nil check: *)
(* EventPipeline!NoNilAdvisory says that it may.                             *)
RecalculateDocument(finding, acts) ==
  [finding EXCEPT !.eventCount = Cardinality(acts),
                  !.document   = {GetSelectedAdvisory(x) : x \in Contributing(acts)}]

(* What EditAction makes of an action, or None when SelectAdvisory fails. *)
ApplyEdit(action, body) ==
  LET toggled == IF body.enabled = None THEN action
                 ELSE [action EXCEPT !.enabled = body.enabled]
  IN  IF body.selected = None THEN toggled ELSE SelectAdvisory(toggled, body.selected)

=============================================================================
