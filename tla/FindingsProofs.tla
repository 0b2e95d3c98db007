--------------------------- MODULE FindingsProofs ---------------------------
(***************************************************************************)
(* What the functions of Findings return, for every value of the           *)
(* constants.                                                              *)
(***************************************************************************)
EXTENDS Findings, FiniteSetTheorems, TLAPS

(* A non-empty set of finding ids has a least one. *)
LEMMA MinFindingId ==
  ASSUME NEW S \in SUBSET FindingIds, S # {}
  PROVE  Min(S) \in S
<1> DEFINE Below == {pair \in Nat \X Nat : pair[1] < pair[2]}
<1>1. IsWellFoundedOn(Below, Nat)
  BY NatLessThanWellFounded DEF OpToRel
<1>2. S \subseteq Nat
  BY IdsAssumption
<1>3. PICK x \in S : \A y \in S : <<y, x>> \notin Below
  <2> HIDE DEF Below
  <2> QED BY <1>1, <1>2, WFMin
<1>4. \A y \in S : x <= y
  <2> SUFFICES ASSUME NEW y \in S PROVE ~ (y < x)
    BY <1>2
  <2>1. <<y, x>> \in Nat \X Nat /\ <<y, x>>[1] = y /\ <<y, x>>[2] = x
    BY <1>2
  <2> QED BY <1>3, <2>1
<1> QED BY <1>4 DEF Min

(* FindByRole returns nil only when nothing matches, else a stored match. *)
LEMMA FindByRoleMatches ==
  ASSUME NEW findings \in FindingTable, NEW role, NEW status,
         FindByRole(findings, role, status) # None
  PROVE  \E f \in Matching(findings, role, status) :
           FindByRole(findings, role, status) = findings[f]
<1>1. Matching(findings, role, status) # {}
  BY DEF FindByRole
<1>2. Matching(findings, role, status) \in SUBSET FindingIds
  BY DEF Matching
<1> QED BY <1>1, <1>2, MinFindingId DEF FindByRole

(* New findings and actions are well typed. *)
LEMMA NewFindingType ==
  ASSUME NEW f \in FindingIds, NEW role \in Roles
  PROVE  NewFinding(f, role) \in Finding
BY DEF NewFinding, Finding, Statuses, Advisories

(* A new action is well typed. *)
LEMMA NewActionType ==
  ASSUME NEW a \in ActionIds, NEW f \in FindingIds, NEW role \in Roles,
         NEW n \in AdviceCounts
  PROVE  NewAction(a, f, role, n) \in Action
BY AdviceAssumption DEF NewAction, Action, AdviceCounts

(* An action whose selected id, if it has recommendations, is one of them. *)
WellSelected(action) == action.advice > 0 => action.selected \in 1..action.advice

(* A new action selects its first advisory, if it has one. *)
LEMMA NewActionWellSelected ==
  ASSUME NEW a, NEW f, NEW role, NEW n \in AdviceCounts
  PROVE  WellSelected(NewAction(a, f, role, n))
BY AdviceAssumption DEF WellSelected, NewAction, AdviceCounts

(* An edit that succeeds yields an action of the same origin, on which      *)
(* RecalculateDocument is as safe as on the one before.                     *)
LEMMA ApplyEditType ==
  ASSUME NEW action \in Action, NEW body \in EditBody, ApplyEdit(action, body) # None
  PROVE  /\ ApplyEdit(action, body) \in Action
         /\ ApplyEdit(action, body).id = action.id
         /\ ApplyEdit(action, body).finding = action.finding
         /\ ApplyEdit(action, body).role = action.role
         /\ ApplyEdit(action, body).advice = action.advice
         /\ WellSelected(action) => WellSelected(ApplyEdit(action, body))
<1> DEFINE toggled == IF body.enabled = None THEN action
                      ELSE [action EXCEPT !.enabled = body.enabled]
<1>1. /\ toggled \in Action
      /\ toggled.id = action.id
      /\ toggled.finding = action.finding
      /\ toggled.role = action.role
      /\ toggled.advice = action.advice
      /\ toggled.selected = action.selected
  BY DEF Action, EditBody
<1>2. ApplyEdit(action, body) = IF body.selected = None THEN toggled
                                ELSE SelectAdvisory(toggled, body.selected)
  BY DEF ApplyEdit
<1> HIDE DEF toggled
<1>3. CASE body.selected = None
  BY <1>1, <1>2, <1>3 DEF WellSelected
<1>4. CASE body.selected # None
  <2>1. /\ body.selected \in 1..toggled.advice
        /\ ApplyEdit(action, body) = [toggled EXCEPT !.selected = body.selected]
    BY <1>2, <1>4 DEF SelectAdvisory
  <2>2. body.selected \in 0..MaxAdvice
    BY <1>4 DEF EditBody
  <2> QED BY <1>1, <2>1, <2>2 DEF Action, WellSelected
<1> QED BY <1>3, <1>4

(* The actions of a finding are finitely many, as many as their ids. *)
LEMMA ListForPolicyFinite ==
  ASSUME NEW actions \in ActionTable, NEW f
  PROVE  /\ IsFiniteSet(ListForPolicy(actions, f))
         /\ Cardinality(ListForPolicy(actions, f)) \in Nat
<1> DEFINE S == {b \in ActionIds : actions[b] # None /\ actions[b].finding = f}
           T == ListForPolicy(actions, f)
           g == [b \in S |-> actions[b]]
<1>1. IsFiniteSet(S)
  BY IdsAssumption, FS_Subset
<1>2. g \in Surjection(S, T)
  BY DEF Surjection, ListForPolicy
<1>3. IsFiniteSet(T)
  <2> HIDE DEF S, T, g
  <2> QED BY <1>1, <1>2, FS_Surjection
<1> QED BY <1>3, FS_CardinalityType

(* RecalculateDocument on actions it does not panic on. *)
LEMMA RecalculateDocumentType ==
  ASSUME NEW finding \in Finding, NEW acts \in SUBSET Action,
         Cardinality(acts) \in Nat, \A x \in acts : WellSelected(x)
  PROVE  /\ RecalculateDocument(finding, acts) \in Finding
         /\ RecalculateDocument(finding, acts).id = finding.id
         /\ RecalculateDocument(finding, acts).role = finding.role
         /\ \A grant \in RecalculateDocument(finding, acts).document :
              \E x \in acts : /\ x.advice > 0
                              /\ grant = <<x.id, x.selected>>
                              /\ x.selected \in 1..x.advice
<1> DEFINE doc == {GetSelectedAdvisory(x) : x \in Contributing(acts)}
<1>1. ASSUME NEW x \in Contributing(acts)
      PROVE  /\ x \in acts /\ x.advice > 0 /\ x.selected \in 1..x.advice
             /\ GetSelectedAdvisory(x) = <<x.id, x.selected>>
             /\ GetSelectedAdvisory(x) \in Advisories
  <2>1. x \in acts /\ x.advice > 0
    BY <1>1 DEF Contributing
  <2>2. x \in Action /\ x.selected \in 1..x.advice
    BY <2>1 DEF WellSelected
  <2>3. x.id \in ActionIds /\ x.selected \in 1..MaxAdvice
    BY <2>1, <2>2, AdviceAssumption DEF Action
  <2> QED BY <2>1, <2>2, <2>3 DEF GetSelectedAdvisory, Advisories
<1>2. doc \in SUBSET Advisories
  BY <1>1
<1>3. RecalculateDocument(finding, acts)
        = [finding EXCEPT !.eventCount = Cardinality(acts), !.document = doc]
  BY DEF RecalculateDocument
<1>4. \A grant \in doc : \E x \in acts : /\ x.advice > 0
                                         /\ grant = <<x.id, x.selected>>
                                         /\ x.selected \in 1..x.advice
  BY <1>1
<1> HIDE DEF doc
<1> QED BY <1>2, <1>3, <1>4 DEF Finding

(* The ids of the actions recorded for a finding. *)
Recorded(actions, f) == {b \in ActionIds : actions[b] # None /\ actions[b].finding = f}

(* A table of records stored under their ids. *)
KeepsIds(actions) == \A a \in ActionIds : actions[a] # None => actions[a].id = a

(* A finding has as many actions as ids: no two stored actions are equal. *)
LEMMA ListForPolicyCount ==
  ASSUME NEW actions \in ActionTable, KeepsIds(actions), NEW f
  PROVE  /\ IsFiniteSet(Recorded(actions, f))
         /\ Cardinality(ListForPolicy(actions, f)) = Cardinality(Recorded(actions, f))
<1> DEFINE S == Recorded(actions, f)
           T == ListForPolicy(actions, f)
           g == [b \in S |-> actions[b]]
<1>1. IsFiniteSet(S)
  BY IdsAssumption, FS_Subset DEF Recorded
<1>2. g \in Surjection(S, T)
  BY DEF Surjection, ListForPolicy, Recorded
<1>3. \A b, c \in S : g[b] = g[c] => b = c
  BY DEF KeepsIds, Recorded
<1>4. g \in Injection(S, T)
  BY <1>2, <1>3 DEF Injection, IsInjective, Surjection
<1> HIDE DEF S, T, g
<1>5. Cardinality(T) = Cardinality(S)
  BY <1>1, <1>2, <1>4, FS_Surjection
<1> QED BY <1>1, <1>5 DEF S, T

(* Actions that are neither lost nor moved stay in the list of the finding. *)
LEMMA ListForPolicyGrows ==
  ASSUME NEW before \in ActionTable, KeepsIds(before),
         NEW after \in ActionTable, KeepsIds(after), NEW f,
         \A a \in ActionIds : before[a] # None =>
           after[a] # None /\ after[a].finding = before[a].finding
  PROVE  Cardinality(ListForPolicy(before, f)) <= Cardinality(ListForPolicy(after, f))
<1>1. Recorded(before, f) \in SUBSET Recorded(after, f)
  BY DEF Recorded
<1>2. Cardinality(Recorded(before, f)) <= Cardinality(Recorded(after, f))
  BY <1>1, ListForPolicyCount, FS_Subset
<1> QED BY <1>2, ListForPolicyCount

(* RecalculateDocument counts the actions, and takes no more than one       *)
(* advisory from each.                                                      *)
LEMMA RecalculateDocumentCount ==
  ASSUME NEW finding \in Finding, NEW acts, IsFiniteSet(acts)
  PROVE  /\ RecalculateDocument(finding, acts).eventCount = Cardinality(acts)
         /\ Cardinality(RecalculateDocument(finding, acts).document) <= Cardinality(acts)
<1> DEFINE S == Contributing(acts)
           T == {GetSelectedAdvisory(x) : x \in S}
           g == [x \in S |-> GetSelectedAdvisory(x)]
<1>1. /\ RecalculateDocument(finding, acts).eventCount = Cardinality(acts)
      /\ RecalculateDocument(finding, acts).document = T
  BY DEF RecalculateDocument, Finding
<1>2. IsFiniteSet(S) /\ Cardinality(S) <= Cardinality(acts)
  BY FS_Subset DEF Contributing
<1>3. g \in Surjection(S, T)
  BY DEF Surjection
<1>4. IsFiniteSet(T) /\ Cardinality(T) <= Cardinality(S)
  <2> HIDE DEF S, T, g
  <2> QED BY <1>2, <1>3, FS_Surjection
<1>5. Cardinality(T) \in Nat /\ Cardinality(S) \in Nat /\ Cardinality(acts) \in Nat
  BY <1>2, <1>4, FS_CardinalityType
<1> HIDE DEF S, T
<1> QED BY <1>1, <1>2, <1>4, <1>5

(* RecalculateDocument sets two fields from the actions, and no other. *)
LEMMA RecalculateDocumentFields ==
  ASSUME NEW finding \in Finding, NEW acts
  PROVE  /\ RecalculateDocument(finding, acts).id = finding.id
         /\ RecalculateDocument(finding, acts).status = finding.status
         /\ RecalculateDocument(finding, acts).role = finding.role
         /\ RecalculateDocument(RecalculateDocument(finding, acts), acts) =
              RecalculateDocument(finding, acts)
         /\ \A status \in Statuses :
              RecalculateDocument(finding, acts) = finding =>
                RecalculateDocument([finding EXCEPT !.status = status], acts) =
                  [finding EXCEPT !.status = status]
BY DEF RecalculateDocument, Finding

=============================================================================
