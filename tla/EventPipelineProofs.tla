------------------------ MODULE EventPipelineProofs ------------------------
(***************************************************************************)
(* Safety of EventPipeline for any number of overlapping handlers, findings, *)
(* actions, roles and advisory templates, with failures.                   *)
(***************************************************************************)
EXTENDS EventPipeline, FindingsProofs

(* Two versions of an action: an edit changes only its switches. *)
SameOrigin(x, y) == x.finding = y.finding /\ x.role = y.role /\ x.advice = y.advice

(* The tables: records are stored under their ids. *)
TablesOK ==
  /\ \A a \in Stored(actions) : actions[a].id = a /\ WellSelected(actions[a])
  /\ \A f \in Stored(findings) : findings[f].id = f

(* An action about to be added has an id of its own, and is of the finding *)
(* and the role of the handler.                                            *)
AddsOK ==
  \A r \in Requests : req[r].pc = "add" =>
    /\ actions[req[r].action.id] = None
    /\ req[r].action.finding = req[r].finding.id
    /\ req[r].action.role = req[r].finding.role
    /\ WellSelected(req[r].action)
    /\ \A s \in Requests : req[s].pc = "add" /\ req[s].action.id = req[r].action.id => s = r

(* An action about to be written back is a version of the stored one. *)
EditsOK ==
  \A r \in Requests : req[r].pc \in {"get", "update"} =>
    /\ actions[req[r].action.id] # None
    /\ SameOrigin(actions[req[r].action.id], req[r].action)
    /\ WellSelected(req[r].action)

(* All that refers to one finding id agrees on its role. *)
RolesAgree ==
  \A r \in Requests : HoldsFinding(r) =>
    LET f == req[r].finding.id
        role == req[r].finding.role
    IN  /\ findings[f] # None => findings[f].role = role
        /\ \A a \in Stored(actions) : actions[a].finding = f => actions[a].role = role
        /\ \A s \in Requests : HoldsFinding(s) /\ req[s].finding.id = f =>
                               req[s].finding.role = role

(* The copies that handlers hold grant only what they may. *)
CopiesGrounded == \A r \in Requests : HoldsFinding(r) => GrantsOnly(req[r].finding)

(* The inductive invariant. *)
IInv ==
  /\ TypeOK
  /\ TablesOK
  /\ AddsOK
  /\ EditsOK
  /\ OwnerHasTheRole
  /\ RolesAgree
  /\ DocumentGrounded
  /\ CopiesGrounded

-----------------------------------------------------------------------------
(* The fields a handler has at each storage call. *)
LEMMA HandlerFields ==
  ASSUME TypeOK, NEW r \in Requests
  PROVE  /\ req[r].pc \in {"idle", "add", "get", "update", "list", "save"}
         /\ req[r].pc \in {"add", "update", "list", "save"} => req[r].finding \in Finding
         /\ req[r].pc \in {"add", "get", "update"} => req[r].action \in Action
         /\ req[r].pc = "get" => req[r].body \in EditBody
         /\ req[r].pc = "list" => req[r].kind \in {"analyse", "edit"}
<1>1. req[r] \in RequestState
  BY DEF TypeOK
<1> QED BY <1>1 DEF RequestState, Idle

(* The first states of a handler that a step of its own leaves it in are   *)
(* well formed.                                                            *)
LEMMA HandlerStates ==
  ASSUME NEW finding \in Finding, NEW action \in Action, NEW body \in EditBody,
         NEW kind \in {"analyse", "edit", "status"}
  PROVE  /\ Idle \in RequestState
         /\ [pc |-> "add", kind |-> "analyse", finding |-> finding, action |-> action]
              \in RequestState
         /\ [pc |-> "get", kind |-> "edit", action |-> action, body |-> body] \in RequestState
         /\ [pc |-> "update", kind |-> "edit", finding |-> finding, action |-> action]
              \in RequestState
         /\ kind # "status" => [pc |-> "list", kind |-> kind, finding |-> finding]
                                 \in RequestState
         /\ [pc |-> "save", kind |-> kind, finding |-> finding] \in RequestState
BY DEF RequestState

(* A finding that claims the id f and a role, against all that refers to f. *)
RoleFits(r, finding) ==
  /\ findings[finding.id] # None => findings[finding.id].role = finding.role
  /\ \A a \in Stored(actions) :
       actions[a].finding = finding.id => actions[a].role = finding.role
  /\ \A s \in Requests \ {r} :
       HoldsFinding(s) /\ req[s].finding.id = finding.id => req[s].finding.role = finding.role

(* A step that changes only what one handler is about to do. *)
LEMMA HandlerStep ==
  ASSUME IInv, NEW r \in Requests, NEW st \in RequestState,
         req' = [req EXCEPT ![r] = st],
         UNCHANGED <<findings, actions>>,
         st.pc = "add" =>
           /\ actions[st.action.id] = None
           /\ st.action.finding = st.finding.id
           /\ st.action.role = st.finding.role
           /\ WellSelected(st.action)
           /\ \A s \in Requests \ {r} : req[s].pc = "add" => req[s].action.id # st.action.id,
         st.pc \in {"get", "update"} =>
           /\ actions[st.action.id] # None
           /\ SameOrigin(actions[st.action.id], st.action)
           /\ WellSelected(st.action),
         st.pc \in {"add", "update", "list", "save"} =>
           GrantsOnly(st.finding) /\ RoleFits(r, st.finding)
  PROVE  IInv'
<1>1. req'[r] = st /\ \A s \in Requests \ {r} : req'[s] = req[s]
  BY DEF IInv, TypeOK
<1>2. findings' = findings /\ actions' = actions
  OBVIOUS
<1>3. TypeOK'
  BY DEF IInv, TypeOK
<1>4. TablesOK' /\ OwnerHasTheRole' /\ DocumentGrounded'
  BY <1>2 DEF IInv, TablesOK, OwnerHasTheRole, DocumentGrounded, GrantsOnly, Stored
<1>5. AddsOK'
  BY <1>1, <1>2 DEF IInv, AddsOK
<1>6. EditsOK'
  BY <1>1, <1>2 DEF IInv, EditsOK
<1>7. RolesAgree'
  BY <1>1, <1>2 DEF IInv, RolesAgree, RoleFits, HoldsFinding, Stored
<1>8. CopiesGrounded'
  BY <1>1, <1>2 DEF IInv, CopiesGrounded, HoldsFinding, GrantsOnly
<1> QED BY <1>3, <1>4, <1>5, <1>6, <1>7, <1>8 DEF IInv

-----------------------------------------------------------------------------
(* Each action preserves the invariant. *)

(* A finding that is stored fits, and its document is grounded. *)
LEMMA StoredFindingFits ==
  ASSUME IInv, NEW r \in Requests, NEW f \in FindingIds, findings[f] # None
  PROVE  /\ findings[f] \in Finding
         /\ findings[f].id = f
         /\ GrantsOnly(findings[f])
         /\ RoleFits(r, findings[f])
<1>1. findings[f] \in Finding /\ findings[f].id = f /\ f \in Stored(findings)
  BY DEF IInv, TypeOK, FindingTable, TablesOK, Stored
<1>2. GrantsOnly(findings[f])
  BY <1>1 DEF IInv, DocumentGrounded
<1>3. \A a \in Stored(actions) : actions[a].finding = f => actions[a].role = findings[f].role
  BY <1>1 DEF IInv, OwnerHasTheRole
<1>4. \A s \in Requests : HoldsFinding(s) /\ req[s].finding.id = f =>
                            req[s].finding.role = findings[f].role
  BY <1>1 DEF IInv, RolesAgree
<1> QED BY <1>1, <1>2, <1>3, <1>4 DEF RoleFits

(* The finding that AnalyseEvent works on, found or new. *)
LEMMA HolderFits ==
  ASSUME IInv, NEW r \in Requests, NEW role \in Roles, NEW holder \in Holders(role)
  PROVE  /\ holder \in Finding
         /\ holder.role = role
         /\ GrantsOnly(holder)
         /\ RoleFits(r, holder)
<1> DEFINE found == FindByRole(findings, role, "active")
<1>1. CASE found # None
  <2>1. holder = found
    BY <1>1 DEF Holders
  <2>2. PICK f \in Matching(findings, role, "active") : found = findings[f]
    BY <1>1, FindByRoleMatches DEF IInv, TypeOK
  <2>3. f \in FindingIds /\ findings[f] # None /\ findings[f].role = role
    BY <2>2 DEF Matching
  <2> HIDE DEF found
  <2> QED BY <2>1, <2>2, <2>3, StoredFindingFits
<1>2. CASE found = None
  <2>1. PICK f \in FreshFindingIds : holder = NewFinding(f, role)
    BY <1>2 DEF Holders
  <2>2. f \in FindingIds
    BY DEF FreshFindingIds
  <2>3. holder \in Finding
    BY <2>1, <2>2, NewFindingType
  <2>4. holder.id = f /\ holder.role = role /\ holder.document = {}
    BY <2>1 DEF NewFinding
  <2>5. GrantsOnly(holder)
    BY <2>4 DEF GrantsOnly
  <2>6. RoleFits(r, holder)
    BY <2>4 DEF RoleFits, FreshFindingIds
  <2> QED BY <2>3, <2>4, <2>5, <2>6
<1> QED BY <1>1, <1>2

(* An event reads the active finding of its role, or makes one. *)
LEMMA AnalyseStep ==
  ASSUME IInv, NEW r \in Requests, NEW role \in Roles, NEW n \in AdviceCounts,
         Analyse(r, role, n)
  PROVE  IInv'
<1>1. PICK holder \in Holders(role), a \in FreshActionIds :
        req' = [req EXCEPT ![r] = [pc |-> "add", kind |-> "analyse", finding |-> holder,
                                   action |-> NewAction(a, holder.id, role, n)]]
  BY DEF Analyse
<1> DEFINE action == NewAction(a, holder.id, role, n)
           st == [pc |-> "add", kind |-> "analyse", finding |-> holder, action |-> action]
<1>2. holder \in Finding /\ holder.role = role /\ GrantsOnly(holder) /\ RoleFits(r, holder)
  BY HolderFits
<1>3. a \in ActionIds /\ actions[a] = None
      /\ \A s \in Requests : req[s].pc = "add" => req[s].action.id # a
  BY DEF FreshActionIds
<1>4. holder.id \in FindingIds
  BY <1>2 DEF Finding
<1>5. action \in Action /\ WellSelected(action)
  BY <1>3, <1>4, NewActionType, NewActionWellSelected
<1>6. action.id = a /\ action.finding = holder.id /\ action.role = role
  BY DEF NewAction
<1> HIDE DEF action
<1>7. st \in RequestState
  BY <1>2, <1>5 DEF RequestState
<1>8. /\ st.pc = "add" /\ st.finding = holder /\ st.action = action
  OBVIOUS
<1>9. req' = [req EXCEPT ![r] = st] /\ UNCHANGED <<findings, actions>>
  BY <1>1 DEF Analyse, action
<1> HIDE DEF st
<1> QED BY <1>2, <1>3, <1>5, <1>6, <1>7, <1>8, <1>9, HandlerStep

(* An edit reads its action. *)
LEMMA EditStep ==
  ASSUME IInv, NEW r \in Requests, NEW a \in ActionIds, NEW body \in EditBody,
         Edit(r, a, body)
  PROVE  IInv'
<1> DEFINE st == [pc |-> "get", kind |-> "edit", action |-> actions[a], body |-> body]
<1>1. actions[a] \in Action /\ a \in Stored(actions)
  BY DEF Edit, IInv, TypeOK, ActionTable, Stored
<1>2. actions[a].id = a /\ WellSelected(actions[a])
  BY <1>1 DEF IInv, TablesOK
<1>3. st \in RequestState
  BY <1>1 DEF RequestState
<1>4. st.pc = "get" /\ st.action = actions[a] /\ actions[a] # None
  BY DEF Edit
<1>5. req' = [req EXCEPT ![r] = st] /\ UNCHANGED <<findings, actions>>
  BY DEF Edit
<1> HIDE DEF st
<1> QED BY <1>2, <1>3, <1>4, <1>5, HandlerStep DEF SameOrigin

(* A status is set on a copy of the finding. *)
LEMMA SetStatusStep ==
  ASSUME IInv, NEW r \in Requests, NEW f \in FindingIds, NEW status \in Statuses,
         SetStatus(r, f, status)
  PROVE  IInv'
<1> DEFINE copy == [findings[f] EXCEPT !.status = status]
           st == [pc |-> "save", kind |-> "status", finding |-> copy]
<1>1. findings[f] \in Finding /\ GrantsOnly(findings[f]) /\ RoleFits(r, findings[f])
  BY StoredFindingFits DEF SetStatus
<1>2. /\ copy \in Finding /\ copy.id = findings[f].id /\ copy.role = findings[f].role
      /\ copy.document = findings[f].document
  BY <1>1 DEF Finding
<1>3. GrantsOnly(copy) /\ RoleFits(r, copy)
  BY <1>1, <1>2 DEF GrantsOnly, RoleFits
<1>4. st \in RequestState
  BY <1>2 DEF RequestState
<1>5. st.pc = "save" /\ st.finding = copy
  OBVIOUS
<1>6. req' = [req EXCEPT ![r] = st] /\ UNCHANGED <<findings, actions>>
  BY DEF SetStatus
<1> HIDE DEF st, copy
<1> QED BY <1>3, <1>4, <1>5, <1>6, HandlerStep

(* A handler that ends or fails writes nothing more. *)
LEMMA IdleStep ==
  ASSUME IInv, NEW r \in Requests, req' = [req EXCEPT ![r] = Idle],
         UNCHANGED <<findings, actions>>
  PROVE  IInv'
<1>1. Idle \in RequestState /\ Idle.pc = "idle"
  BY DEF RequestState, Idle
<1> QED BY <1>1, HandlerStep

(* An edit reads the finding of its action. *)
LEMMA GetOwnerStep ==
  ASSUME IInv, NEW r \in Requests, GetOwner(r)
  PROVE  IInv'
<1> DEFINE owner == findings[req[r].action.finding]
           edited == ApplyEdit(req[r].action, req[r].body)
           st == [pc |-> "update", kind |-> "edit", finding |-> owner, action |-> edited]
<1>1. /\ UNCHANGED <<findings, actions>> /\ req[r].pc = "get"
      /\ req' = [req EXCEPT ![r] = IF owner = None \/ edited = None THEN Idle ELSE st]
  BY DEF GetOwner
<1>2. CASE owner = None \/ edited = None
  BY <1>1, <1>2, IdleStep
<1>3. CASE owner # None /\ edited # None
  <2>1. req[r].action \in Action /\ req[r].body \in EditBody
    BY <1>1, HandlerFields DEF IInv
  <2>2. req[r].action.finding \in FindingIds
    BY <2>1 DEF Action
  <2>3. owner \in Finding /\ GrantsOnly(owner) /\ RoleFits(r, owner)
    BY <1>3, <2>2, StoredFindingFits
  <2>4. /\ actions[req[r].action.id] # None
        /\ SameOrigin(actions[req[r].action.id], req[r].action)
        /\ WellSelected(req[r].action)
    BY <1>1 DEF IInv, EditsOK
  <2>5. /\ edited \in Action
        /\ edited.id = req[r].action.id
        /\ SameOrigin(req[r].action, edited)
        /\ WellSelected(edited)
    BY <1>3, <2>1, <2>4, ApplyEditType DEF SameOrigin
  <2>6. req' = [req EXCEPT ![r] = st]
    BY <1>1, <1>3
  <2> HIDE DEF owner, edited
  <2>7. st \in RequestState /\ st.pc = "update" /\ st.finding = owner /\ st.action = edited
    BY <2>3, <2>5 DEF RequestState
  <2>8. SameOrigin(actions[edited.id], edited)
    BY <2>4, <2>5 DEF SameOrigin
  <2> HIDE DEF st
  <2> QED BY <1>1, <2>3, <2>4, <2>5, <2>6, <2>7, <2>8, HandlerStep
<1> QED BY <1>2, <1>3

(* The handler recalculates its copy from the actions as they are now. *)
LEMMA ListActionsStep ==
  ASSUME IInv, NEW r \in Requests, ListActions(r)
  PROVE  IInv'
<1> DEFINE finding == req[r].finding
           acts == ListForPolicy(actions, finding.id)
           updated == RecalculateDocument(finding, acts)
           st == [pc |-> "save", kind |-> req[r].kind, finding |-> updated]
<1>1. /\ UNCHANGED <<findings, actions>> /\ req[r].pc = "list"
      /\ req' = [req EXCEPT ![r] = st]
  BY DEF ListActions
<1>2. finding \in Finding /\ req[r].kind \in {"analyse", "edit"}
  BY <1>1, HandlerFields DEF IInv
<1>3. RoleFits(r, finding)
  BY <1>1 DEF IInv, RolesAgree, RoleFits, HoldsFinding
<1>4. \A x \in acts : /\ x \in Action /\ WellSelected(x)
                      /\ actions[x.id] = x /\ x.finding = finding.id /\ x # None
  <2>1. ASSUME NEW a \in ActionIds, actions[a] # None
        PROVE  actions[a] \in Action /\ actions[a].id = a /\ WellSelected(actions[a])
    BY <2>1 DEF IInv, TypeOK, ActionTable, TablesOK, Stored
  <2> HIDE DEF finding
  <2> QED BY <2>1 DEF ListForPolicy
<1>5. acts \in SUBSET Action /\ Cardinality(acts) \in Nat
  BY <1>4, ListForPolicyFinite DEF IInv, TypeOK
<1> HIDE DEF finding, acts
<1>6. /\ updated \in Finding /\ updated.id = finding.id /\ updated.role = finding.role
      /\ \A grant \in updated.document :
           \E x \in acts : /\ x.advice > 0
                           /\ grant = <<x.id, x.selected>>
                           /\ x.selected \in 1..x.advice
  BY <1>2, <1>4, <1>5, RecalculateDocumentType
<1> HIDE DEF updated
<1>7. GrantsOnly(updated)
  BY <1>4, <1>6 DEF GrantsOnly
<1>8. RoleFits(r, updated)
  BY <1>3, <1>6 DEF RoleFits
<1>9. st \in RequestState /\ st.pc = "save" /\ st.finding = updated
  BY <1>2, <1>6 DEF RequestState
<1> HIDE DEF st
<1> QED BY <1>1, <1>7, <1>8, <1>9, HandlerStep

(* The steps that write a record. *)

(* A grounded document stays so when no action is lost or changes origin. *)
LEMMA GrantsOnlyKept ==
  ASSUME TypeOK, TypeOK', NEW finding \in Finding, GrantsOnly(finding),
         \A a \in Stored(actions) : actions'[a] # None /\ SameOrigin(actions[a], actions'[a])
  PROVE  GrantsOnly(finding)'
<1>1. ASSUME NEW grant \in finding.document
      PROVE  /\ actions'[grant[1]] # None
             /\ actions'[grant[1]].finding = finding.id
             /\ grant[2] \in 1..actions'[grant[1]].advice
  <2>1. grant[1] \in ActionIds
    BY DEF Finding, Advisories
  <2>2. /\ actions[grant[1]] # None
        /\ actions[grant[1]].finding = finding.id
        /\ grant[2] \in 1..actions[grant[1]].advice
    BY <1>1 DEF GrantsOnly
  <2>3. grant[1] \in Stored(actions)
    BY <2>1, <2>2 DEF Stored, TypeOK, ActionTable
  <2> QED BY <2>2, <2>3 DEF SameOrigin
<1> QED BY <1>1 DEF GrantsOnly

(* Writing the handler's action, added or edited. *)
LEMMA ActionWrite ==
  ASSUME IInv, NEW r \in Requests, req[r].pc \in {"add", "update"},
         NEW kind \in {"analyse", "edit"},
         actions' = [actions EXCEPT ![req[r].action.id] = req[r].action],
         req' = [req EXCEPT ![r] = [pc |-> "list", kind |-> kind, finding |-> req[r].finding]],
         UNCHANGED findings,
         req[r].pc = "add" => actions[req[r].action.id] = None
  PROVE  IInv' /\ KeepsOrigin
<1> DEFINE action == req[r].action
           finding == req[r].finding
           st == [pc |-> "list", kind |-> kind, finding |-> finding]
<1>1. action \in Action /\ finding \in Finding /\ action.id \in ActionIds /\ action # None
  BY HandlerFields, NoneAssumption DEF IInv, Action
<1>2. st \in RequestState /\ st.pc = "list" /\ st.finding = finding
  BY <1>1 DEF RequestState
<1>3. /\ actions'[action.id] = action
      /\ \A a \in ActionIds \ {action.id} : actions'[a] = actions[a]
  BY <1>1 DEF IInv, TypeOK, ActionTable
<1>4. req'[r] = st /\ \A s \in Requests \ {r} : req'[s] = req[s]
  BY DEF IInv, TypeOK
<1>5. TypeOK'
  BY <1>1, <1>2 DEF IInv, TypeOK, ActionTable
<1>6. WellSelected(action)
  BY DEF IInv, AddsOK, EditsOK
<1>7. req[r].pc = "update" => SameOrigin(actions[action.id], action)
  BY DEF IInv, EditsOK
<1>8. Stored(actions) \subseteq ActionIds /\ Stored(actions') = Stored(actions) \cup {action.id}
  BY <1>1, <1>3, <1>5 DEF IInv, TypeOK, ActionTable, Stored
<1>9. \A a \in Stored(actions) : actions'[a] # None /\ SameOrigin(actions[a], actions'[a])
  BY <1>3, <1>7, <1>8, <1>1 DEF SameOrigin, Stored
<1>10. TablesOK'
  BY <1>3, <1>6, <1>8 DEF IInv, TablesOK
<1>11. AddsOK'
  <2> SUFFICES ASSUME NEW s \in Requests, req'[s].pc = "add"
               PROVE  /\ actions'[req'[s].action.id] = None
                      /\ req'[s].action.finding = req'[s].finding.id
                      /\ req'[s].action.role = req'[s].finding.role
                      /\ WellSelected(req'[s].action)
                      /\ \A t \in Requests :
                           req'[t].pc = "add" /\ req'[t].action.id = req'[s].action.id => t = s
    BY DEF AddsOK
  <2>1. s # r /\ req'[s] = req[s]
    BY <1>2, <1>4
  <2>2. req[s].action \in Action
    BY <2>1, HandlerFields DEF IInv
  <2>3. req[s].action.id # action.id
    BY <2>1 DEF IInv, AddsOK, EditsOK
  <2>4. actions'[req[s].action.id] = actions[req[s].action.id]
    BY <1>3, <2>2, <2>3 DEF Action
  <2> HIDE DEF action, st
  <2> QED BY <1>2, <1>4, <2>1, <2>4 DEF IInv, AddsOK
<1>12. EditsOK'
  <2> SUFFICES ASSUME NEW s \in Requests, req'[s].pc \in {"get", "update"}
               PROVE  /\ actions'[req'[s].action.id] # None
                      /\ SameOrigin(actions'[req'[s].action.id], req'[s].action)
                      /\ WellSelected(req'[s].action)
    BY DEF EditsOK
  <2>1. s # r /\ req'[s] = req[s]
    BY <1>2, <1>4
  <2>2. req[s].action \in Action /\ req[s].action.id \in ActionIds
    BY <2>1, HandlerFields DEF IInv, Action
  <2>3. /\ actions[req[s].action.id] # None
        /\ SameOrigin(actions[req[s].action.id], req[s].action)
        /\ WellSelected(req[s].action)
    BY <2>1 DEF IInv, EditsOK
  <2>4. req[s].action.id \in Stored(actions)
    BY <2>2, <2>3 DEF Stored, IInv, TypeOK, ActionTable
  <2> QED BY <1>9, <2>1, <2>3, <2>4 DEF SameOrigin
<1>13. findings' = findings
  OBVIOUS
<1>14. actions'[action.id].finding = action.finding /\ actions'[action.id].role = action.role
  BY <1>3
<1>15. HoldsFinding(r) /\ (req[r].pc = "add" => action.finding = finding.id
                                               /\ action.role = finding.role)
  BY DEF HoldsFinding, IInv, AddsOK
<1>16. \A a \in Stored(actions') :
         \/ a \in Stored(actions) /\ SameOrigin(actions[a], actions'[a])
         \/ actions'[a].finding = finding.id /\ actions'[a].role = finding.role
  BY <1>8, <1>9, <1>14, <1>15, <1>7, <1>3 DEF IInv, EditsOK, Stored, TypeOK, ActionTable
<1>17. OwnerHasTheRole'
  <2>1. findings[finding.id] # None => findings[finding.id].role = finding.role
    BY <1>15 DEF IInv, RolesAgree
  <2> HIDE DEF finding
  <2> QED BY <1>16, <1>13, <2>1 DEF IInv, OwnerHasTheRole, SameOrigin
<1>18. RolesAgree'
  <2> SUFFICES ASSUME NEW s \in Requests, HoldsFinding(s)'
               PROVE  LET f == req'[s].finding.id
                          role == req'[s].finding.role
                      IN  /\ findings[f] # None => findings[f].role = role
                          /\ \A a \in Stored(actions') :
                               actions'[a].finding = f => actions'[a].role = role
                          /\ \A t \in Requests : HoldsFinding(t)' /\ req'[t].finding.id = f =>
                                                 req'[t].finding.role = role
    BY <1>13 DEF RolesAgree
  <2>1. \A t \in Requests : /\ req'[t].finding = req[t].finding
                            /\ HoldsFinding(t)' => HoldsFinding(t)
    BY <1>2, <1>4, <1>15 DEF HoldsFinding
  <2>2. HoldsFinding(s)
    BY <2>1
  <2>3. \A a \in Stored(actions) : actions[a].finding = req[s].finding.id
                                     => actions[a].role = req[s].finding.role
    BY <2>2 DEF IInv, RolesAgree
  <2>4. finding.id = req[s].finding.id => finding.role = req[s].finding.role
    BY <2>2, <1>15 DEF IInv, RolesAgree
  <2>5. \A a \in Stored(actions') : actions'[a].finding = req[s].finding.id
                                      => actions'[a].role = req[s].finding.role
    <3> HIDE DEF finding
    <3> QED BY <1>16, <2>3, <2>4 DEF SameOrigin
  <2>6. /\ findings[req[s].finding.id] # None =>
             findings[req[s].finding.id].role = req[s].finding.role
        /\ \A t \in Requests : HoldsFinding(t) /\ req[t].finding.id = req[s].finding.id =>
                               req[t].finding.role = req[s].finding.role
    BY <2>2 DEF IInv, RolesAgree
  <2>7. req'[s].finding = req[s].finding
    BY <2>1
  <2>8. \A t \in Requests : HoldsFinding(t)' /\ req'[t].finding.id = req[s].finding.id =>
                            req'[t].finding.role = req[s].finding.role
    BY <2>1, <2>6
  <2> QED BY <2>5, <2>6, <2>7, <2>8
<1>19. DocumentGrounded'
  <2> SUFFICES ASSUME NEW f \in Stored(findings)
               PROVE  GrantsOnly(findings[f])'
    BY <1>13 DEF DocumentGrounded, Stored
  <2>1. findings[f] \in Finding /\ GrantsOnly(findings[f])
    BY DEF IInv, DocumentGrounded, Stored, TypeOK, FindingTable
  <2>2. PICK copy \in Finding : copy = findings[f] /\ GrantsOnly(copy)
    BY <2>1
  <2>3. GrantsOnly(copy)'
    BY <1>5, <1>9, <2>2, GrantsOnlyKept DEF IInv
  <2> QED BY <2>2, <2>3, <1>13 DEF GrantsOnly
<1>20. CopiesGrounded'
  <2> SUFFICES ASSUME NEW s \in Requests, HoldsFinding(s)'
               PROVE  GrantsOnly(req[s].finding)'
    BY DEF CopiesGrounded
  <2>1. req'[s].finding = req[s].finding /\ HoldsFinding(s)
    BY <1>2, <1>4, <1>15 DEF HoldsFinding
  <2>2. req[s].finding \in Finding /\ GrantsOnly(req[s].finding)
    BY <2>1, HandlerFields DEF IInv, CopiesGrounded, HoldsFinding
  <2>3. PICK copy \in Finding : copy = req[s].finding /\ GrantsOnly(copy)
    BY <2>2
  <2>4. GrantsOnly(copy)'
    BY <1>5, <1>9, <2>3, GrantsOnlyKept DEF IInv
  <2> QED BY <2>1, <2>3, <2>4 DEF GrantsOnly
<1>21. KeepsOrigin
  BY <1>9, <1>13 DEF KeepsOrigin, SameOrigin, Stored
<1> QED BY <1>5, <1>10, <1>11, <1>12, <1>17, <1>18, <1>19, <1>20, <1>21 DEF IInv

(* A new action is stored under an unused id, for the finding at hand. *)
LEMMA AddActionStep ==
  ASSUME IInv, NEW r \in Requests, AddAction(r)
  PROVE  IInv' /\ KeepsOrigin
<1>1. actions[req[r].action.id] = None
  BY DEF AddAction, IInv, AddsOK
<1> QED BY <1>1, ActionWrite DEF AddAction

(* An edited action overwrites the stored one, whose origin it keeps. *)
LEMMA UpdateActionStep ==
  ASSUME IInv, NEW r \in Requests, UpdateAction(r)
  PROVE  IInv' /\ KeepsOrigin
BY ActionWrite DEF UpdateAction

(* A finding overwrites the stored one, whatever others wrote since. *)
LEMMA SaveFindingStep ==
  ASSUME IInv, NEW r \in Requests, SaveFinding(r)
  PROVE  IInv' /\ KeepsOrigin
<1> DEFINE finding == req[r].finding
<1>1. finding \in Finding /\ finding.id \in FindingIds /\ finding # None /\ HoldsFinding(r)
  BY HandlerFields, NoneAssumption DEF SaveFinding, IInv, Finding, HoldsFinding
<1>2. /\ findings'[finding.id] = finding
      /\ \A f \in FindingIds \ {finding.id} : findings'[f] = findings[f]
      /\ actions' = actions
  BY <1>1 DEF SaveFinding, IInv, TypeOK, FindingTable
<1>3. req'[r] = Idle /\ \A s \in Requests \ {r} : req'[s] = req[s]
  BY DEF SaveFinding, IInv, TypeOK
<1>4. Idle \in RequestState /\ Idle.pc = "idle"
  BY DEF RequestState, Idle
<1>5. TypeOK'
  BY <1>1, <1>4 DEF SaveFinding, IInv, TypeOK, FindingTable
<1>6. /\ Stored(findings) \subseteq FindingIds
      /\ Stored(findings') = Stored(findings) \cup {finding.id}
  BY <1>1, <1>2, <1>5 DEF IInv, TypeOK, FindingTable, Stored
<1>7. /\ GrantsOnly(finding)
      /\ findings[finding.id] # None => findings[finding.id].role = finding.role
      /\ \A a \in Stored(actions) : actions[a].finding = finding.id
                                      => actions[a].role = finding.role
      /\ \A s \in Requests : HoldsFinding(s) /\ req[s].finding.id = finding.id =>
                             req[s].finding.role = finding.role
  BY <1>1 DEF IInv, CopiesGrounded, RolesAgree
<1>8. TablesOK'
  BY <1>2, <1>6 DEF IInv, TablesOK, Stored
<1>9. AddsOK' /\ EditsOK'
  BY <1>2, <1>3, <1>4 DEF IInv, AddsOK, EditsOK
<1> HIDE DEF finding
<1>10. OwnerHasTheRole'
  <2> SUFFICES ASSUME NEW a \in Stored(actions), findings'[actions[a].finding] # None
               PROVE  findings'[actions[a].finding].role = actions[a].role
    BY <1>2 DEF OwnerHasTheRole, Stored
  <2>1. actions[a].finding \in FindingIds
    BY DEF Stored, IInv, TypeOK, ActionTable, Action
  <2> QED BY <1>2, <1>7, <2>1 DEF IInv, OwnerHasTheRole
<1>11. RolesAgree'
  <2> SUFFICES ASSUME NEW s \in Requests, HoldsFinding(s)'
               PROVE  LET f == req'[s].finding.id
                          role == req'[s].finding.role
                      IN  /\ findings'[f] # None => findings'[f].role = role
                          /\ \A a \in Stored(actions) :
                               actions[a].finding = f => actions[a].role = role
                          /\ \A t \in Requests : HoldsFinding(t)' /\ req'[t].finding.id = f =>
                                                 req'[t].finding.role = role
    BY <1>2 DEF RolesAgree, Stored
  <2>1. \A t \in Requests : HoldsFinding(t)' => HoldsFinding(t) /\ req'[t] = req[t]
    BY <1>3, <1>4 DEF HoldsFinding
  <2>2. HoldsFinding(s) /\ req'[s] = req[s]
    BY <2>1
  <2>3. req[s].finding.id \in FindingIds
    BY <2>2, HandlerFields DEF IInv, HoldsFinding, Finding
  <2>4. /\ findings[req[s].finding.id] # None =>
             findings[req[s].finding.id].role = req[s].finding.role
        /\ \A a \in Stored(actions) : actions[a].finding = req[s].finding.id
                                        => actions[a].role = req[s].finding.role
        /\ \A t \in Requests : HoldsFinding(t) /\ req[t].finding.id = req[s].finding.id =>
                               req[t].finding.role = req[s].finding.role
    BY <2>2 DEF IInv, RolesAgree
  <2>5. findings'[req[s].finding.id] # None =>
          findings'[req[s].finding.id].role = req[s].finding.role
    BY <1>2, <1>7, <2>2, <2>3, <2>4
  <2>6. \A t \in Requests : HoldsFinding(t)' /\ req'[t].finding.id = req[s].finding.id =>
                            req'[t].finding.role = req[s].finding.role
    BY <2>1, <2>4
  <2> QED BY <2>2, <2>4, <2>5, <2>6
<1>12. DocumentGrounded'
  <2> SUFFICES ASSUME NEW f \in Stored(findings')
               PROVE  GrantsOnly(findings[f])'
    BY DEF DocumentGrounded
  <2>1. GrantsOnly(findings'[f])
    BY <1>2, <1>6, <1>7 DEF IInv, DocumentGrounded
  <2> QED BY <1>2, <2>1 DEF GrantsOnly
<1>13. CopiesGrounded'
  BY <1>2, <1>3, <1>4 DEF IInv, CopiesGrounded, HoldsFinding, GrantsOnly
<1>14. KeepsOrigin
  BY <1>2, <1>6, <1>7 DEF KeepsOrigin, Stored
<1> QED BY <1>5, <1>8, <1>9, <1>10, <1>11, <1>12, <1>13, <1>14 DEF IInv

-----------------------------------------------------------------------------
(* Empty tables and idle handlers satisfy the invariant. *)
LEMMA InitIInv == Init => IInv
<1> SUFFICES ASSUME Init PROVE IInv
  OBVIOUS
<1>1. \A r \in Requests : req[r].pc = "idle"
  BY DEF Init, Idle
<1>2. Stored(findings) = {} /\ Stored(actions) = {}
  BY DEF Init, Stored
<1>3. TypeOK
  BY DEF Init, TypeOK, FindingTable, ActionTable, RequestState
<1> QED BY <1>1, <1>2, <1>3 DEF IInv, TablesOK, AddsOK, EditsOK, OwnerHasTheRole, RolesAgree,
        DocumentGrounded, CopiesGrounded, HoldsFinding

(* Every step keeps the invariant, and the origin of the actions. *)
LEMMA NextIInv == IInv /\ [Next]_vars => IInv' /\ (KeepsOrigin \/ UNCHANGED vars)
<1> SUFFICES ASSUME IInv, [Next]_vars
             PROVE  IInv' /\ (KeepsOrigin \/ UNCHANGED vars)
  OBVIOUS
<1>1. UNCHANGED <<findings, actions>> => KeepsOrigin
  BY DEF KeepsOrigin, Stored
<1>2. ASSUME NEW r \in Requests, NEW role \in Roles, NEW n \in AdviceCounts, Analyse(r, role, n)
      PROVE  IInv' /\ KeepsOrigin
  BY <1>1, <1>2, AnalyseStep DEF Analyse
<1>3. ASSUME NEW r \in Requests, NEW a \in ActionIds, NEW body \in EditBody, Edit(r, a, body)
      PROVE  IInv' /\ KeepsOrigin
  BY <1>1, <1>3, EditStep DEF Edit
<1>4. ASSUME NEW r \in Requests, NEW f \in FindingIds, NEW status \in Statuses,
             SetStatus(r, f, status)
      PROVE  IInv' /\ KeepsOrigin
  BY <1>1, <1>4, SetStatusStep DEF SetStatus
<1>5. ASSUME NEW r \in Requests, AddAction(r)
      PROVE  IInv' /\ KeepsOrigin
  BY <1>5, AddActionStep
<1>6. ASSUME NEW r \in Requests, GetOwner(r)
      PROVE  IInv' /\ KeepsOrigin
  BY <1>1, <1>6, GetOwnerStep DEF GetOwner
<1>7. ASSUME NEW r \in Requests, UpdateAction(r)
      PROVE  IInv' /\ KeepsOrigin
  BY <1>7, UpdateActionStep
<1>8. ASSUME NEW r \in Requests, ListActions(r)
      PROVE  IInv' /\ KeepsOrigin
  BY <1>1, <1>8, ListActionsStep DEF ListActions
<1>9. ASSUME NEW r \in Requests, SaveFinding(r)
      PROVE  IInv' /\ KeepsOrigin
  BY <1>9, SaveFindingStep
<1>10. ASSUME NEW r \in Requests, Fail(r)
       PROVE  IInv' /\ KeepsOrigin
  BY <1>1, <1>10, IdleStep DEF Fail
<1>11. CASE UNCHANGED vars
  BY <1>11 DEF vars, IInv, TypeOK, TablesOK, AddsOK, EditsOK, OwnerHasTheRole, RolesAgree,
     DocumentGrounded, CopiesGrounded, HoldsFinding, GrantsOnly, Stored
<1> QED
  BY <1>2, <1>3, <1>4, <1>5, <1>6, <1>7, <1>8, <1>9, <1>10, <1>11 DEF Next, Receive, Step

(* With any number of overlapping handlers and any failures the tables and  *)
(* the copies that handlers hold keep the inductive invariant.              *)
THEOREM Invariance == Spec => []IInv
<1> QED BY InitIInv, NextIInv, PTL DEF Spec

(* Every variable has its type, which for the handlers' copies includes    *)
(* that RecalculateDocument never put a nil advisory into a document.      *)
THEOREM TypeCorrect == Spec => []TypeOK
<1>1. IInv => TypeOK
  BY DEF IInv
<1> QED BY <1>1, Invariance, PTL

(* In the invariant every stored action selects one of its advisories.     *)
LEMMA NilAdvisoryNever == IInv => NoNilAdvisory
<1> SUFFICES ASSUME IInv, NEW a \in Stored(actions), actions[a].advice > 0
             PROVE  GetSelectedAdvisory(actions[a]) # None
  BY DEF NoNilAdvisory
<1>1. actions[a] \in Action /\ actions[a].selected \in 1..actions[a].advice
  BY DEF IInv, TypeOK, ActionTable, TablesOK, Stored, WellSelected
<1>2. <<actions[a].id, actions[a].selected>> \in Advisories
  BY <1>1, AdviceAssumption DEF Action, Advisories
<1> QED BY <1>1, <1>2, NoneAssumption DEF GetSelectedAdvisory

(* AnalyseEvent and EditAction never store an action on which              *)
(* RecalculateDocument would dereference nil.                              *)
THEOREM NoNilAdvisoryStored == Spec => []NoNilAdvisory
<1> QED BY NilAdvisoryNever, Invariance, PTL

(* A stored policy grants only what recorded actions of its own finding    *)
(* were advised, whatever handlers overlap and wherever they fail.         *)
THEOREM PoliciesGrounded == Spec => []DocumentGrounded
<1>1. IInv => DocumentGrounded
  BY DEF IInv
<1> QED BY <1>1, Invariance, PTL

(* Actions and the findings they refer to agree on the role. *)
THEOREM OwnersAgree == Spec => []OwnerHasTheRole
<1>1. IInv => OwnerHasTheRole
  BY DEF IInv
<1> QED BY <1>1, Invariance, PTL

(* No handler writes back a copy that loses a record or moves it elsewhere. *)
THEOREM OriginsKept == Spec => OriginKept
<1>1. IInv /\ [Next]_vars => [KeepsOrigin]_vars
  BY NextIInv DEF vars
<1> QED BY <1>1, Invariance, PTL DEF Spec, OriginKept

-----------------------------------------------------------------------------
(* Event counts, with the handlers' copies. *)

Counted(finding) ==
  /\ finding.eventCount <= Cardinality(ListForPolicy(actions, finding.id))
  /\ Cardinality(finding.document) <= finding.eventCount

(* No stored finding counts more actions than it has. *)
StoredCounted == \A f \in Stored(findings) : Counted(findings[f])

(* Nor does a copy that a handler holds. *)
CopiesCounted == \A r \in Requests : HoldsFinding(r) => Counted(req[r].finding)

(* No finding, stored or held, counts more actions than it has. *)
CountInv == StoredCounted /\ CopiesCounted

(* The actions of a finding never become fewer, so a count stays reached. *)
LEMMA CountedKept ==
  ASSUME IInv, IInv', KeepsOrigin, NEW finding \in Finding, Counted(finding)
  PROVE  Counted(finding)'
<1>1. /\ actions \in ActionTable /\ actions' \in ActionTable
      /\ KeepsIds(actions) /\ KeepsIds(actions')
  BY DEF IInv, TypeOK, TablesOK, KeepsIds, Stored, ActionTable
<1>2. \A a \in ActionIds : actions[a] # None =>
        actions'[a] # None /\ actions'[a].finding = actions[a].finding
  BY <1>1 DEF KeepsOrigin, Stored, ActionTable
<1> DEFINE before == Cardinality(ListForPolicy(actions, finding.id))
           after  == Cardinality(ListForPolicy(actions', finding.id))
<1>3. before <= after
  BY <1>1, <1>2, ListForPolicyGrows
<1>4. before \in Nat /\ after \in Nat /\ finding.eventCount \in Nat
  BY <1>1, ListForPolicyFinite DEF Finding
<1>5. finding.eventCount <= before /\ Cardinality(finding.document) <= finding.eventCount
  BY DEF Counted
<1>6. finding.eventCount <= after
  <2> HIDE DEF before, after
  <2> QED BY <1>3, <1>4, <1>5
<1> QED BY <1>5, <1>6 DEF Counted

(* A new finding counts no action and grants nothing. *)
LEMMA NewFindingCounted ==
  ASSUME IInv, NEW f \in FindingIds, NEW role \in Roles
  PROVE  Counted(NewFinding(f, role))
<1>1. Cardinality(ListForPolicy(actions, f)) \in Nat
  BY ListForPolicyFinite DEF IInv, TypeOK
<1>2. Cardinality({}) = 0
  BY FS_EmptySet
<1> QED BY <1>1, <1>2 DEF Counted, NewFinding

(* The finding AnalyseEvent works on. *)
LEMMA HolderCounted ==
  ASSUME IInv, StoredCounted, NEW role \in Roles, NEW holder \in Holders(role)
  PROVE  Counted(holder)
<1> DEFINE found == FindByRole(findings, role, "active")
<1>1. CASE found # None
  <2>1. holder = found
    BY <1>1 DEF Holders
  <2>2. PICK f \in Matching(findings, role, "active") : found = findings[f]
    BY <1>1, FindByRoleMatches DEF IInv, TypeOK
  <2>3. f \in Stored(findings)
    BY <2>2 DEF Matching, Stored, IInv, TypeOK, FindingTable
  <2> HIDE DEF found
  <2> QED BY <2>1, <2>2, <2>3 DEF StoredCounted
<1>2. CASE found = None
  <2>1. PICK f \in FreshFindingIds : holder = NewFinding(f, role)
    BY <1>2 DEF Holders
  <2> QED BY <2>1, NewFindingCounted DEF FreshFindingIds
<1> QED BY <1>1, <1>2

(* What RecalculateDocument counts is what is recorded. *)
LEMMA RecalculatedCounted ==
  ASSUME IInv, NEW finding \in Finding
  PROVE  Counted(RecalculateDocument(finding, ListForPolicy(actions, finding.id)))
<1> DEFINE acts == ListForPolicy(actions, finding.id)
           updated == RecalculateDocument(finding, acts)
<1>1. IsFiniteSet(acts) /\ Cardinality(acts) \in Nat
  BY ListForPolicyFinite DEF IInv, TypeOK
<1>2. updated.id = finding.id
  BY DEF RecalculateDocument, Finding
<1>3. updated.eventCount = Cardinality(acts) /\ Cardinality(updated.document) <= Cardinality(acts)
  BY <1>1, RecalculateDocumentCount
<1>4. acts = ListForPolicy(actions, updated.id)
  BY <1>2
<1> HIDE DEF updated
<1>5. Counted(updated)
  BY <1>1, <1>3, <1>4 DEF Counted
<1> QED BY <1>5 DEF updated

(* A step that leaves the tables alone and gives a handler a counted copy. *)
LEMMA CopyStep ==
  ASSUME IInv, CountInv, NEW r \in Requests, NEW st,
         req' = [req EXCEPT ![r] = st], UNCHANGED <<findings, actions>>,
         st.pc \in {"add", "update", "list", "save"} => Counted(st.finding)
  PROVE  CountInv'
<1>1. req'[r] = st /\ \A s \in Requests \ {r} : req'[s] = req[s]
  BY DEF IInv, TypeOK
<1>2. findings' = findings /\ actions' = actions
  OBVIOUS
<1>3. StoredCounted'
  BY <1>2 DEF CountInv, StoredCounted, Counted
<1>4. CopiesCounted'
  BY <1>1, <1>2 DEF CountInv, CopiesCounted, HoldsFinding, Counted
<1> QED BY <1>3, <1>4 DEF CountInv

(* A step that writes a record: what is stored, and what handlers still    *)
(* hold, was counted before, in a table or as a copy.                      *)
LEMMA WriteStep ==
  ASSUME IInv, IInv', KeepsOrigin, CountInv,
         \A f \in Stored(findings') :
           \/ f \in Stored(findings) /\ findings'[f] = findings[f]
           \/ \E r \in Requests : HoldsFinding(r) /\ findings'[f] = req[r].finding,
         \A r \in Requests : HoldsFinding(r)' =>
           HoldsFinding(r) /\ req'[r].finding = req[r].finding
  PROVE  CountInv'
<1>1. ASSUME NEW f \in Stored(findings)
      PROVE  findings[f] \in Finding /\ Counted(findings[f])
  BY DEF IInv, TypeOK, FindingTable, Stored, CountInv, StoredCounted
<1>2. ASSUME NEW r \in Requests, HoldsFinding(r)
      PROVE  req[r].finding \in Finding /\ Counted(req[r].finding)
  BY <1>2, HandlerFields DEF IInv, HoldsFinding, CountInv, CopiesCounted
<1>3. ASSUME NEW finding \in Finding, Counted(finding)
      PROVE  Counted(finding)'
  BY <1>3, CountedKept
<1>4. StoredCounted'
  <2> SUFFICES ASSUME NEW f \in Stored(findings')
               PROVE  Counted(findings[f])'
    BY DEF StoredCounted
  <2>1. PICK finding \in Finding : finding = findings'[f] /\ Counted(finding)
    BY <1>1, <1>2
  <2> QED BY <1>3, <2>1 DEF Counted
<1>5. CopiesCounted'
  <2> SUFFICES ASSUME NEW r \in Requests, HoldsFinding(r)'
               PROVE  Counted(req[r].finding)'
    BY DEF CopiesCounted
  <2>1. PICK finding \in Finding : finding = req'[r].finding /\ Counted(finding)
    BY <1>2
  <2> QED BY <1>3, <2>1 DEF Counted
<1> QED BY <1>4, <1>5 DEF CountInv

(* A handler starts from a stored finding, or a new one that counts         *)
(* nothing.                                                                 *)
LEMMA ReceiveCounts ==
  ASSUME IInv, CountInv, NEW r \in Requests, Receive(r)
  PROVE  CountInv'
<1>1. ASSUME NEW role \in Roles, NEW n \in AdviceCounts, Analyse(r, role, n)
      PROVE  CountInv'
  <2>1. PICK holder \in Holders(role), a \in FreshActionIds :
          req' = [req EXCEPT ![r] = [pc |-> "add", kind |-> "analyse", finding |-> holder,
                                     action |-> NewAction(a, holder.id, role, n)]]
    BY <1>1 DEF Analyse
  <2>2. Counted(holder)
    BY HolderCounted DEF CountInv
  <2> QED BY <1>1, <2>1, <2>2, CopyStep DEF Analyse
<1>2. ASSUME NEW a \in ActionIds, NEW body \in EditBody, Edit(r, a, body)
      PROVE  CountInv'
  BY <1>2, CopyStep DEF Edit
<1>3. ASSUME NEW f \in FindingIds, NEW status \in Statuses, SetStatus(r, f, status)
      PROVE  CountInv'
  <2> DEFINE copy == [findings[f] EXCEPT !.status = status]
  <2>1. f \in Stored(findings) /\ findings[f] \in Finding
    BY <1>3 DEF SetStatus, Stored, IInv, TypeOK, FindingTable
  <2>2. /\ copy.id = findings[f].id /\ copy.eventCount = findings[f].eventCount
        /\ copy.document = findings[f].document
    BY <2>1 DEF Finding
  <2>3. Counted(copy)
    BY <2>1, <2>2 DEF CountInv, StoredCounted, Counted
  <2> QED BY <1>3, <2>3, CopyStep DEF SetStatus
<1> QED BY <1>1, <1>2, <1>3 DEF Receive

(* The finding an edit reads is a stored one. *)
LEMMA GetOwnerCounts ==
  ASSUME IInv, CountInv, NEW r \in Requests, GetOwner(r)
  PROVE  CountInv'
<1> DEFINE owner == findings[req[r].action.finding]
           edited == ApplyEdit(req[r].action, req[r].body)
           st == IF owner = None \/ edited = None THEN Idle
                 ELSE [pc |-> "update", kind |-> "edit", finding |-> owner, action |-> edited]
<1>1. req' = [req EXCEPT ![r] = st] /\ UNCHANGED <<findings, actions>>
  BY DEF GetOwner
<1>2. req[r].action.finding \in FindingIds
  BY HandlerFields DEF GetOwner, IInv, Action
<1>3. owner # None => Counted(owner)
  BY <1>2 DEF IInv, TypeOK, FindingTable, Stored, CountInv, StoredCounted
<1>4. st.pc = "update" => st.finding = owner /\ owner # None
  BY DEF Idle
<1>5. st.pc \in {"idle", "update"}
  BY DEF Idle
<1> HIDE DEF st, owner
<1> QED BY <1>1, <1>3, <1>4, <1>5, CopyStep

(* Every step keeps the counts within the actions stored. *)
LEMMA CountStep == IInv /\ CountInv /\ [Next]_vars => CountInv'
<1> SUFFICES ASSUME IInv, CountInv, [Next]_vars
             PROVE  CountInv'
  OBVIOUS
<1>1. IInv' /\ (KeepsOrigin \/ UNCHANGED vars)
  BY NextIInv
<1>2. CASE UNCHANGED vars
  BY <1>2 DEF vars, CountInv, StoredCounted, CopiesCounted, Counted, HoldsFinding
<1>3. ASSUME NEW r \in Requests, Receive(r)
      PROVE  CountInv'
  BY <1>3, ReceiveCounts
<1>4. ASSUME NEW r \in Requests, AddAction(r) \/ UpdateAction(r), KeepsOrigin
      PROVE  CountInv'
  <2>1. PICK kind : req' = [req EXCEPT ![r] = [pc |-> "list", kind |-> kind,
                                               finding |-> req[r].finding]]
    BY <1>4 DEF AddAction, UpdateAction
  <2>2. HoldsFinding(r) /\ findings' = findings
    BY <1>4 DEF AddAction, UpdateAction, HoldsFinding
  <2>3. \A s \in Requests : HoldsFinding(s)' =>
          HoldsFinding(s) /\ req'[s].finding = req[s].finding
    BY <2>1, <2>2 DEF IInv, TypeOK, HoldsFinding
  <2> QED BY <1>1, <1>4, <2>2, <2>3, WriteStep
<1>5. ASSUME NEW r \in Requests, GetOwner(r)
      PROVE  CountInv'
  BY <1>5, GetOwnerCounts
<1>6. ASSUME NEW r \in Requests, ListActions(r)
      PROVE  CountInv'
  <2>1. req[r].finding \in Finding
    BY <1>6, HandlerFields DEF ListActions, IInv
  <2>2. Counted(RecalculateDocument(req[r].finding, ListForPolicy(actions, req[r].finding.id)))
    BY <2>1, RecalculatedCounted
  <2> QED BY <1>6, <2>2, CopyStep DEF ListActions
<1>7. ASSUME NEW r \in Requests, SaveFinding(r), KeepsOrigin
      PROVE  CountInv'
  <2>1. HoldsFinding(r) /\ req[r].finding.id \in FindingIds
    BY <1>7, HandlerFields DEF SaveFinding, HoldsFinding, IInv, Finding
  <2>2. findings \in FindingTable /\ findings' \in FindingTable
    BY <1>1 DEF IInv, TypeOK
  <2>3. findings' = [findings EXCEPT ![req[r].finding.id] = req[r].finding]
    BY <1>7 DEF SaveFinding
  <2>4. \A f \in Stored(findings') :
          \/ f \in Stored(findings) /\ findings'[f] = findings[f]
          \/ \E s \in Requests : HoldsFinding(s) /\ findings'[f] = req[s].finding
    BY <2>1, <2>2, <2>3 DEF Stored, FindingTable
  <2>5. \A s \in Requests : HoldsFinding(s)' =>
          HoldsFinding(s) /\ req'[s].finding = req[s].finding
    BY <1>7 DEF SaveFinding, IInv, TypeOK, HoldsFinding, Idle
  <2> QED BY <1>1, <1>7, <2>4, <2>5, WriteStep
<1>8. ASSUME NEW r \in Requests, Fail(r)
      PROVE  CountInv'
  BY <1>8, CopyStep DEF Fail, Idle
<1> QED BY <1>1, <1>2, <1>3, <1>4, <1>5, <1>6, <1>7, <1>8 DEF Next, Step

(* No interleaving or failure stores a finding that counts an event which  *)
(* was never recorded, or grants more than one advisory per counted event. *)
THEOREM CountsAreReached == Spec => []CountReached
<1>1. Init => CountInv
  BY DEF Init, Idle, CountInv, StoredCounted, CopiesCounted, HoldsFinding, Stored
<1>2. IInv /\ CountInv => CountReached
  <2> SUFFICES ASSUME IInv, StoredCounted, NEW f \in Stored(findings)
               PROVE  /\ findings[f].eventCount <= Cardinality(ListForPolicy(actions, f))
                      /\ Cardinality(findings[f].document) <= findings[f].eventCount
    BY DEF CountInv, CountReached
  <2>1. findings[f].id = f
    BY DEF IInv, TablesOK
  <2> QED BY <2>1 DEF StoredCounted, Counted
<1> QED BY <1>1, <1>2, CountStep, Invariance, PTL DEF Spec

-----------------------------------------------------------------------------
(* Handlers whose storage calls do not fail. *)

(* An action's finding is stored, or a handler will store it, in spite of  *)
(* other handlers that write the action, the finding or both.              *)
LEMMA OwnedStep ==
  ASSUME IInv, IInv', OwnedOrPending, Next, KeepsOrigin, ~CanFail
  PROVE  OwnedOrPending'
<1> USE DEF IInv, TypeOK
<1>1. ASSUME NEW f \in FindingIds, findings[f] # None
      PROVE  findings'[f] # None
  BY <1>1 DEF KeepsOrigin, Stored, FindingTable
<1>2. PICK r \in Requests : Receive(r) \/ Step(r)
  BY DEF Next, Fail
<1>3. \A s \in Requests \ {r} : req'[s] = req[s]
  BY <1>2 DEF Receive, Step, Analyse, Edit, SetStatus, AddAction, GetOwner, UpdateAction,
     ListActions, SaveFinding
<1>4. ASSUME NEW s \in Requests, req[s].pc \in {"list", "save"}
      PROVE  LET f == req[s].finding.id
             IN  \/ findings'[f] # None
                 \/ req'[s].pc \in {"list", "save"} /\ req'[s].finding.id = f
  <2>1. req[s].finding \in Finding /\ req[s].finding.id \in FindingIds /\ req[s].finding # None
    BY <1>4, HandlerFields, NoneAssumption DEF Finding
  <2>2. CASE s # r
    BY <1>3, <2>2, <1>4
  <2>3. CASE s = r /\ req[r].pc = "list"
    <3>1. ListActions(r)
      BY <1>2, <2>3 DEF Receive, Step, Analyse, Edit, SetStatus, AddAction, GetOwner,
         UpdateAction, SaveFinding, Idle
    <3>2. req'[r].pc = "save" /\ req'[r].finding =
            RecalculateDocument(req[r].finding, ListForPolicy(actions, req[r].finding.id))
      BY <3>1 DEF ListActions
    <3>3. req'[r].finding.id = req[r].finding.id
      BY <3>2, <2>1, <2>3 DEF RecalculateDocument, Finding
    <3> QED BY <2>3, <3>2, <3>3
  <2>4. CASE s = r /\ req[r].pc = "save"
    <3>1. SaveFinding(r)
      BY <1>2, <2>4 DEF Receive, Step, Analyse, Edit, SetStatus, AddAction, GetOwner,
         UpdateAction, ListActions, Idle
    <3> QED BY <2>1, <2>4, <3>1 DEF SaveFinding, FindingTable
  <2> QED BY <1>4, <2>2, <2>3, <2>4
<1>5. ASSUME NEW f \in FindingIds,
             \/ findings[f] # None
             \/ \E s \in Requests : req[s].pc \in {"list", "save"} /\ req[s].finding.id = f
      PROVE  \/ findings'[f] # None
             \/ \E s \in Requests : req'[s].pc \in {"list", "save"} /\ req'[s].finding.id = f
  BY <1>1, <1>4, <1>5
<1> SUFFICES ASSUME NEW a \in Stored(actions')
             PROVE  \/ findings'[actions'[a].finding] # None
                    \/ \E s \in Requests : /\ req'[s].pc \in {"list", "save"}
                                           /\ req'[s].finding.id = actions'[a].finding
  BY DEF OwnedOrPending
<1>6. a \in ActionIds /\ actions'[a] \in Action /\ actions'[a].finding \in FindingIds
  BY DEF Stored, ActionTable, Action
<1>7. CASE actions[a] # None
  <2>1. a \in Stored(actions) /\ actions'[a].finding = actions[a].finding
    BY <1>6, <1>7 DEF Stored, ActionTable, KeepsOrigin
  <2> QED BY <1>5, <1>6, <2>1 DEF OwnedOrPending
<1>8. CASE actions[a] = None
  <2>1. actions' # actions /\ actions'[a] # None
    BY <1>8 DEF Stored
  <2>2. AddAction(r) \/ UpdateAction(r)
    BY <1>2, <2>1 DEF Receive, Step, Analyse, Edit, SetStatus, GetOwner, ListActions, SaveFinding
  <2>3. actions' = [actions EXCEPT ![req[r].action.id] = req[r].action]
    BY <2>2 DEF AddAction, UpdateAction
  <2>4. a = req[r].action.id /\ actions'[a] = req[r].action
    BY <1>6, <1>8, <2>1, <2>3 DEF ActionTable
  <2>5. AddAction(r)
    BY <1>8, <2>2, <2>4 DEF UpdateAction, EditsOK
  <2>6. req[r].action.finding = req[r].finding.id
    BY <2>5 DEF AddAction, AddsOK
  <2>7. req'[r].pc = "list" /\ req'[r].finding = req[r].finding
    BY <2>5 DEF AddAction
  <2> QED BY <2>4, <2>6, <2>7
<1> QED BY <1>7, <1>8

(* Unless a storage call fails, no recorded action is left without a stored *)
(* finding and without a handler that will store it.                        *)
THEOREM ActionsAreOwned ==
  ASSUME ~CanFail
  PROVE  Spec => []OwnedOrPending
<1>1. Init => OwnedOrPending
  BY DEF Init, OwnedOrPending, Stored
<1>2. IInv /\ IInv' /\ OwnedOrPending /\ [Next]_vars => OwnedOrPending'
  <2> SUFFICES ASSUME IInv, IInv', OwnedOrPending, [Next]_vars
               PROVE  OwnedOrPending'
    OBVIOUS
  <2>1. CASE UNCHANGED vars
    BY <2>1 DEF vars, OwnedOrPending
  <2>2. CASE Next /\ KeepsOrigin
    BY <2>2, OwnedStep
  <2> QED BY <2>1, <2>2, NextIInv
<1> QED BY <1>1, <1>2, Invariance, PTL DEF Spec

=============================================================================
