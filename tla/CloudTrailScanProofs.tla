------------------------ MODULE CloudTrailScanProofs ------------------------
(***************************************************************************)
(* What scans record and leave behind, beside a local server whose handlers *)
(* overlap and fail, and with an end of either process between any two     *)
(* storage calls: for any log, any number of scans, handlers, roles,       *)
(* findings and templates and any finite set of actions.                   *)
(***************************************************************************)
EXTENDS CloudTrailScan, EventPipelineProofs

(* The finding that an event of a role would join, if any. *)
Active(table, r) == FindByRole(table, r, "active")

(* A finding as RecalculateDocument computes it from the actions. *)
Computed(finding, acts) == finding = RecalculateDocument(finding, ListForPolicy(acts, finding.id))

(* Between two events: all that is recorded is under the finding that the   *)
(* next event will join, and that finding is up to date.                    *)
AtRest ==
  /\ req[Scanner] = Idle
  /\ \A x \in recorded :
       /\ Active(findings, role) # None
       /\ actions[x[1]].finding = Active(findings, role).id
       /\ Computed(Active(findings, role), actions)

(* In AnalyseEvent: the copy it holds is of the active finding of the role, *)
(* or of a new one when there is none; before Action.Add the event is not   *)
(* recorded, and at the write the copy is up to date.                       *)
AtWork ==
  /\ req[Scanner].pc \in {"add", "list", "save"}
  /\ event \in Event \ pending
  /\ req[Scanner].finding.status = "active" /\ req[Scanner].finding.role = role
  /\ Active(findings, role) # None => Active(findings, role).id = req[Scanner].finding.id
  /\ \A x \in recorded : actions[x[1]].finding = req[Scanner].finding.id
  /\ req[Scanner].pc = "add" =>
       /\ \A x \in recorded : x[2] # event
       /\ recorded # {} => findings[req[Scanner].finding.id] # None
  /\ req[Scanner].pc # "add" => \E x \in recorded : x[2] = event
  /\ req[Scanner].pc = "save" => Computed(req[Scanner].finding, actions)

(* What is recorded: each event once, in one finding. *)
RecordedOK ==
  /\ \A x \in recorded : x[1] \in Stored(actions) /\ x[2] \notin pending
  /\ \A x, y \in recorded : x[2] = y[2] => x = y
  /\ OneFindingForAScan
  /\ OnlyTheFirstIsOrphaned

(* The inductive invariant of a scan, beside that of the handlers. *)
ScanInv ==
  /\ pc = "querying" => recorded = {}
  /\ pc \in {"querying", "analysing"} => lock = "scan"
  /\ lock # "local" /\ pc # "analysing" => req[Scanner] = Idle
  /\ \A e \in pending : IssuedBy[e[2]] = role
  /\ RecordedOK
  /\ pc = "analysing" => AtRest \/ AtWork

-----------------------------------------------------------------------------
(* The end of the local server drops what all its handlers hold. *)
LEMMA AllIdleStep ==
  ASSUME IInv, req' = [r \in Requests |-> Idle], UNCHANGED <<findings, actions>>
  PROVE  IInv'
<1>1. \A r \in Requests : req'[r] = Idle /\ req'[r].pc = "idle"
  BY DEF Idle
<1>2. findings' = findings /\ actions' = actions
  OBVIOUS
<1>3. TypeOK'
  BY DEF IInv, TypeOK, RequestState
<1>4. TablesOK' /\ OwnerHasTheRole' /\ DocumentGrounded'
  BY <1>2 DEF IInv, TablesOK, OwnerHasTheRole, DocumentGrounded, GrantsOnly, Stored
<1>5. AddsOK' /\ EditsOK' /\ RolesAgree' /\ CopiesGrounded'
  BY <1>1 DEF AddsOK, EditsOK, RolesAgree, CopiesGrounded, HoldsFinding
<1> QED BY <1>3, <1>4, <1>5 DEF IInv

(* Whatever the scan, the local server or the end of either does to the     *)
(* store is done by steps of single handlers.                               *)
LEMMA ScanStep ==
  ASSUME IInv, pending \subseteq Event, [ScanNext]_<<vars, scanVars>>
  PROVE  IInv' /\ KeepsOrigin
<1>1. UNCHANGED <<findings, actions>> => KeepsOrigin
  BY DEF KeepsOrigin, Stored
<1>2. UNCHANGED vars => IInv'
  BY NextIInv
<1>3. CASE \/ \E r \in Roles : StartScan(r)
           \/ CannotOpen \/ GetQueryResults \/ ScanSucceeds \/ StartLocal
           \/ UNCHANGED <<vars, scanVars>>
  <2>1. UNCHANGED vars
    BY <1>3 DEF StartScan, CannotOpen, GetQueryResults, ScanSucceeds, StartLocal
  <2> QED BY <1>1, <1>2, <2>1 DEF vars
<1>4. ASSUME NEW e \in pending, AnalyseEvent(e)
      PROVE  IInv' /\ KeepsOrigin
  <2>1. /\ IssuedBy[e[2]] \in Roles /\ AdviceFor[e[1]] \in AdviceCounts
        /\ Scanner \in Requests
    BY ScanAssumption DEF Event
  <2>2. Analyse(Scanner, IssuedBy[e[2]], AdviceFor[e[1]])
    BY <1>4 DEF AnalyseEvent, ExtractRoleARNFromSession
  <2> QED BY <1>1, <2>1, <2>2, AnalyseStep DEF Analyse
<1>5. CASE ContinueAnalysis
  <2>1. Next
    BY <1>5, ScanAssumption DEF ContinueAnalysis, Next
  <2> QED BY <1>1, <2>1, NextIInv DEF vars
<1>6. CASE ScanStops
  <2>1. req' = [req EXCEPT ![Scanner] = Idle] /\ UNCHANGED <<findings, actions>>
    BY <1>6 DEF ScanStops
  <2> QED BY <1>1, <2>1, IdleStep, ScanAssumption
<1>7. CASE StopLocal
  BY <1>1, <1>7, AllIdleStep DEF StopLocal
<1>8. CASE Local
  <2>1. Next
    BY <1>8 DEF Local
  <2> QED BY <1>1, <2>1, NextIInv DEF vars
<1> QED BY <1>3, <1>4, <1>5, <1>6, <1>7, <1>8 DEF ScanNext

(* The variables of a scan keep their types at every step. *)
LEMMA ScanTypeStep ==
  ASSUME IInv, ScanTypeOK, ScanInv, [ScanNext]_<<vars, scanVars>>
  PROVE  ScanTypeOK'
<1>1. TypeOK'
  BY ScanStep DEF IInv, ScanTypeOK
<1>2. /\ log' = log /\ lock' \in {"nobody", "local", "scan"}
      /\ pc' \in {"idle", "querying", "analysing", "succeeded", "stopped", "panicked"}
      /\ role' \in Roles /\ scans' \in 0..MaxScans
  BY ScanAssumption
     DEF ScanTypeOK, ScanNext, StartScan, CannotOpen, GetQueryResults, AnalyseEvent,
         ContinueAnalysis, ScanSucceeds, ScanStops, StartLocal, StopLocal, Local, scanVars
<1>3. pending' \subseteq Event
  <2>1. ASSUME NEW page \in SUBSET Selected(role)
        PROVE  {HashEvent(x) : x \in Events(page)} \subseteq Event
    <3>1. \A x \in page : x \in Row
      BY ScanAssumption DEF ScanTypeOK, Selected
    <3> QED BY <3>1 DEF Events, HashEvent, Event, Row
  <2>2. \/ pending' \subseteq pending
        \/ \E page \in SUBSET Selected(role) : pending' = {HashEvent(x) : x \in Events(page)}
    BY DEF ScanTypeOK, ScanNext, StartScan, CannotOpen, GetQueryResults, AnalyseEvent,
           ContinueAnalysis, ScanSucceeds, ScanStops, StartLocal, StopLocal, Local, scanVars
  <2> QED BY <2>1, <2>2 DEF ScanTypeOK
<1>4. event' \in Event \cup {None}
  BY DEF ScanTypeOK, ScanNext, StartScan, CannotOpen, GetQueryResults, AnalyseEvent,
         ContinueAnalysis, ScanSucceeds, ScanStops, StartLocal, StopLocal, Local, scanVars
<1>5. recorded' \subseteq ActionIds \X Event
  <2>1. ASSUME ContinueAnalysis
        PROVE  recorded' \subseteq ActionIds \X Event
    <3>1. CASE req[Scanner].pc = "add"
      <4>1. event \in Event
        BY <2>1, <3>1 DEF ContinueAnalysis, ScanInv, AtRest, AtWork, Idle
      <4>2. req[Scanner].action.id \in ActionIds
        BY <3>1, HandlerFields, ScanAssumption DEF IInv, Action
      <4> QED BY <2>1, <4>1, <4>2 DEF ContinueAnalysis, ScanTypeOK
    <3> QED BY <2>1, <3>1 DEF ContinueAnalysis, ScanTypeOK
  <2>2. recorded' \in {recorded, {}} \/ ContinueAnalysis
    BY DEF ScanNext, StartScan, CannotOpen, GetQueryResults, AnalyseEvent, ScanSucceeds,
           ScanStops, StartLocal, StopLocal, Local, scanVars
  <2> QED BY <2>1, <2>2 DEF ScanTypeOK
<1> QED BY <1>1, <1>2, <1>3, <1>4, <1>5 DEF ScanTypeOK

-----------------------------------------------------------------------------
(* The finding of a role. *)

(* FindByRole answers a match with the least id. *)
LEMMA FindByRoleIsLeast ==
  ASSUME NEW table \in FindingTable, NEW r, NEW status, Matching(table, r, status) # {}
  PROVE  /\ Min(Matching(table, r, status)) \in Matching(table, r, status)
         /\ FindByRole(table, r, status) = table[Min(Matching(table, r, status))]
         /\ FindByRole(table, r, status) # None
<1>1. Matching(table, r, status) \in SUBSET FindingIds
  BY DEF Matching
<1>2. Min(Matching(table, r, status)) \in Matching(table, r, status)
  BY <1>1, MinFindingId
<1> QED BY <1>2 DEF FindByRole, Matching

(* The active finding of a role is stored, under its id. *)
LEMMA ActiveIsStored ==
  ASSUME IInv, NEW r, Active(findings, r) # None
  PROVE  /\ Active(findings, r).id \in FindingIds
         /\ Active(findings, r).id = Min(Matching(findings, r, "active"))
         /\ Active(findings, r).id \in Matching(findings, r, "active")
         /\ findings[Active(findings, r).id] = Active(findings, r)
         /\ findings[Active(findings, r).id] # None
<1>1. findings \in FindingTable
  BY DEF IInv, TypeOK
<1>2. Matching(findings, r, "active") # {}
  BY DEF Active, FindByRole
<1>3. PICK m : m = Min(Matching(findings, r, "active"))
  OBVIOUS
<1>4. m \in Matching(findings, r, "active") /\ Active(findings, r) = findings[m]
  BY <1>1, <1>2, <1>3, FindByRoleIsLeast DEF Active
<1>5. m \in FindingIds /\ findings[m] # None /\ m \in Stored(findings)
  BY <1>1, <1>4 DEF Matching, Stored, FindingTable
<1>6. findings[m].id = m
  BY <1>5 DEF IInv, TablesOK
<1> QED BY <1>3, <1>4, <1>5, <1>6

(* What AnalyseEvent works on: the active finding of the role, or a new one *)
(* when the role has none.                                                  *)
LEMMA HolderOf ==
  ASSUME IInv, NEW r \in Roles, NEW holder \in Holders(r)
  PROVE  /\ holder.status = "active" /\ holder.role = r
         /\ Active(findings, r) # None => holder = Active(findings, r)
<1>1. CASE Active(findings, r) # None
  <2>1. holder = Active(findings, r)
    BY <1>1 DEF Holders, Active
  <2>2. PICK f : f = holder.id /\ f \in Matching(findings, r, "active") /\ findings[f] = holder
    BY <1>1, <2>1, ActiveIsStored
  <2> QED BY <2>1, <2>2 DEF Matching
<1>2. CASE Active(findings, r) = None
  <2>1. PICK f \in FreshFindingIds : holder = NewFinding(f, r)
    BY <1>2 DEF Holders, Active
  <2> QED BY <1>2, <2>1 DEF NewFinding
<1> QED BY <1>1, <1>2

(* Writing an active finding of a role makes it the active one, when the    *)
(* role had none or that very one.                                          *)
LEMMA SavedIsActive ==
  ASSUME IInv, NEW r, NEW copy \in Finding, copy.role = r, copy.status = "active",
         Active(findings, r) # None => Active(findings, r).id = copy.id,
         NEW table, table = [findings EXCEPT ![copy.id] = copy]
  PROVE  Active(table, r) = copy
<1>1. copy.id \in FindingIds /\ copy # None
  BY NoneAssumption DEF Finding
<1>2. findings \in FindingTable /\ table \in FindingTable
  BY <1>1 DEF IInv, TypeOK, FindingTable
<1>3. table[copy.id] = copy /\ \A f \in FindingIds \ {copy.id} : table[f] = findings[f]
  BY <1>1, <1>2 DEF FindingTable
<1>4. CASE Active(findings, r) = None
  <2>1. Matching(findings, r, "active") = {}
    BY <1>2, <1>4, FindByRoleIsLeast DEF Active
  <2>2. Matching(table, r, "active") = {copy.id}
    BY <1>1, <1>3, <2>1 DEF Matching
  <2> QED BY <1>2, <1>3, <2>2, FindByRoleIsLeast DEF Active
<1>5. CASE Active(findings, r) # None
  <2>1. /\ copy.id = Min(Matching(findings, r, "active"))
        /\ copy.id \in Matching(findings, r, "active")
    BY <1>5, ActiveIsStored
  <2>2. Matching(table, r, "active") = Matching(findings, r, "active")
    BY <1>1, <1>3, <2>1 DEF Matching
  <2>3. Active(table, r) = table[Min(Matching(table, r, "active"))]
    <3>1. Matching(table, r, "active") # {}
      BY <2>1, <2>2
    <3> QED BY <1>2, <3>1, FindByRoleIsLeast DEF Active
  <2>4. PICK found : found = Matching(findings, r, "active")
    OBVIOUS
  <2>5. Matching(table, r, "active") = found /\ Min(found) = copy.id
    BY <2>1, <2>2, <2>4
  <2> QED BY <1>3, <2>3, <2>5
<1> QED BY <1>4, <1>5

-----------------------------------------------------------------------------
(* The steps of AnalyseEvent. *)

(* It starts with the finding that the recorded events are under. *)
LEMMA AnalyseEventBegins ==
  ASSUME IInv, ScanTypeOK, ScanInv, NEW e \in pending, AnalyseEvent(e)
  PROVE  ScanInv'
<1>1. IssuedBy[e[2]] = role /\ role \in Roles /\ Scanner \in Requests /\ e \in Event
  BY ScanAssumption DEF ScanInv, ScanTypeOK
<1>2. PICK holder \in Holders(role), a \in FreshActionIds :
        req' = [req EXCEPT ![Scanner] =
                  [pc |-> "add", kind |-> "analyse", finding |-> holder,
                   action |-> NewAction(a, holder.id, role, AdviceFor[e[1]])]]
  BY <1>1 DEF AnalyseEvent, Analyse, ExtractRoleARNFromSession
<1>3. req'[Scanner].pc = "add" /\ req'[Scanner].finding = holder
  BY <1>1, <1>2 DEF IInv, TypeOK
<1>4. /\ pending' = pending \ {e} /\ event' = e /\ pc = "analysing" /\ AtRest
      /\ UNCHANGED <<pc, lock, role, recorded, findings, actions>>
  BY DEF AnalyseEvent, Analyse, ScanInv, AtWork
<1>5. /\ holder.status = "active" /\ holder.role = role
      /\ Active(findings, role) # None => holder = Active(findings, role)
  BY <1>1, HolderOf
<1>6. recorded # {} => findings[holder.id] # None
  BY <1>4, <1>5, ActiveIsStored DEF AtRest
<1>7. AtWork'
  BY <1>1, <1>3, <1>4, <1>5, <1>6 DEF AtWork, AtRest, ScanInv, RecordedOK
<1>8. RecordedOK'
  BY <1>4 DEF ScanInv, RecordedOK, OneFindingForAScan, OnlyTheFirstIsOrphaned
<1> QED BY <1>4, <1>7, <1>8 DEF ScanInv

(* Action.Add records the event under the finding of the others. *)
LEMMA EventRecorded ==
  ASSUME IInv, ScanTypeOK, ScanInv, ContinueAnalysis, AddAction(Scanner)
  PROVE  ScanInv'
<1>1. PICK a, f : a = req[Scanner].action.id /\ f = req[Scanner].finding.id
  OBVIOUS
<1>2. /\ req[Scanner].pc = "add" /\ Scanner \in Requests /\ a \in ActionIds
      /\ actions[a] = None /\ req[Scanner].action \in Action
      /\ req[Scanner].action.finding = f
  BY <1>1, HandlerFields, ScanAssumption DEF AddAction, IInv, AddsOK, Action
<1>3. /\ pc = "analysing" /\ AtWork /\ recorded' = recorded \cup {<<a, event>>}
      /\ UNCHANGED <<pc, lock, role, pending, event, findings>>
  BY <1>1, <1>2 DEF ContinueAnalysis, AddAction, ScanInv, AtRest, Idle
<1>4. req'[Scanner].pc = "list" /\ req'[Scanner].finding = req[Scanner].finding
  BY <1>2 DEF AddAction, IInv, TypeOK
<1>5. /\ actions'[a] = req[Scanner].action /\ actions'[a] # None
      /\ \A b \in ActionIds \ {a} : actions'[b] = actions[b]
      /\ DOMAIN actions' = ActionIds /\ DOMAIN actions = ActionIds
  BY <1>1, <1>2, NoneAssumption DEF AddAction, IInv, TypeOK, ActionTable
<1>6. \A x \in recorded : /\ x[1] \in ActionIds /\ x[1] # a /\ x[1] \in Stored(actions')
                          /\ actions'[x[1]] = actions[x[1]]
  BY <1>2, <1>5 DEF ScanInv, RecordedOK, Stored
<1>7. \A x \in recorded' : actions'[x[1]].finding = f
  BY <1>1, <1>2, <1>3, <1>5, <1>6 DEF AtWork
<1>8. \A x \in recorded' : x[1] \in Stored(actions') /\ x[2] \notin pending'
  <2>1. a \in Stored(actions') /\ event \notin pending
    BY <1>2, <1>3, <1>5 DEF Stored, AtWork
  <2> QED BY <1>3, <1>6, <2>1 DEF ScanInv, RecordedOK
<1>9. \A x, y \in recorded' : x[2] = y[2] => x = y
  BY <1>2, <1>3 DEF ScanInv, RecordedOK, AtWork
<1>10. OneFindingForAScan'
  BY <1>7 DEF OneFindingForAScan
<1>11. OnlyTheFirstIsOrphaned'
  <2> SUFFICES ASSUME NEW x \in recorded', findings'[actions'[x[1]].finding] = None
               PROVE  recorded' = {x} /\ pc' # "succeeded"
    BY DEF OnlyTheFirstIsOrphaned
  <2>1. findings[f] = None
    BY <1>3, <1>7
  <2>2. recorded = {}
    BY <1>1, <1>2, <1>3, <2>1 DEF AtWork
  <2> QED BY <1>3, <2>2
<1>12. AtWork'
  <2>1. <<a, event>> \in recorded' /\ <<a, event>>[2] = event'
    BY <1>3
  <2> QED BY <1>1, <1>3, <1>4, <1>7, <2>1 DEF AtWork
<1>13. RecordedOK'
  BY <1>8, <1>9, <1>10, <1>11 DEF RecordedOK
<1> QED BY <1>3, <1>12, <1>13 DEF ScanInv

(* ListForPolicy brings the copy up to date. *)
LEMMA EventListed ==
  ASSUME IInv, ScanTypeOK, ScanInv, ContinueAnalysis, ListActions(Scanner)
  PROVE  ScanInv'
<1>1. /\ req[Scanner].pc = "list" /\ Scanner \in Requests /\ req[Scanner].finding \in Finding
  BY HandlerFields, ScanAssumption DEF ListActions, IInv
<1>2. /\ pc = "analysing" /\ AtWork
      /\ UNCHANGED <<pc, lock, role, pending, event, recorded, findings, actions>>
  BY <1>1 DEF ContinueAnalysis, ListActions, ScanInv, AtRest, Idle
<1>3. PICK copy, listed, acts :
        /\ copy = req[Scanner].finding /\ acts = ListForPolicy(actions, copy.id)
        /\ listed = RecalculateDocument(copy, acts)
  OBVIOUS
<1>4. req'[Scanner].pc = "save" /\ req'[Scanner].finding = listed
  BY <1>1, <1>3 DEF ListActions, IInv, TypeOK
<1>5. /\ listed.id = copy.id /\ listed.status = copy.status /\ listed.role = copy.role
      /\ listed = RecalculateDocument(listed, acts)
  BY <1>1, <1>3, RecalculateDocumentFields
<1>6. Computed(listed, actions)
  BY <1>3, <1>5 DEF Computed
<1>7. AtWork'
  BY <1>1, <1>2, <1>3, <1>4, <1>5, <1>6 DEF AtWork
<1>8. RecordedOK'
  BY <1>2 DEF ScanInv, RecordedOK, OneFindingForAScan, OnlyTheFirstIsOrphaned
<1> QED BY <1>2, <1>7, <1>8 DEF ScanInv

(* CreateOrUpdate stores it, and the role's active finding is up to date.  *)
LEMMA EventSaved ==
  ASSUME IInv, ScanTypeOK, ScanInv, ContinueAnalysis, SaveFinding(Scanner)
  PROVE  /\ ScanInv'
         /\ \A f \in Stored(findings') \ Stored(findings) :
              Matching(findings, findings'[f].role, "active") = {}
<1>1. PICK copy : copy = req[Scanner].finding
  OBVIOUS
<1>2. /\ req[Scanner].pc = "save" /\ Scanner \in Requests /\ copy \in Finding
      /\ copy.id \in FindingIds /\ copy # None
  BY <1>1, HandlerFields, ScanAssumption, NoneAssumption DEF SaveFinding, IInv, Finding
<1>3. /\ pc = "analysing" /\ AtWork
      /\ UNCHANGED <<pc, lock, role, pending, event, recorded, actions>>
  BY <1>2 DEF ContinueAnalysis, SaveFinding, ScanInv, AtRest, Idle
<1>4. PICK table : table = findings' /\ table = [findings EXCEPT ![copy.id] = copy]
  BY <1>1 DEF SaveFinding
<1>5. req'[Scanner] = Idle
  BY <1>2 DEF SaveFinding, IInv, TypeOK
<1>6. /\ copy.status = "active" /\ copy.role = role /\ Computed(copy, actions)
      /\ Active(findings, role) # None => Active(findings, role).id = copy.id
      /\ \A x \in recorded : actions[x[1]].finding = copy.id
  BY <1>1, <1>2, <1>3 DEF AtWork
<1>7. Active(table, role) = copy
  BY <1>2, <1>4, <1>6, SavedIsActive
<1>8. /\ table[copy.id] = copy /\ \A f \in FindingIds \ {copy.id} : table[f] = findings[f]
      /\ DOMAIN table = FindingIds /\ DOMAIN findings = FindingIds
  BY <1>2, <1>4 DEF IInv, TypeOK, FindingTable
<1>9. AtRest'
  BY <1>2, <1>3, <1>4, <1>5, <1>6, <1>7 DEF AtRest
<1>10. RecordedOK'
  <2>1. OneFindingForAScan' /\ OnlyTheFirstIsOrphaned'
    BY <1>2, <1>3, <1>4, <1>6, <1>8 DEF OneFindingForAScan, OnlyTheFirstIsOrphaned
  <2> QED BY <1>3, <2>1 DEF ScanInv, RecordedOK
<1>11. ASSUME NEW f \in Stored(findings') \ Stored(findings)
       PROVE  Matching(findings, findings'[f].role, "active") = {}
  <2>1. f = copy.id /\ findings[copy.id] = None /\ findings'[f].role = role
    BY <1>4, <1>6, <1>8 DEF Stored
  <2>2. Active(findings, role) = None
    BY <1>6, <2>1, ActiveIsStored
  <2> QED BY <2>1, <2>2, FindByRoleIsLeast DEF Active, IInv, TypeOK
<1> QED BY <1>3, <1>9, <1>10, <1>11 DEF ScanInv

(* AnalyseEvent makes no other calls. *)
LEMMA AnalysisContinues ==
  ASSUME IInv, ScanTypeOK, ScanInv, ContinueAnalysis
  PROVE  /\ ScanInv'
         /\ \A f \in Stored(findings') \ Stored(findings) :
              Matching(findings, findings'[f].role, "active") = {}
<1>1. req[Scanner].pc \in {"idle", "add", "list", "save"}
  BY DEF ContinueAnalysis, ScanInv, AtRest, AtWork, Idle
<1>2. AddAction(Scanner) \/ ListActions(Scanner) \/ SaveFinding(Scanner)
  BY <1>1 DEF ContinueAnalysis, Step, GetOwner, UpdateAction
<1>3. AddAction(Scanner) \/ ListActions(Scanner) => findings' = findings
  BY DEF AddAction, ListActions
<1> QED BY <1>2, <1>3, EventRecorded, EventListed, EventSaved

-----------------------------------------------------------------------------
(* Steps other than those of AnalyseEvent. *)

(* What was recorded stays so while others work on the store. *)
LEMMA RecordedKept ==
  ASSUME IInv, IInv', KeepsOrigin, RecordedOK,
         recorded' = recorded, pending' \subseteq pending,
         pc' = "succeeded" => pc = "succeeded"
  PROVE  RecordedOK'
<1>1. \A x \in recorded : /\ x[1] \in Stored(actions) /\ x[1] \in Stored(actions')
                          /\ actions'[x[1]].finding = actions[x[1]].finding
                          /\ actions[x[1]].finding \in FindingIds
  BY DEF RecordedOK, KeepsOrigin, Stored, IInv, TypeOK, ActionTable, Action
<1>2. \A f \in FindingIds : findings'[f] = None => findings[f] = None
  BY DEF KeepsOrigin, Stored, IInv, TypeOK, FindingTable
<1>3. OneFindingForAScan'
  BY <1>1 DEF RecordedOK, OneFindingForAScan
<1>4. OnlyTheFirstIsOrphaned'
  BY <1>1, <1>2 DEF RecordedOK, OnlyTheFirstIsOrphaned
<1> QED BY <1>1, <1>3, <1>4 DEF RecordedOK

(* Every step of a scan or of the local server keeps the invariant. *)
LEMMA ScanInvStep ==
  ASSUME IInv, ScanTypeOK, ScanInv, [ScanNext]_<<vars, scanVars>>
  PROVE  ScanInv'
<1>0. IInv' /\ KeepsOrigin
  BY ScanStep DEF ScanTypeOK
<1>1. ASSUME NEW r \in Roles, StartScan(r)
      PROVE  ScanInv'
  <2>1. req[Scanner] = Idle /\ UNCHANGED vars
    BY <1>1 DEF StartScan, ScanInv, Ended
  <2> QED BY <1>1, <2>1 DEF StartScan, ScanInv, RecordedOK, OneFindingForAScan,
                            OnlyTheFirstIsOrphaned, vars
<1>2. CASE CannotOpen
  BY <1>2 DEF CannotOpen, ScanInv, RecordedOK, OneFindingForAScan, OnlyTheFirstIsOrphaned, vars
<1>3. CASE GetQueryResults
  <2>1. /\ recorded = {} /\ recorded' = {} /\ lock = "scan" /\ role' = role
        /\ req[Scanner] = Idle /\ req' = req /\ UNCHANGED <<findings, actions>>
    BY <1>3 DEF GetQueryResults, ScanInv, vars
  <2>2. \/ pc' = "analysing" /\ lock' = lock
        \/ pc' \in {"stopped", "panicked"}
    BY <1>3 DEF GetQueryResults
  <2>3. \A e \in pending' : IssuedBy[e[2]] = role
    <3>1. PICK page \in SUBSET Selected(role) :
            pending' = {HashEvent(x) : x \in Events(page)} \/ pending' = pending
      BY <1>3 DEF GetQueryResults
    <3>2. \A x \in Events(page) : IssuedBy[HashEvent(x)[2]] = role
      BY DEF Events, Selected, HashEvent
    <3> QED BY <3>1, <3>2 DEF ScanInv
  <2>4. RecordedOK' /\ AtRest'
    BY <2>1 DEF RecordedOK, OneFindingForAScan, OnlyTheFirstIsOrphaned, AtRest
  <2> QED BY <2>1, <2>2, <2>3, <2>4 DEF ScanInv
<1>4. ASSUME NEW e \in pending, AnalyseEvent(e)
      PROVE  ScanInv'
  BY <1>4, AnalyseEventBegins
<1>5. CASE ContinueAnalysis
  BY <1>5, AnalysisContinues
<1>6. CASE ScanSucceeds
  <2>1. /\ pc = "analysing" /\ AtRest
        /\ UNCHANGED <<role, pending, recorded, findings, actions, req>> /\ pc' = "succeeded"
    BY <1>6 DEF ScanSucceeds, ScanInv, AtWork, vars
  <2>2. \A x \in recorded : findings[actions[x[1]].finding] # None
    BY <2>1, ActiveIsStored DEF AtRest
  <2>3. RecordedOK'
    BY <2>1, <2>2 DEF ScanInv, RecordedOK, OneFindingForAScan, OnlyTheFirstIsOrphaned
  <2> QED BY <2>1, <2>3 DEF ScanInv, AtRest
<1>7. CASE ScanStops
  <2>1. /\ pc' = "stopped" /\ pending' = {} /\ recorded' = recorded
        /\ req' = [req EXCEPT ![Scanner] = Idle]
    BY <1>7 DEF ScanStops
  <2>2. req'[Scanner] = Idle
    BY <2>1, ScanAssumption DEF IInv, TypeOK
  <2>3. RecordedOK'
    BY <1>0, <2>1, RecordedKept DEF ScanInv
  <2> QED BY <2>1, <2>2, <2>3 DEF ScanInv
<1>8. CASE StartLocal \/ StopLocal \/ Local
  <2>1. /\ UNCHANGED <<pc, role, pending, recorded>>
        /\ pc \notin {"querying", "analysing"}
    BY <1>8 DEF StartLocal, StopLocal, Local, scanVars, ScanInv
  <2>2. lock' # "local" => req'[Scanner] = Idle
    BY <1>8, ScanAssumption DEF StartLocal, StopLocal, Local, scanVars
  <2>3. RecordedOK'
    BY <1>0, <2>1, RecordedKept DEF ScanInv
  <2> QED BY <2>1, <2>2, <2>3 DEF ScanInv
<1>9. CASE UNCHANGED <<vars, scanVars>>
  BY <1>9 DEF vars, scanVars, ScanInv, RecordedOK, OneFindingForAScan, OnlyTheFirstIsOrphaned,
              AtRest, AtWork
<1> QED BY <1>1, <1>2, <1>3, <1>4, <1>5, <1>6, <1>7, <1>8, <1>9 DEF ScanNext

(* In every state of any number of scans and servers the invariants of the *)
(* handlers and of the scan hold, and no step loses or moves a record.     *)
LEMMA ScanInvariance == ScanSpec => [](IInv /\ ScanTypeOK /\ ScanInv)
<1>1. ScanInit => IInv /\ ScanTypeOK /\ ScanInv
  <2> SUFFICES ASSUME ScanInit PROVE IInv /\ ScanTypeOK /\ ScanInv
    OBVIOUS
  <2>1. IInv
    BY InitIInv DEF ScanInit
  <2>2. ScanTypeOK
    BY <2>1, ScanAssumption DEF ScanInit, ScanTypeOK, IInv
  <2>3. req[Scanner] = Idle
    BY ScanAssumption DEF ScanInit, Init
  <2> QED BY <2>1, <2>2, <2>3 DEF ScanInit, ScanInv, RecordedOK, OneFindingForAScan,
                                  OnlyTheFirstIsOrphaned
<1>2. IInv /\ ScanTypeOK /\ ScanInv /\ [ScanNext]_<<vars, scanVars>>
        => (IInv /\ ScanTypeOK /\ ScanInv)'
  BY ScanStep, ScanTypeStep, ScanInvStep DEF ScanTypeOK
<1> QED BY <1>1, <1>2, PTL DEF ScanSpec

(* Every variable of a scan keeps its type, whatever else uses the store. *)
THEOREM ScanTypeCorrect == ScanSpec => []ScanTypeOK
<1> QED BY ScanInvariance, PTL

(* What single handlers keep of the store, scans and local servers keep     *)
(* together, wherever they end: no document that grants what was not        *)
(* advised, no nil advisory, no action under a finding of another role.     *)
THEOREM StoreIsKept == ScanSpec => [](NoNilAdvisory /\ DocumentGrounded /\ OwnerHasTheRole)
<1>1. IInv => NoNilAdvisory
  BY NilAdvisoryNever
<1>2. IInv => DocumentGrounded /\ OwnerHasTheRole
  BY DEF IInv
<1> QED BY <1>1, <1>2, ScanInvariance, PTL

(* All calls that a scan records are under one finding, and stay so when    *)
(* handlers edit and recalculate it after the scan.                         *)
THEOREM ScanHasOneFinding == ScanSpec => []OneFindingForAScan
<1>1. ScanInv => OneFindingForAScan
  BY DEF ScanInv, RecordedOK
<1> QED BY <1>1, ScanInvariance, PTL

(* A scan that ends between Action.Add and CreateOrUpdate leaves an action  *)
(* without a finding only with its first event, and never if it succeeds.   *)
THEOREM OrphansAreFirst == ScanSpec => []OnlyTheFirstIsOrphaned
<1>1. ScanInv => OnlyTheFirstIsOrphaned
  BY DEF ScanInv, RecordedOK
<1> QED BY <1>1, ScanInvariance, PTL

(* Whatever overlapping or interrupted handlers left of it before, the      *)
(* finding of a scan is the one RecalculateDocument computes from all of    *)
(* its actions after each event that the scan analyses.                     *)
THEOREM ScanBringsUpToDate == ScanSpec => []UpToDateBetweenEvents
<1>1. IInv /\ ScanInv => UpToDateBetweenEvents
  <2> SUFFICES ASSUME IInv, ScanInv, pc = "analysing", req[Scanner].pc = "idle",
                      NEW x \in recorded
               PROVE  LET f == actions[x[1]].finding
                      IN  /\ findings[f] # None
                          /\ findings[f] = RecalculateDocument(findings[f],
                                                               ListForPolicy(actions, f))
    BY DEF UpToDateBetweenEvents
  <2>1. /\ Active(findings, role) # None
        /\ actions[x[1]].finding = Active(findings, role).id
        /\ Computed(Active(findings, role), actions)
    BY DEF ScanInv, AtRest, AtWork
  <2>2. /\ findings[Active(findings, role).id] = Active(findings, role)
        /\ findings[Active(findings, role).id] # None
    BY <2>1, ActiveIsStored
  <2> QED BY <2>1, <2>2 DEF Computed
<1> QED BY <1>1, ScanInvariance, PTL

(* A scan opens a finding only for a role without an active one. *)
THEOREM ScanOpensWhatIsMissing == ScanSpec => OpensOnlyWhatIsMissing
<1> DEFINE Opens == pc = "analysing" =>
                      \A f \in Stored(findings') \ Stored(findings) :
                        Matching(findings, findings'[f].role, "active") = {}
<1>1. IInv /\ ScanTypeOK /\ ScanInv /\ [ScanNext]_<<vars, scanVars>>
        => [Opens]_<<vars, scanVars>>
  <2> SUFFICES ASSUME IInv, ScanTypeOK, ScanInv, ScanNext, pc = "analysing",
                      NEW f \in Stored(findings') \ Stored(findings)
               PROVE  Matching(findings, findings'[f].role, "active") = {}
    OBVIOUS
  <2>1. lock = "scan" /\ findings' # findings
    BY DEF ScanInv
  <2>2. ContinueAnalysis
    BY <2>1 DEF ScanNext, StartScan, CannotOpen, GetQueryResults, AnalyseEvent, Analyse,
                ScanSucceeds, ScanStops, StartLocal, StopLocal, Local, vars
  <2> QED BY <2>2, AnalysisContinues
<1> QED BY <1>1, ScanInvariance, PTL DEF ScanSpec, OpensOnlyWhatIsMissing

-----------------------------------------------------------------------------
(* Scans of a log whose rows all come with the first page of the results:   *)
(* GetQueryResults is called once, so what is beyond the page is not read.  *)
FirstPageIsAll == \A l \in Logs : IsFiniteSet(l) /\ Cardinality(l) <= PageRows

(* Every row selected can be read and becomes an event. *)
Readable == \A x \in Selected(role) : x.kind \in {"event", "unmapped"}

(* What is recorded when all the selected rows are read. *)
SelectedEvents == {HashEvent(x) : x \in Events(Selected(role))}

(* The event that AnalyseEvent has taken and not yet recorded. *)
Taken == IF pc = "analysing" /\ req[Scanner].pc = "add" THEN {event} ELSE {}

(* What is recorded and what is still to be recorded are all the calls.     *)
PageInv ==
  /\ recorded # {} \/ pc \in {"analysing", "succeeded"} => Readable
  /\ pc \in {"analysing", "succeeded"} =>
       pending \cup Taken \cup {x[2] : x \in recorded} = SelectedEvents
  /\ pc = "succeeded" => pending = {}

(* A first page that holds all the rows is the selection. *)
LEMMA PageIsSelected ==
  ASSUME FirstPageIsAll, log \in Logs, NEW page \in SUBSET Selected(role),
         Cardinality(page) = Min({PageRows, Cardinality(Selected(role))})
  PROVE  page = Selected(role)
<1> DEFINE S == Selected(role)
           n == Cardinality(S)
<1>1. IsFiniteSet(log) /\ Cardinality(log) <= PageRows /\ S \in SUBSET log
  BY DEF FirstPageIsAll, Selected
<1>2. IsFiniteSet(S) /\ n <= Cardinality(log)
  BY <1>1, FS_Subset
<1>3. n \in Nat /\ Cardinality(log) \in Nat /\ PageRows \in Nat
  BY <1>1, <1>2, FS_CardinalityType, ScanAssumption
<1> HIDE DEF n
<1>4. n <= PageRows
  BY <1>1, <1>2, <1>3
<1>5. \A x \in {PageRows, n} : n <= x
  BY <1>3, <1>4
<1>6. \A x \in {PageRows, n} : (\A y \in {PageRows, n} : x <= y) => x = n
  BY <1>3, <1>4
<1>7. Min({PageRows, n}) = n
  BY <1>5, <1>6 DEF Min
<1>8. Cardinality(page) = Cardinality(S)
  BY <1>7 DEF n
<1> HIDE DEF S
<1> QED BY <1>2, <1>8, FS_Subset DEF S

(* Every step keeps what the page says of the selection. *)
LEMMA PageStep ==
  ASSUME FirstPageIsAll, IInv, ScanTypeOK, ScanInv, PageInv, [ScanNext]_<<vars, scanVars>>
  PROVE  PageInv'
<1> USE DEF Readable, SelectedEvents, Selected
<1>1. ASSUME NEW r \in Roles, StartScan(r)
      PROVE  PageInv'
  BY <1>1 DEF StartScan, PageInv
<1>2. CASE CannotOpen
  BY <1>2 DEF CannotOpen, PageInv
<1>3. CASE GetQueryResults
  <2>1. PICK page \in SUBSET Selected(role) :
          /\ pc = "querying"
          /\ Cardinality(page) = Min({PageRows, Cardinality(Selected(role))})
          /\ \/ /\ \A x \in page : x.kind \in {"event", "unmapped"}
                /\ pending' = {HashEvent(x) : x \in Events(page)}
                /\ pc' = "analysing"
             \/ pc' \in {"stopped", "panicked"}
          /\ UNCHANGED <<log, role, recorded, req>>
    BY <1>3 DEF GetQueryResults, vars
  <2>2. page = Selected(role)
    <3> HIDE DEF Selected
    <3> QED BY <2>1, PageIsSelected DEF ScanTypeOK
  <2>3. recorded = {} /\ recorded' = {} /\ Taken' = {}
    BY <2>1 DEF ScanInv, Taken, Idle
  <2>4. log' = log /\ role' = role /\ Selected(role)' = Selected(role)
    BY <2>1
  <2>5. CASE pc' = "analysing"
    <3>1. Readable'
      BY <2>1, <2>2, <2>4, <2>5
    <3>2. pending' = SelectedEvents'
      BY <2>1, <2>2, <2>4, <2>5
    <3>3. {x[2] : x \in recorded'} = {}
      BY <2>3
    <3> HIDE DEF Readable, SelectedEvents
    <3> QED BY <2>3, <2>5, <3>1, <3>2, <3>3 DEF PageInv
  <2>6. CASE pc' \in {"stopped", "panicked"}
    BY <2>3, <2>6 DEF PageInv
  <2> QED BY <2>1, <2>5, <2>6
<1>4. ASSUME NEW e \in pending, AnalyseEvent(e)
      PROVE  PageInv'
  <2>1. /\ pending' = pending \ {e} /\ event' = e /\ pc = "analysing" /\ pc' = "analysing"
        /\ UNCHANGED <<log, role, recorded>> /\ req[Scanner].pc = "idle"
    BY <1>4 DEF AnalyseEvent, Analyse
  <2>2. req'[Scanner].pc = "add"
    BY <1>4, ScanAssumption DEF AnalyseEvent, Analyse, IInv, TypeOK
  <2>3. Taken = {} /\ Taken' = {e}
    BY <2>1, <2>2 DEF Taken
  <2>4. Readable' /\ SelectedEvents' = SelectedEvents
    BY <2>1 DEF PageInv
  <2> HIDE DEF Readable, SelectedEvents
  <2> QED BY <2>1, <2>3, <2>4 DEF PageInv
<1>5. CASE ContinueAnalysis
  <2>1. /\ pc = "analysing" /\ UNCHANGED <<log, role, pc, pending, event>>
    BY <1>5 DEF ContinueAnalysis
  <2>2. Readable' /\ SelectedEvents' = SelectedEvents
    BY <2>1 DEF PageInv
  <2>3. Taken' \cup {x[2] : x \in recorded'} = Taken \cup {x[2] : x \in recorded}
    <3>1. CASE req[Scanner].pc = "add"
      <4>1. PICK a : recorded' = recorded \cup {<<a, event>>}
        BY <1>5, <3>1 DEF ContinueAnalysis
      <4>2. req'[Scanner].pc = "list"
        BY <1>5, <3>1, ScanAssumption
           DEF ContinueAnalysis, Step, AddAction, GetOwner, UpdateAction, ListActions,
               SaveFinding, IInv, TypeOK
      <4>3. {x[2] : x \in recorded'} = {x[2] : x \in recorded} \cup {event}
        <5>1. <<a, event>>[2] = event
          OBVIOUS
        <5> QED BY <4>1, <5>1
      <4> QED BY <2>1, <3>1, <4>2, <4>3 DEF Taken
    <3>2. CASE req[Scanner].pc # "add"
      <4>1. req[Scanner].pc \in {"idle", "list", "save"}
        BY <2>1, <3>2 DEF ScanInv, AtRest, AtWork, Idle
      <4>2. req'[Scanner].pc # "add"
        BY <1>5, <4>1, ScanAssumption
           DEF ContinueAnalysis, Step, AddAction, GetOwner, UpdateAction, ListActions,
               SaveFinding, IInv, TypeOK, Idle
      <4>3. recorded' = recorded
        BY <1>5, <3>2 DEF ContinueAnalysis
      <4> QED BY <3>2, <4>2, <4>3 DEF Taken
    <3> QED BY <3>1, <3>2
  <2> HIDE DEF Readable, SelectedEvents
  <2> QED BY <2>1, <2>2, <2>3 DEF PageInv
<1>6. CASE ScanSucceeds \/ ScanStops
  <2>1. CASE ScanSucceeds
    <3>1. Taken = {} /\ Taken' = {} /\ pending = {} /\ pending' = {}
      BY <2>1 DEF ScanSucceeds, Taken
    <3> QED BY <2>1, <3>1 DEF ScanSucceeds, PageInv
  <2>2. CASE ScanStops
    BY <2>2 DEF ScanStops, PageInv
  <2> QED BY <1>6, <2>1, <2>2
<1>7. CASE StartLocal \/ StopLocal \/ Local \/ UNCHANGED <<vars, scanVars>>
  <2>1. UNCHANGED <<log, pc, role, pending, recorded>>
    BY <1>7 DEF StartLocal, StopLocal, Local, scanVars
  <2>2. pc = "analysing" => UNCHANGED <<vars, scanVars>>
    BY <1>7 DEF StartLocal, StopLocal, Local, ScanInv
  <2>3. Taken' = Taken
    BY <2>1, <2>2 DEF Taken, vars, scanVars
  <2> QED BY <2>1, <2>3 DEF PageInv
<1> QED BY <1>1, <1>2, <1>3, <1>4, <1>5, <1>6, <1>7 DEF ScanNext

(* When the first page of the results holds them all, a scan that is past   *)
(* it has read all the rows it selected (getQueryResults).                  *)
LEMMA PageInvariance ==
  ASSUME FirstPageIsAll
  PROVE  ScanSpec => []PageInv
<1>1. ScanInit => PageInv
  BY DEF ScanInit, PageInv
<1> QED BY <1>1, PageStep, ScanInvariance, PTL DEF ScanSpec

(* "reads and deduplicates": however often a session made a call, a scan    *)
(* whose rows come on one page records it at most once, and exactly once if *)
(* it succeeds.                                                             *)
THEOREM CallsRecordedOnce ==
  ASSUME FirstPageIsAll
  PROVE  ScanSpec => []RecordsEachCallOnce
<1>1. ScanTypeOK /\ ScanInv /\ PageInv => RecordsEachCallOnce
  <2> SUFFICES ASSUME ScanTypeOK, ScanInv, PageInv
               PROVE  RecordsEachCallOnce
    OBVIOUS
  <2>1. \A x \in recorded : x[2] \in Event /\ x[2] = <<x[2][1], x[2][2]>>
    BY DEF ScanTypeOK, Event
  <2>2. \A x, y \in recorded : x # y => <<x[2][1], x[2][2]>> # <<y[2][1], y[2][2]>>
    <3> SUFFICES ASSUME NEW x \in recorded, NEW y \in recorded,
                        <<x[2][1], x[2][2]>> = <<y[2][1], y[2][2]>>
                 PROVE  x = y
      OBVIOUS
    <3>1. x[2] = y[2]
      BY <2>1
    <3> QED BY <3>1 DEF ScanInv, RecordedOK
  <2>3. ASSUME pc = "succeeded"
        PROVE  {<<x[2][1], x[2][2]>> : x \in recorded} =
                 {<<x.call, x.identity>> :
                    x \in {y \in log : IssuedBy[y.identity] = role /\ y.kind = "event"}}
    <3>1. {x[2] : x \in recorded} = SelectedEvents
      BY <2>3 DEF PageInv, Taken
    <3>2. {<<x[2][1], x[2][2]>> : x \in recorded} = {x[2] : x \in recorded}
      BY <2>1
    <3>3. SelectedEvents =
            {<<x.call, x.identity>> :
               x \in {y \in log : IssuedBy[y.identity] = role /\ y.kind = "event"}}
      BY DEF SelectedEvents, HashEvent, Events, Selected
    <3> QED BY <3>1, <3>2, <3>3
  <2> QED BY <2>2, <2>3 DEF RecordsEachCallOnce
<1> QED BY <1>1, PageInvariance, ScanInvariance, PTL

(* A scan whose rows come on one page records nothing when it cannot read   *)
(* one of the role's rows, nor when handlers work on the store afterwards.  *)
THEOREM NothingOrAllIsRead ==
  ASSUME FirstPageIsAll
  PROVE  ScanSpec => []AllOrNothingIsRead
<1>1. PageInv => AllOrNothingIsRead
  BY DEF PageInv, Readable, Selected, AllOrNothingIsRead
<1> QED BY <1>1, PageInvariance, PTL

=============================================================================
