---------------------- MODULE EventPipelineRefinement ----------------------
(***************************************************************************)
(* One handler at a time, without failures: EventPipeline implements       *)
(* AtomicFindings, and leaves every stored finding up to date, for any     *)
(* number of findings, actions, roles and advisory templates.              *)
(***************************************************************************)
EXTENDS EventPipelineProofs

(* Requests are served one after the other. *)
OneHandler == \A r, s \in Requests : r = s

(* The finding is what RecalculateDocument makes of it. *)
Current(finding) == finding = RecalculateDocument(finding, ListForPolicy(actions, finding.id))

(* The finding that an event of a role is to be recorded under. *)
Opened(role) ==
  LET found == FindByRole(findings, role, "active")
  IN  IF found # None THEN {found}
      ELSE {NewFinding(f, role) : f \in FindingIds \ Stored(findings)}

(* What a handler holds is still what the tables say. *)
AddIsFresh(r) ==
  req[r].pc = "add" =>
    \E role \in Roles, n \in AdviceCounts, a \in ActionIds :
      /\ req[r].finding \in Opened(role)
      /\ req[r].action = NewAction(a, req[r].finding.id, role, n)

(* An edit holds its action and finding as they are stored. *)
EditIsFresh(r) ==
  /\ req[r].pc = "get" => req[r].action = actions[req[r].action.id]
  /\ req[r].pc = "update" =>
       \E a \in ActionIds, body \in EditBody :
         /\ actions[a] # None
         /\ req[r].action = ApplyEdit(actions[a], body)
         /\ req[r].finding = findings[actions[a].finding]

(* What is saved is up to date, and after a status has only that changed. *)
SaveIsFresh(r) ==
  req[r].pc = "save" =>
    /\ Current(req[r].finding)
    /\ req[r].kind = "status" =>
         \E f \in FindingIds, status \in Statuses :
           /\ findings[f] # None
           /\ req[r].finding = [findings[f] EXCEPT !.status = status]

(* A stored finding that is not current is about to be saved. *)
CurrentOrPending ==
  \A f \in Stored(findings) :
    Current(findings[f]) \/ \E r \in Requests : Pending(r) /\ req[r].finding.id = f

(* What the one handler holds is fresh, and stored findings are up to date. *)
SerialInv ==
  /\ \A r \in Requests : AddIsFresh(r) /\ EditIsFresh(r) /\ SaveIsFresh(r)
  /\ CurrentOrPending

(* The finding table as AtomicFindings sees it. *)
Table == [f \in FindingIds |-> AbstractFinding(f)]

-----------------------------------------------------------------------------
(* What the abstract table holds, by what the only handler is doing. *)
LEMMA TableOf ==
  ASSUME OneHandler, NEW r \in Requests
  PROVE  \A f \in FindingIds :
           Table[f] = IF Pending(r) /\ req[r].finding.id = f
                      THEN IF req[r].pc = "save" THEN req[r].finding
                           ELSE RecalculateDocument(req[r].finding, ListForPolicy(actions, f))
                      ELSE findings[f]
<1>1. \A s \in Requests : s = r
  BY DEF OneHandler
<1>2. ASSUME NEW f \in FindingIds, Pending(r), req[r].finding.id = f
      PROVE  (CHOOSE s \in Requests : Pending(s) /\ req[s].finding.id = f) = r
  BY <1>1, <1>2
<1> QED BY <1>1, <1>2 DEF Table, AbstractFinding

(* The abstract table after a step, as the one handler determines it. *)
LEMMA TableOfNext ==
  ASSUME OneHandler, NEW r \in Requests
  PROVE  \A f \in FindingIds :
           Table'[f] = IF Pending(r)' /\ req'[r].finding.id = f
                       THEN IF req'[r].pc = "save" THEN req'[r].finding
                            ELSE RecalculateDocument(req'[r].finding, ListForPolicy(actions', f))
                       ELSE findings'[f]
<1>1. \A s \in Requests : s = r
  BY DEF OneHandler
<1>2. ASSUME NEW f \in FindingIds, Pending(r)', req'[r].finding.id = f
      PROVE  (CHOOSE s \in Requests : Pending(s)' /\ req'[s].finding.id = f) = r
  BY <1>1, <1>2
<1> QED BY <1>1, <1>2 DEF Table, AbstractFinding

(* A handler that is not pending leaves the tables as they are stored. *)
LEMMA TableIsStored ==
  ASSUME OneHandler, TypeOK, NEW r \in Requests, ~Pending(r)
  PROVE  Table = findings
<1>1. \A f \in FindingIds : Table[f] = findings[f]
  BY TableOf
<1>2. Table = [f \in FindingIds |-> Table[f]] /\ findings = [f \in FindingIds |-> findings[f]]
  BY DEF Table, TypeOK, FindingTable
<1> QED BY <1>1, <1>2

(* With no write pending the abstract table is the stored one. *)
LEMMA TableIsStoredNext ==
  ASSUME OneHandler, TypeOK', NEW r \in Requests, ~Pending(r)'
  PROVE  Table' = findings'
<1>1. \A f \in FindingIds : Table'[f] = findings'[f]
  BY TableOfNext
<1>2. Table' = [f \in FindingIds |-> Table'[f]] /\ findings' = [f \in FindingIds |-> findings'[f]]
  BY DEF Table, TypeOK, FindingTable
<1> QED BY <1>1, <1>2

-----------------------------------------------------------------------------
(* The steps that leave the tables alone. *)

(* A handler that has written nothing yet, and is to write nothing yet. *)
LEMMA ReadStep ==
  ASSUME OneHandler, IInv, IInv', SerialInv, NEW r \in Requests, ~Pending(r), ~Pending(r)',
         UNCHANGED <<findings, actions>>,
         AddIsFresh(r)', EditIsFresh(r)', SaveIsFresh(r)'
  PROVE  SerialInv' /\ Table' = Table
<1>1. \A s \in Requests : s = r
  BY DEF OneHandler
<1>2. Table' = Table
  BY TableIsStored, TableIsStoredNext DEF IInv
<1>3. \A f \in Stored(findings) : Current(findings[f])
  BY <1>1 DEF SerialInv, CurrentOrPending
<1>4. CurrentOrPending'
  BY <1>3 DEF CurrentOrPending, Current
<1> QED BY <1>1, <1>2, <1>4 DEF SerialInv

(* The reads of an event change nothing in the abstract tables. *)
LEMMA AnalyseReads ==
  ASSUME OneHandler, IInv, IInv', SerialInv, NEW r \in Requests,
         NEW role \in Roles, NEW n \in AdviceCounts, Analyse(r, role, n)
  PROVE  SerialInv' /\ Table' = Table
<1>1. PICK holder \in Holders(role), a \in FreshActionIds :
        req' = [req EXCEPT ![r] = [pc |-> "add", kind |-> "analyse", finding |-> holder,
                                   action |-> NewAction(a, holder.id, role, n)]]
  BY DEF Analyse
<1>2. holder \in Opened(role)
  BY DEF Holders, Opened, FreshFindingIds, Stored, IInv, TypeOK, FindingTable
<1>3. /\ req'[r].pc = "add" /\ req'[r].finding = holder
      /\ req'[r].action = NewAction(a, holder.id, role, n)
  BY <1>1 DEF IInv, TypeOK
<1>4. a \in ActionIds
  BY DEF FreshActionIds
<1>5. UNCHANGED <<findings, actions>> /\ req[r].pc = "idle"
  BY DEF Analyse
<1>6. Opened(role)' = Opened(role)
  BY <1>5 DEF Opened
<1>7. AddIsFresh(r)' /\ EditIsFresh(r)' /\ SaveIsFresh(r)'
  BY <1>2, <1>3, <1>4, <1>6 DEF AddIsFresh, EditIsFresh, SaveIsFresh
<1> QED BY <1>3, <1>5, <1>7, ReadStep DEF Pending

(* Nor does the read of an edit. *)
LEMMA EditReads ==
  ASSUME OneHandler, IInv, IInv', SerialInv, NEW r \in Requests,
         NEW a \in ActionIds, NEW body \in EditBody, Edit(r, a, body)
  PROVE  SerialInv' /\ Table' = Table
<1>1. /\ req'[r] = [pc |-> "get", kind |-> "edit", action |-> actions[a], body |-> body]
      /\ UNCHANGED <<findings, actions>> /\ req[r].pc = "idle" /\ actions[a] # None
  BY DEF Edit, IInv, TypeOK
<1>2. actions[a].id = a
  BY <1>1 DEF IInv, TypeOK, TablesOK, Stored, ActionTable
<1>3. AddIsFresh(r)' /\ EditIsFresh(r)' /\ SaveIsFresh(r)'
  BY <1>1, <1>2 DEF AddIsFresh, EditIsFresh, SaveIsFresh
<1> QED BY <1>1, <1>3, ReadStep DEF Pending

(* Nor does the read before a status is set. *)
LEMMA SetStatusReads ==
  ASSUME OneHandler, IInv, IInv', SerialInv, NEW r \in Requests,
         NEW f \in FindingIds, NEW status \in Statuses, SetStatus(r, f, status)
  PROVE  SerialInv' /\ Table' = Table
<1> DEFINE copy == [findings[f] EXCEPT !.status = status]
<1>1. /\ req'[r] = [pc |-> "save", kind |-> "status", finding |-> copy]
      /\ UNCHANGED <<findings, actions>> /\ req[r].pc = "idle" /\ findings[f] # None
  BY DEF SetStatus, IInv, TypeOK
<1>2. findings[f] \in Finding /\ f \in Stored(findings)
  BY <1>1 DEF IInv, TypeOK, Stored, FindingTable
<1>3. Current(findings[f])
  BY <1>1, <1>2 DEF SerialInv, CurrentOrPending, OneHandler, Pending
<1>4. copy.id = findings[f].id
  BY <1>2 DEF Finding
<1>5. Current(copy)
  BY <1>2, <1>3, <1>4, RecalculateDocumentFields DEF Current
<1>6. PICK c : c = copy /\ Current(c)
  BY <1>5
<1>7. SaveIsFresh(r)'
  <2>1. Current(c)' /\ req'[r].finding = c
    BY <1>1, <1>6 DEF Current
  <2>2. Current(req[r].finding)'
    BY <2>1 DEF Current
  <2>3. req'[r].kind = "status" =>
          \E g \in FindingIds, st \in Statuses :
            findings'[g] # None /\ req'[r].finding = [findings'[g] EXCEPT !.status = st]
    BY <1>1
  <2> QED BY <2>2, <2>3 DEF SaveIsFresh
<1>8. AddIsFresh(r)' /\ EditIsFresh(r)'
  BY <1>1 DEF AddIsFresh, EditIsFresh
<1> QED BY <1>1, <1>7, <1>8, ReadStep DEF Pending

(* Nor does the read of the finding of an action. *)
LEMMA GetOwnerReads ==
  ASSUME OneHandler, IInv, IInv', SerialInv, NEW r \in Requests, GetOwner(r)
  PROVE  SerialInv' /\ Table' = Table
<1> DEFINE owner == findings[req[r].action.finding]
           edited == ApplyEdit(req[r].action, req[r].body)
<1>1. /\ req'[r] = IF owner = None \/ edited = None THEN Idle
                   ELSE [pc |-> "update", kind |-> "edit", finding |-> owner, action |-> edited]
      /\ UNCHANGED <<findings, actions>> /\ req[r].pc = "get"
  BY DEF GetOwner, IInv, TypeOK
<1>2. /\ req[r].action = actions[req[r].action.id] /\ actions[req[r].action.id] # None
      /\ req[r].action.id \in ActionIds /\ req[r].body \in EditBody
  BY <1>1, HandlerFields DEF SerialInv, EditIsFresh, IInv, EditsOK, Action
<1>3. EditIsFresh(r)'
  BY <1>1, <1>2 DEF EditIsFresh, Idle
<1>4. AddIsFresh(r)' /\ SaveIsFresh(r)' /\ ~Pending(r)'
  BY <1>1 DEF AddIsFresh, SaveIsFresh, Pending, Idle
<1> QED BY <1>1, <1>3, <1>4, ReadStep DEF Pending

(* The list of a finding is read, and its copy recalculated, in memory. *)
LEMMA ListActionsReads ==
  ASSUME OneHandler, IInv, IInv', SerialInv, NEW r \in Requests, ListActions(r)
  PROVE  SerialInv' /\ Table' = Table
<1> DEFINE finding == req[r].finding
           updated == RecalculateDocument(finding, ListForPolicy(actions, finding.id))
<1>1. /\ req'[r] = [pc |-> "save", kind |-> req[r].kind, finding |-> updated]
      /\ UNCHANGED <<findings, actions>> /\ req[r].pc = "list"
  BY DEF ListActions, IInv, TypeOK
<1>2. finding \in Finding /\ req[r].kind \in {"analyse", "edit"}
  BY <1>1, HandlerFields DEF IInv
<1>3. updated.id = finding.id /\ Current(updated)
  BY <1>2, RecalculateDocumentFields DEF Current
<1>4. Pending(r) /\ Pending(r)'
  BY <1>1, <1>2 DEF Pending
<1> HIDE DEF updated
<1>5. Table' = Table
  <2>1. \A f \in FindingIds : Table'[f] = Table[f]
    BY <1>1, <1>3, <1>4, TableOf, TableOfNext DEF updated
  <2>2. Table = [f \in FindingIds |-> Table[f]] /\ Table' = [f \in FindingIds |-> Table'[f]]
    BY DEF Table
  <2> QED BY <2>1, <2>2
<1>6. Current(req[r].finding)'
  BY <1>1, <1>3 DEF Current
<1>7. \A s \in Requests : s = r
  BY DEF OneHandler
<1>8. CurrentOrPending'
  BY <1>1, <1>3, <1>4, <1>7 DEF SerialInv, CurrentOrPending, Current, Stored
<1>9. AddIsFresh(r)' /\ EditIsFresh(r)' /\ SaveIsFresh(r)'
  BY <1>1, <1>2, <1>6 DEF AddIsFresh, EditIsFresh, SaveIsFresh
<1> QED BY <1>5, <1>7, <1>8, <1>9 DEF SerialInv

-----------------------------------------------------------------------------
(* The functions of Findings are the same ones in AtomicFindings. *)
LEMMA SameFunctions ==
  /\ Atomic!AdviceCounts = AdviceCounts /\ Atomic!EditBody = EditBody
  /\ Atomic!Statuses = Statuses
  /\ \A a, f, role, n : Atomic!NewAction(a, f, role, n) = NewAction(a, f, role, n)
  /\ \A f, role : Atomic!NewFinding(f, role) = NewFinding(f, role)
  /\ \A action, body : Atomic!ApplyEdit(action, body) = ApplyEdit(action, body)
  /\ \A acts, f : Atomic!ListForPolicy(acts, f) = ListForPolicy(acts, f)
  /\ \A finding, acts :
       Atomic!RecalculateDocument(finding, acts) = RecalculateDocument(finding, acts)
  /\ \A table, role, status :
       Atomic!FindByRole(table, role, status) = FindByRole(table, role, status)
  /\ \A table : Atomic!Stored(table) = Stored(table)
<1>1. /\ Atomic!AdviceCounts = AdviceCounts /\ Atomic!EditBody = EditBody
      /\ Atomic!Statuses = Statuses
  BY DEF Atomic!AdviceCounts, AdviceCounts, Atomic!EditBody, EditBody, Atomic!Statuses, Statuses
<1>2. /\ \A a, f, role, n : Atomic!NewAction(a, f, role, n) = NewAction(a, f, role, n)
      /\ \A f, role : Atomic!NewFinding(f, role) = NewFinding(f, role)
  BY DEF Atomic!NewAction, NewAction, Atomic!NewFinding, NewFinding
<1>3. \A action, body : Atomic!ApplyEdit(action, body) = ApplyEdit(action, body)
  BY DEF Atomic!ApplyEdit, ApplyEdit, Atomic!SelectAdvisory, SelectAdvisory
<1>4. \A acts, f : Atomic!ListForPolicy(acts, f) = ListForPolicy(acts, f)
  BY DEF Atomic!ListForPolicy, ListForPolicy
<1>5. \A finding, acts :
        Atomic!RecalculateDocument(finding, acts) = RecalculateDocument(finding, acts)
  <2>1. \A acts : Atomic!Cardinality(acts) = Cardinality(acts)
    BY DEF Atomic!Cardinality, Cardinality
  <2> QED BY <2>1 DEF Atomic!RecalculateDocument, RecalculateDocument, Atomic!Contributing, Contributing,
     Atomic!GetSelectedAdvisory, GetSelectedAdvisory
<1>6. \A table, role, status :
        Atomic!FindByRole(table, role, status) = FindByRole(table, role, status)
  <2>1. \A S : Atomic!Min(S) = Min(S)
    BY DEF Atomic!Min, Min
  <2> QED BY <2>1 DEF Atomic!FindByRole, FindByRole, Atomic!Matching, Matching
<1>7. \A table : Atomic!Stored(table) = Stored(table)
  BY DEF Atomic!Stored, Stored
<1> QED BY <1>1, <1>2, <1>3, <1>4, <1>5, <1>6, <1>7

(* When each step of AtomicFindings takes place. *)
LEMMA AbstractAnalyse ==
  ASSUME TypeOK, Table = findings,
         NEW role \in Roles, NEW n \in AdviceCounts, NEW holder \in Opened(role),
         NEW a \in ActionIds, actions[a] = None,
         actions' = [actions EXCEPT ![a] = NewAction(a, holder.id, role, n)],
         Table' = [Table EXCEPT ![holder.id] =
                     RecalculateDocument(holder, ListForPolicy(actions', holder.id))]
  PROVE  Atomic!Next
<1>1. a \in ActionIds \ Atomic!Stored(actions)
  BY SameFunctions DEF Stored
<1>2. holder \in Atomic!Holders(role)
  BY SameFunctions DEF Atomic!Holders, Opened, Table
<1>3. actions' = [actions EXCEPT ![a] = Atomic!NewAction(a, holder.id, role, n)]
  BY SameFunctions
<1>4. Table' = [Table EXCEPT ![holder.id] = Atomic!Recalculated(holder, actions')]
  BY SameFunctions DEF Atomic!Recalculated
<1>5. Atomic!Analyse(role, n)
  BY <1>1, <1>2, <1>3, <1>4 DEF Atomic!Analyse, Table
<1>6. n \in Atomic!AdviceCounts
  BY SameFunctions
<1> QED BY <1>5, <1>6 DEF Atomic!Next

(* What an edit writes is an edit of AtomicFindings. *)
LEMMA AbstractEdit ==
  ASSUME TypeOK, Table = findings,
         NEW a \in ActionIds, NEW body \in EditBody, actions[a] # None,
         NEW owner, owner = findings[actions[a].finding], owner # None,
         ApplyEdit(actions[a], body) # None,
         actions' = [actions EXCEPT ![a] = ApplyEdit(actions[a], body)],
         Table' = [Table EXCEPT ![owner.id] =
                     RecalculateDocument(owner, ListForPolicy(actions', owner.id))]
  PROVE  Atomic!Next
<1>1. actions' = [actions EXCEPT ![a] = Atomic!ApplyEdit(actions[a], body)]
      /\ Atomic!ApplyEdit(actions[a], body) # None
  BY SameFunctions
<1>2. Table' = [Table EXCEPT ![owner.id] = Atomic!Recalculated(owner, actions')]
  BY SameFunctions DEF Atomic!Recalculated
<1>3. Atomic!Edit(a, body)
  BY <1>1, <1>2 DEF Atomic!Edit, Table
<1>4. body \in Atomic!EditBody
  BY SameFunctions
<1> QED BY <1>3, <1>4 DEF Atomic!Next

(* What setting a status writes is one of AtomicFindings. *)
LEMMA AbstractSetStatus ==
  ASSUME Table = findings, NEW f \in FindingIds, NEW status \in Statuses, findings[f] # None,
         Table' = [Table EXCEPT ![f].status = status], UNCHANGED actions
  PROVE  Atomic!Next
<1>1. Atomic!SetStatus(f, status)
  BY DEF Atomic!SetStatus, Table
<1>2. status \in Atomic!Statuses
  BY SameFunctions
<1> QED BY <1>1, <1>2 DEF Atomic!Next

-----------------------------------------------------------------------------
(* The steps that write a record. *)

(* The list of a finding depends on its own actions only. *)
LEMMA OtherLists ==
  ASSUME TypeOK, NEW action \in Action, NEW f \in FindingIds, f # action.finding,
         actions' = [actions EXCEPT ![action.id] = action],
         actions[action.id] # None => actions[action.id].finding = action.finding
  PROVE  ListForPolicy(actions', f) = ListForPolicy(actions, f)
<1>1. action.id \in ActionIds /\ actions \in ActionTable /\ action # None
  BY NoneAssumption DEF Action, TypeOK
<1>2. Recorded(actions', f) = Recorded(actions, f)
  BY <1>1 DEF Recorded, ActionTable
<1>3. \A b \in Recorded(actions, f) : actions'[b] = actions[b]
  BY <1>1 DEF Recorded, ActionTable
<1> QED BY <1>2, <1>3 DEF ListForPolicy, Recorded

(* An action is written: in the table of AtomicFindings its finding is     *)
(* recalculated at once, and the other findings are up to date as before.  *)
LEMMA ActionWriteStep ==
  ASSUME OneHandler, IInv, IInv', SerialInv, NEW r \in Requests, req[r].pc \in {"add", "update"},
         NEW kind \in {"analyse", "edit"},
         req' = [req EXCEPT ![r] = [pc |-> "list", kind |-> kind, finding |-> req[r].finding]],
         actions' = [actions EXCEPT ![req[r].action.id] = req[r].action], UNCHANGED findings,
         req[r].action.finding = req[r].finding.id,
         actions[req[r].action.id] # None =>
           actions[req[r].action.id].finding = req[r].action.finding
  PROVE  /\ SerialInv'
         /\ Table = findings
         /\ Table' = [Table EXCEPT ![req[r].finding.id] =
                        RecalculateDocument(req[r].finding,
                                            ListForPolicy(actions', req[r].finding.id))]
<1>1. PICK finding \in Finding, action \in Action :
        finding = req[r].finding /\ action = req[r].action
  BY HandlerFields DEF IInv
<1>2. finding.id \in FindingIds
  BY DEF Finding
<1>3. /\ req'[r] = [pc |-> "list", kind |-> kind, finding |-> finding]
      /\ findings' = findings
      /\ req'[r].pc = "list" /\ req'[r].finding = finding
  BY <1>1 DEF IInv, TypeOK
<1>4. ~Pending(r) /\ Pending(r)'
  BY <1>3 DEF Pending
<1>5. Table = findings
  BY <1>4, TableIsStored DEF IInv
<1>6. Table' = [Table EXCEPT ![finding.id] =
                  RecalculateDocument(finding, ListForPolicy(actions', finding.id))]
  <2>1. \A f \in FindingIds :
          Table'[f] = IF f = finding.id
                      THEN RecalculateDocument(finding, ListForPolicy(actions', finding.id))
                      ELSE Table[f]
    <3>1. \A f \in FindingIds :
            Table'[f] = IF finding.id = f
                        THEN RecalculateDocument(finding, ListForPolicy(actions', f))
                        ELSE findings[f]
      BY <1>3, <1>4, TableOfNext
    <3> QED BY <1>5, <3>1
  <2>2. DOMAIN Table = FindingIds /\ Table' = [f \in FindingIds |-> Table'[f]]
        /\ Table = [f \in FindingIds |-> Table[f]]
    BY DEF Table
  <2> QED BY <1>2, <2>1, <2>2
<1>7. \A s \in Requests : s = r
  BY DEF OneHandler
<1>8. \A f \in FindingIds \ {finding.id} :
        ListForPolicy(actions', f) = ListForPolicy(actions, f)
  BY <1>1, OtherLists DEF IInv
<1>9. CurrentOrPending'
  <2> SUFFICES ASSUME NEW f \in Stored(findings), f # finding.id
               PROVE  Current(findings[f])'
    <3>1. r \in Requests /\ Pending(r)' /\ req'[r].finding.id = finding.id
      BY <1>3, <1>4
    <3> QED BY <1>3, <3>1 DEF CurrentOrPending, Current
  <2>1. f \in FindingIds /\ findings[f].id = f
    BY DEF IInv, TypeOK, FindingTable, TablesOK, Stored
  <2>2. Current(findings[f])
    BY <1>4, <1>7 DEF SerialInv, CurrentOrPending
  <2> QED BY <1>3, <1>8, <2>1, <2>2 DEF Current
<1>10. AddIsFresh(r)' /\ EditIsFresh(r)' /\ SaveIsFresh(r)'
  BY <1>3 DEF AddIsFresh, EditIsFresh, SaveIsFresh
<1> QED BY <1>1, <1>5, <1>6, <1>7, <1>9, <1>10 DEF SerialInv

(* Storing the new action is the abstract event as a whole. *)
LEMMA AddActionWrites ==
  ASSUME OneHandler, IInv, IInv', SerialInv, NEW r \in Requests, AddAction(r)
  PROVE  SerialInv' /\ Atomic!Next
<1>1. PICK role \in Roles, n \in AdviceCounts, a \in ActionIds :
        /\ req[r].finding \in Opened(role)
        /\ req[r].action = NewAction(a, req[r].finding.id, role, n)
  BY DEF AddAction, SerialInv, AddIsFresh
<1>2. /\ req[r].action.id = a /\ actions[a] = None
      /\ req[r].action.finding = req[r].finding.id
  BY <1>1 DEF NewAction, AddAction, IInv, AddsOK
<1>3. /\ SerialInv'
      /\ Table = findings
      /\ Table' = [Table EXCEPT ![req[r].finding.id] =
                     RecalculateDocument(req[r].finding,
                                         ListForPolicy(actions', req[r].finding.id))]
  BY <1>2, ActionWriteStep DEF AddAction
<1>4. actions' = [actions EXCEPT ![a] = NewAction(a, req[r].finding.id, role, n)]
  BY <1>1, <1>2 DEF AddAction
<1>5. PICK holder : holder = req[r].finding
  OBVIOUS
<1> QED BY <1>1, <1>2, <1>3, <1>4, <1>5, AbstractAnalyse DEF IInv

(* Storing the edited action is the abstract edit as a whole. *)
LEMMA UpdateActionWrites ==
  ASSUME OneHandler, IInv, IInv', SerialInv, NEW r \in Requests, UpdateAction(r)
  PROVE  SerialInv' /\ Atomic!Next
<1>1. PICK a \in ActionIds, body \in EditBody :
        /\ actions[a] # None
        /\ req[r].action = ApplyEdit(actions[a], body)
        /\ req[r].finding = findings[actions[a].finding]
  BY DEF UpdateAction, SerialInv, EditIsFresh
<1>2. /\ req[r].action # None /\ req[r].finding # None
      /\ req[r].action \in Action /\ req[r].finding \in Finding
  BY HandlerFields, NoneAssumption DEF UpdateAction, IInv
<1>3. actions[a] \in Action /\ actions[a].id = a /\ actions[a].finding \in FindingIds
  BY <1>1 DEF IInv, TypeOK, ActionTable, TablesOK, Stored, Action
<1>4. req[r].action.id = a /\ req[r].action.finding = actions[a].finding
  BY <1>1, <1>2, <1>3, ApplyEditType
<1>5. req[r].finding.id = actions[a].finding
  BY <1>1, <1>2, <1>3 DEF IInv, TablesOK, Stored, TypeOK, FindingTable
<1>6. /\ SerialInv'
      /\ Table = findings
      /\ Table' = [Table EXCEPT ![req[r].finding.id] =
                     RecalculateDocument(req[r].finding,
                                         ListForPolicy(actions', req[r].finding.id))]
  BY <1>4, <1>5, ActionWriteStep DEF UpdateAction
<1>7. actions' = [actions EXCEPT ![a] = ApplyEdit(actions[a], body)]
  BY <1>1, <1>4 DEF UpdateAction
<1>8. PICK owner : owner = req[r].finding
  OBVIOUS
<1> QED BY <1>1, <1>2, <1>6, <1>7, <1>8, AbstractEdit DEF IInv

(* The write of an event's or an edit's finding completes what AtomicFindings *)
(* has done already; a status takes effect with it.                        *)
LEMMA SaveFindingWrites ==
  ASSUME OneHandler, IInv, IInv', SerialInv, NEW r \in Requests, SaveFinding(r)
  PROVE  SerialInv' /\ (Table' = Table \/ Atomic!Next)
<1>1. PICK finding \in Finding : finding = req[r].finding
  BY HandlerFields DEF SaveFinding, IInv
<1>2. /\ req'[r].pc = "idle" /\ finding.id \in FindingIds /\ finding # None
      /\ findings' = [findings EXCEPT ![finding.id] = finding] /\ actions' = actions
      /\ findings \in FindingTable /\ findings' \in FindingTable
  BY <1>1, NoneAssumption DEF SaveFinding, IInv, TypeOK, Finding, Idle
<1>3. \A s \in Requests : s = r
  BY DEF OneHandler
<1>4. Current(finding)
  BY <1>1 DEF SaveFinding, SerialInv, SaveIsFresh
<1>5. ~Pending(r)'
  BY <1>2 DEF Pending
<1>6. Table' = findings'
  BY <1>5, TableIsStoredNext DEF IInv
<1>7. CurrentOrPending'
  <2> SUFFICES ASSUME NEW f \in Stored(findings')
               PROVE  Current(findings[f])'
    BY DEF CurrentOrPending
  <2>1. CASE f = finding.id
    <3>1. findings'[f] = finding
      BY <1>2, <2>1 DEF FindingTable
    <3> QED BY <1>2, <1>4, <3>1 DEF Current
  <2>2. CASE f # finding.id
    <3>1. f \in Stored(findings) /\ findings'[f] = findings[f]
      BY <1>2, <2>2 DEF FindingTable, Stored
    <3>2. Current(findings[f])
      BY <1>1, <1>3, <2>2, <3>1 DEF SerialInv, CurrentOrPending
    <3> QED BY <1>2, <3>1, <3>2 DEF Current
  <2> QED BY <2>1, <2>2
<1>8. SerialInv'
  BY <1>2, <1>3, <1>7 DEF SerialInv, AddIsFresh, EditIsFresh, SaveIsFresh
<1>9. CASE req[r].kind = "status"
  <2>1. PICK f \in FindingIds, status \in Statuses :
          findings[f] # None /\ finding = [findings[f] EXCEPT !.status = status]
    BY <1>1, <1>9 DEF SaveFinding, SerialInv, SaveIsFresh
  <2>2. findings[f] \in Finding /\ findings[f].id = f
    BY <2>1 DEF IInv, TypeOK, FindingTable, TablesOK, Stored
  <2>3. finding.id = f
    BY <2>1, <2>2 DEF Finding
  <2>4. Table = findings
    BY <1>9, TableIsStored DEF Pending, IInv
  <2>5. Table' = [Table EXCEPT ![f].status = status]
    BY <1>2, <1>6, <2>1, <2>3, <2>4
  <2>6. Atomic!Next
    BY <1>2, <2>1, <2>4, <2>5, AbstractSetStatus
  <2> QED BY <1>8, <2>6
<1>10. CASE req[r].kind # "status"
  <2>1. Pending(r) /\ req[r].pc = "save"
    BY <1>10 DEF Pending, SaveFinding
  <2>2. \A f \in FindingIds : Table[f] = IF finding.id = f THEN finding ELSE findings[f]
    BY <1>1, <2>1, TableOf
  <2>3. Table = [f \in FindingIds |-> Table[f]]
    BY DEF Table
  <2>4. Table' = Table
    BY <1>2, <1>6, <2>2, <2>3 DEF FindingTable
  <2> QED BY <1>8, <2>4
<1> QED BY <1>9, <1>10

-----------------------------------------------------------------------------
(* Every step of a handler is a step of AtomicFindings or leaves its tables. *)
LEMMA SerialStep ==
  ASSUME OneHandler, ~CanFail, IInv, SerialInv, [Next]_vars
  PROVE  SerialInv' /\ (Atomic!Next \/ (Table' = Table /\ actions' = actions))
<1>1. IInv'
  BY NextIInv
<1>2. CASE UNCHANGED vars
  <2>1. Table' = Table
    BY <1>2 DEF vars, Table, AbstractFinding, Pending
  <2>2. SerialInv'
    <3>1. findings' = findings /\ actions' = actions /\ req' = req
      BY <1>2 DEF vars
    <3>2. \A r \in Requests : AddIsFresh(r)'
      BY <3>1 DEF SerialInv, AddIsFresh, Opened
    <3>3. \A r \in Requests : EditIsFresh(r)'
      BY <3>1 DEF SerialInv, EditIsFresh
    <3>4. \A r \in Requests : SaveIsFresh(r)'
      BY <3>1 DEF SerialInv, SaveIsFresh, Current
    <3>5. CurrentOrPending'
      BY <3>1 DEF SerialInv, CurrentOrPending, Current, Pending
    <3> QED BY <3>2, <3>3, <3>4, <3>5 DEF SerialInv
  <2> QED BY <1>2, <2>1, <2>2 DEF vars
<1>3. ASSUME NEW r \in Requests, Receive(r)
      PROVE  SerialInv' /\ Table' = Table /\ actions' = actions
  BY <1>1, <1>3, AnalyseReads, EditReads, SetStatusReads DEF Receive, Analyse, Edit, SetStatus
<1>4. ASSUME NEW r \in Requests, GetOwner(r) \/ ListActions(r)
      PROVE  SerialInv' /\ Table' = Table /\ actions' = actions
  BY <1>1, <1>4, GetOwnerReads, ListActionsReads DEF GetOwner, ListActions
<1>5. ASSUME NEW r \in Requests, AddAction(r) \/ UpdateAction(r)
      PROVE  SerialInv' /\ Atomic!Next
  BY <1>1, <1>5, AddActionWrites, UpdateActionWrites
<1>6. ASSUME NEW r \in Requests, SaveFinding(r)
      PROVE  SerialInv' /\ (Atomic!Next \/ (Table' = Table /\ actions' = actions))
  BY <1>1, <1>6, SaveFindingWrites DEF SaveFinding
<1> QED BY <1>2, <1>3, <1>4, <1>5, <1>6 DEF Next, Step, Fail

(* The initial states are initial states of AtomicFindings. *)
LEMMA SerialInit == Init => SerialInv /\ Atomic!Init
<1> SUFFICES ASSUME Init PROVE SerialInv /\ Atomic!Init
  OBVIOUS
<1>1. \A r \in Requests : req[r].pc = "idle"
  BY DEF Init, Idle
<1>2. SerialInv
  BY <1>1 DEF Init, SerialInv, AddIsFresh, EditIsFresh, SaveIsFresh, CurrentOrPending, Stored
<1>3. \A f \in FindingIds : AbstractFinding(f) = None
  BY <1>1 DEF Init, AbstractFinding, Pending
<1> QED BY <1>2, <1>3 DEF Init, Atomic!Init

(* Served one at a time and without failures, AnalyseEvent, EditAction and *)
(* SetFindingStatus behave as single steps on the store.                   *)
THEOREM PipelineImplementsAtomic ==
  ASSUME OneHandler, ~CanFail
  PROVE  Spec => ImplementsAtomic
<1>1. Init => SerialInv /\ Atomic!Init
  BY SerialInit
<1>2. IInv /\ SerialInv /\ [Next]_vars => SerialInv' /\ [Atomic!Next]_(Atomic!vars)
  <2> SUFFICES ASSUME IInv, SerialInv, [Next]_vars
               PROVE  SerialInv' /\ [Atomic!Next]_(Atomic!vars)
    OBVIOUS
  <2>1. SerialInv' /\ (Atomic!Next \/ (Table' = Table /\ actions' = actions))
    BY SerialStep
  <2>2. Table' = Table /\ actions' = actions => UNCHANGED Atomic!vars
    BY DEF Atomic!vars, Table
  <2> QED BY <2>1, <2>2
<1> QED BY <1>1, <1>2, Invariance, PTL DEF Spec, ImplementsAtomic, Atomic!Spec

(* "RecalculateDocument rebuilds the policy document based on the actions": *)
(* no sequence of events, edits and status changes leaves a stored finding *)
(* with another document or count than its actions now give.               *)
THEOREM FindingsUpToDate ==
  ASSUME OneHandler, ~CanFail
  PROVE  Spec => []UpToDate
<1>1. Init => SerialInv
  BY SerialInit
<1>2. IInv /\ SerialInv /\ [Next]_vars => SerialInv'
  BY SerialStep
<1>3. IInv /\ SerialInv => UpToDate
  <2> SUFFICES ASSUME IInv, SerialInv, Quiescent, NEW f \in Stored(findings)
               PROVE  findings[f] =
                        RecalculateDocument(findings[f], ListForPolicy(actions, f))
    BY DEF UpToDate
  <2>1. Current(findings[f])
    BY DEF SerialInv, CurrentOrPending, Quiescent, Pending
  <2>2. findings[f].id = f
    BY DEF IInv, TablesOK
  <2> QED BY <2>1, <2>2 DEF Current
<1> QED BY <1>1, <1>2, <1>3, Invariance, PTL DEF Spec

=============================================================================
