--------------------------- MODULE EventPipeline ---------------------------
(***************************************************************************)
(* The collector's AnalyseEvent and the console's EditAction and           *)
(* SetFindingStatus, over the store that the processes share.  A handler   *)
(* is a goroutine making one storage call after another; nothing holds a   *)
(* lock or a transaction across two calls.  Each call is atomic (a storm   *)
(* transaction on Bolt) and writes a whole record back, so a step of the   *)
(* model is one storage call with the local work that follows it, and a    *)
(* handler keeps the records it read in req between its steps.             *)
(***************************************************************************)
EXTENDS Findings

CONSTANTS
  Requests,  \* handlers that run at a time: goroutines of HTTP requests, SQS workers
  Kinds,     \* the handlers that are called: "analyse", "edit", "status"
  CanFail    \* whether a storage call may fail or the process stop

ASSUME KindsAssumption == Kinds \subseteq {"analyse", "edit", "status"}
ASSUME CanFailAssumption == CanFail \in BOOLEAN

VARIABLES
  findings,  \* the finding table
  actions,   \* the action table
  req        \* what each handler is about to do, and its local records

vars == <<findings, actions, req>>

Idle == [pc |-> "idle"]

(* pc is the next storage call: Action.Add, Finding.Get, Action.Update,    *)
(* Action.ListForPolicy or Finding.CreateOrUpdate.                         *)
RequestState ==
  {Idle}
  \cup [pc : {"add"}, kind : {"analyse"}, finding : Finding, action : Action]
  \cup [pc : {"get"}, kind : {"edit"}, action : Action, body : EditBody]
  \cup [pc : {"update"}, kind : {"edit"}, finding : Finding, action : Action]
  \cup [pc : {"list"}, kind : {"analyse", "edit"}, finding : Finding]
  \cup [pc : {"save"}, kind : {"analyse", "edit", "status"}, finding : Finding]

TypeOK ==
  /\ findings \in FindingTable
  /\ actions \in ActionTable
  /\ req \in [Requests -> RequestState]

Init ==
  /\ findings = [f \in FindingIds |-> None]
  /\ actions = [a \in ActionIds |-> None]
  /\ req = [r \in Requests |-> Idle]

-----------------------------------------------------------------------------
(* uuid.NewString returns an id that nothing has: no record, no handler's   *)
(* local record, and no reference.                                          *)
HoldsFinding(r) == req[r].pc \in {"add", "update", "list", "save"}

FreshFindingIds ==
  {f \in FindingIds : /\ findings[f] = None
                      /\ \A a \in Stored(actions) : actions[a].finding # f
                      /\ \A r \in Requests : HoldsFinding(r) => req[r].finding.id # f}

(* Mutant: the id is derived from the event, which may have been seen. *)
FreshActionIds_Derived == ActionIds

FreshActionIds ==
  {a \in ActionIds : /\ actions[a] = None
                     /\ \A r \in Requests : req[r].pc = "add" => req[r].action.id # a}

(* Mutant: a resolved finding is taken too. *)
Holders_AnyStatus(role) ==
  LET found == {s \in Statuses : FindByRole(findings, role, s) # None}
  IN  IF found # {} THEN {FindByRole(findings, role, s) : s \in found}
      ELSE {NewFinding(f, role) : f \in FreshFindingIds}

(* The finding AnalyseEvent works on, whether found or made up in memory. *)
Holders(role) ==
  LET found == FindByRole(findings, role, "active")
  IN  IF found # None THEN {found}
      ELSE {NewFinding(f, role) : f \in FreshFindingIds}

(* AnalyseEvent, up to Action.Add: the role's active finding is looked up  *)
(* and the action built from the n advices of the event's operation.  An   *)
(* event that fails here (ARN, advice) changes nothing: a stuttering step. *)
Analyse(r, role, n) ==
  /\ "analyse" \in Kinds
  /\ req[r].pc = "idle"
  /\ \E holder \in Holders(role), a \in FreshActionIds :
       req' = [req EXCEPT ![r] = [pc |-> "add", kind |-> "analyse", finding |-> holder,
                                  action |-> NewAction(a, holder.id, role, n)]]
  /\ UNCHANGED <<findings, actions>>

AddAction(r) ==
  /\ req[r].pc = "add"
  /\ actions' = [actions EXCEPT ![req[r].action.id] = req[r].action]
  /\ req' = [req EXCEPT ![r] = [pc |-> "list", kind |-> "analyse", finding |-> req[r].finding]]
  /\ UNCHANGED findings

(* EditAction reads the action, then its finding. *)
Edit(r, a, body) ==
  /\ "edit" \in Kinds
  /\ req[r].pc = "idle"
  /\ actions[a] # None
  /\ req' = [req EXCEPT ![r] = [pc |-> "get", kind |-> "edit", action |-> actions[a],
                                body |-> body]]
  /\ UNCHANGED <<findings, actions>>

GetOwner(r) ==
  /\ req[r].pc = "get"
  /\ LET owner  == findings[req[r].action.finding]
         edited == ApplyEdit(req[r].action, req[r].body)
     IN  req' = [req EXCEPT ![r] =
                   IF owner = None \/ edited = None THEN Idle
                   ELSE [pc |-> "update", kind |-> "edit", finding |-> owner,
                         action |-> edited]]
  /\ UNCHANGED <<findings, actions>>

(* Mutant: the finding is saved as it was read. *)
UpdateAction_NoRecalculation(r) ==
  /\ req[r].pc = "update"
  /\ actions' = [actions EXCEPT ![req[r].action.id] = req[r].action]
  /\ req' = [req EXCEPT ![r] = [pc |-> "save", kind |-> "edit", finding |-> req[r].finding]]
  /\ UNCHANGED findings

UpdateAction(r) ==
  /\ req[r].pc = "update"
  /\ actions' = [actions EXCEPT ![req[r].action.id] = req[r].action]
  /\ req' = [req EXCEPT ![r] = [pc |-> "list", kind |-> "edit", finding |-> req[r].finding]]
  /\ UNCHANGED findings

(* SetFindingStatus reads the finding and sets the status of its copy. *)
SetStatus(r, f, status) ==
  /\ "status" \in Kinds
  /\ req[r].pc = "idle"
  /\ findings[f] # None
  /\ req' = [req EXCEPT ![r] = [pc |-> "save", kind |-> "status",
                                finding |-> [findings[f] EXCEPT !.status = status]]]
  /\ UNCHANGED <<findings, actions>>

(* Mutant: a finding with nothing to recommend is not saved. *)
ListActions_SkipsEmpty(r) ==
  /\ req[r].pc = "list"
  /\ LET finding == req[r].finding
         updated == RecalculateDocument(finding, ListForPolicy(actions, finding.id))
     IN  req' = [req EXCEPT ![r] =
                   IF updated.document = {} THEN Idle
                   ELSE [pc |-> "save", kind |-> req[r].kind, finding |-> updated]]
  /\ UNCHANGED <<findings, actions>>

(* ListForPolicy, and RecalculateDocument on the handler's copy. *)
ListActions(r) ==
  /\ req[r].pc = "list"
  /\ LET finding == req[r].finding
     IN  req' = [req EXCEPT ![r] =
                   [pc |-> "save", kind |-> req[r].kind,
                    finding |-> RecalculateDocument(finding, ListForPolicy(actions, finding.id))]]
  /\ UNCHANGED <<findings, actions>>

(* Mutant: only findings already stored are written. *)
SaveFinding_UpdatesOnly(r) ==
  /\ req[r].pc = "save"
  /\ findings' = IF findings[req[r].finding.id] = None THEN findings
                 ELSE [findings EXCEPT ![req[r].finding.id] = req[r].finding]
  /\ req' = [req EXCEPT ![r] = Idle]
  /\ UNCHANGED actions

(* CreateOrUpdate writes the handler's whole copy of the finding. *)
SaveFinding(r) ==
  /\ req[r].pc = "save"
  /\ findings' = [findings EXCEPT ![req[r].finding.id] = req[r].finding]
  /\ req' = [req EXCEPT ![r] = Idle]
  /\ UNCHANGED actions

(* A storage call returns an error and the handler gives up, or its process *)
(* stops: the calls made so far stay.                                       *)
Fail(r) ==
  /\ CanFail
  /\ req[r].pc # "idle"
  /\ req' = [req EXCEPT ![r] = Idle]
  /\ UNCHANGED <<findings, actions>>

Receive(r) ==
  \/ \E role \in Roles, n \in AdviceCounts : Analyse(r, role, n)
  \/ \E a \in ActionIds, body \in EditBody : Edit(r, a, body)
  \/ \E f \in FindingIds, status \in Statuses : SetStatus(r, f, status)

Step(r) ==
  \/ AddAction(r)
  \/ GetOwner(r)
  \/ UpdateAction(r)
  \/ ListActions(r)
  \/ SaveFinding(r)

Next == \E r \in Requests : Receive(r) \/ Step(r) \/ Fail(r)

Spec == Init /\ [][Next]_vars

(* A handler that runs is scheduled and its storage call returns. *)
FairSpec == Spec /\ \A r \in Requests : WF_vars(Step(r))

-----------------------------------------------------------------------------
(* Safety of any number of overlapping handlers, with failures. *)

(* RecalculateDocument dereferences the selected advisory of every enabled *)
(* action that has recommendations, without a nil check: no interleaving   *)
(* of events and edits stores an action on which it would panic.           *)
NoNilAdvisory ==
  \A a \in Stored(actions) :
    actions[a].enabled /\ actions[a].advice > 0 => GetSelectedAdvisory(actions[a]) # None

(* Least privilege: a stored policy grants only what some recorded action  *)
(* of that very finding was advised, however the handlers that wrote the   *)
(* finding and its actions overlapped or failed.                           *)
GrantsOnly(finding) ==
  \A grant \in finding.document :
    LET action == actions[grant[1]]
    IN  /\ action # None
        /\ action.finding = finding.id
        /\ grant[2] \in 1..action.advice

DocumentGrounded == \A f \in Stored(findings) : GrantsOnly(findings[f])

(* A stored event count is one the finding really reached, if late: never  *)
(* more than its recorded actions, and never fewer than the advisories in  *)
(* its document.                                                           *)
CountReached ==
  \A f \in Stored(findings) :
    /\ findings[f].eventCount <= Cardinality(ListForPolicy(actions, f))
    /\ Cardinality(findings[f].document) <= findings[f].eventCount

(* An action and the finding it refers to are about one role, although the *)
(* two records are written by different calls, in that order.              *)
OwnerHasTheRole ==
  \A a \in Stored(actions) :
    LET owner == findings[actions[a].finding]
    IN  owner # None => owner.role = actions[a].role

(* What no step may do: lose a record, or move a recorded action to another *)
(* finding, role or advice, or a finding to another role, with a copy of the *)
(* record that a handler read earlier.                                       *)
KeepsOrigin ==
  /\ \A a \in Stored(actions) :
       /\ actions'[a] # None
       /\ actions'[a].finding = actions[a].finding
       /\ actions'[a].role = actions[a].role
       /\ actions'[a].advice = actions[a].advice
  /\ \A f \in Stored(findings) :
       findings'[f] # None /\ findings'[f].role = findings[f].role

OriginKept == [][KeepsOrigin]_vars

-----------------------------------------------------------------------------
(* When no storage call fails. *)

(* An action is recorded before its finding: until the finding is stored, *)
(* a handler that will store it is on its way.                            *)
OwnedOrPending ==
  \A a \in Stored(actions) :
    \/ findings[actions[a].finding] # None
    \/ \E r \in Requests : /\ req[r].pc \in {"list", "save"}
                           /\ req[r].finding.id = actions[a].finding

(* So the finding of every recorded action gets stored in the end, and the *)
(* console can show and edit the action.                                   *)
EveryActionGetsItsFinding ==
  \A a \in ActionIds, f \in FindingIds :
    actions[a] # None /\ actions[a].finding = f ~> findings[f] # None

-----------------------------------------------------------------------------
(* What overlapping handlers break; serial ones keep it. *)

Quiescent == \A r \in Requests : req[r].pc = "idle"

(* "RecalculateDocument rebuilds the policy document based on the actions": *)
(* with no handler running, every stored finding is what it would compute.  *)
UpToDate ==
  Quiescent => \A f \in Stored(findings) :
                 findings[f] = RecalculateDocument(findings[f], ListForPolicy(actions, f))

(* "create a new policy for the token and role if it doesn't exist": events *)
(* alone never leave a role with two active findings.                       *)
OneActiveFinding ==
  \A role \in Roles : Cardinality(Matching(findings, role, "active")) <= 1

(* The refinement: an event or an edit takes place when its action is       *)
(* written, a status change when the finding is; a finding that a handler   *)
(* is still to recalculate or save reads as already saved.                  *)
Pending(r) == req[r].pc \in {"list", "save"} /\ req[r].kind # "status"

AbstractFinding(f) ==
  IF \E r \in Requests : Pending(r) /\ req[r].finding.id = f
  THEN LET r == CHOOSE r \in Requests : Pending(r) /\ req[r].finding.id = f
       IN  IF req[r].pc = "save" THEN req[r].finding
           ELSE RecalculateDocument(req[r].finding, ListForPolicy(actions, f))
  ELSE findings[f]

Atomic == INSTANCE AtomicFindings WITH
            findings <- [f \in FindingIds |-> AbstractFinding(f)]

(* One handler at a time, and no failures: the pipeline behaves as if each *)
(* handler were a single step on the store.                                *)
ImplementsAtomic == Atomic!Spec

=============================================================================
