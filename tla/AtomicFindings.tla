--------------------------- MODULE AtomicFindings ---------------------------
(***************************************************************************)
(* What the collector and the console promise about the store, with each   *)
(* handler a single step: the abstract specification that EventPipeline    *)
(* implements when requests do not overlap and no storage call fails.      *)
(***************************************************************************)
EXTENDS Findings

VARIABLES
  findings,  \* the finding table
  actions    \* the action table

vars == <<findings, actions>>

TypeOK == findings \in FindingTable /\ actions \in ActionTable

Init == /\ findings = [f \in FindingIds |-> None]
        /\ actions = [a \in ActionIds |-> None]

Recalculated(finding, acts) == RecalculateDocument(finding, ListForPolicy(acts, finding.id))

(* A finding to hold an event of role: the active one, or a new one. *)
Holders(role) ==
  LET found == FindByRole(findings, role, "active")
  IN  IF found # None THEN {found}
      ELSE {NewFinding(f, role) : f \in FindingIds \ Stored(findings)}

(* An event of role, for whose operation there are n advisory templates. *)
Analyse(role, n) ==
  \E holder \in Holders(role), a \in ActionIds \ Stored(actions) :
    /\ actions' = [actions EXCEPT ![a] = NewAction(a, holder.id, role, n)]
    /\ findings' = [findings EXCEPT ![holder.id] = Recalculated(holder, actions')]

(* An edit of an action; it does nothing when the action, its finding or    *)
(* the chosen advisory does not exist.                                      *)
Edit(a, body) ==
  LET edited == ApplyEdit(actions[a], body)
      owner  == findings[actions[a].finding]
  IN  /\ actions[a] # None
      /\ owner # None
      /\ edited # None
      /\ actions' = [actions EXCEPT ![a] = edited]
      /\ findings' = [findings EXCEPT ![owner.id] = Recalculated(owner, actions')]

SetStatus(f, status) ==
  /\ findings[f] # None
  /\ findings' = [findings EXCEPT ![f].status = status]
  /\ UNCHANGED actions

Next ==
  \/ \E role \in Roles, n \in AdviceCounts : Analyse(role, n)
  \/ \E a \in ActionIds, body \in EditBody : Edit(a, body)
  \/ \E f \in FindingIds, status \in Statuses : SetStatus(f, status)

Spec == Init /\ [][Next]_vars

=============================================================================
