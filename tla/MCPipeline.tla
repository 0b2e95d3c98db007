----------------------------- MODULE MCPipeline -----------------------------
(* Instances of EventPipeline for TLC. *)
EXTENDS EventPipeline, TLC

CONSTANTS r1, r2, a1, a2, a3, roleA, roleB

OneHandler  == {r1}
TwoHandlers == {r1, r2}
OneFinding  == {1}
TwoFindings == {1, 2}
TwoActions  == {a1, a2}
ThreeActions == {a1, a2, a3}
OneRole     == {roleA}
TwoRoles    == {roleA, roleB}
AllKinds    == {"analyse", "edit", "status"}
EventsOnly  == {"analyse"}
EventsAndEdits == {"analyse", "edit"}

(* Handlers, actions and roles are interchangeable; finding ids are ordered. *)
Interchange == Permutations(Requests) \cup Permutations(ActionIds) \cup Permutations(Roles)
=============================================================================
