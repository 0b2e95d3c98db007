------------------------------- MODULE MCScan -------------------------------
(* Instances of CloudTrailScan for TLC. *)
EXTENDS CloudTrailScan, TLC

CONSTANTS r1, r2, a1, a2, a3, roleA, roleB, session, head, list

TwoHandlers   == {r1, r2}
EventsAndStatus == {"analyse", "status"}
TwoFindings   == {1, 2}
ThreeActions  == {a1, a2, a3}
TwoRoles      == {roleA, roleB}
TwoCalls      == {head, list}
ThreeIdentities == {roleA, session, roleB}
TwoTimes      == {1, 2}

RoleIssues    == [i \in ThreeIdentities |-> IF i = roleB THEN roleB ELSE roleA]
OneForHead    == [c \in TwoCalls |-> IF c = head THEN 1 ELSE 0]

At(time, call, identity, kind) == [time |-> time, call |-> call, identity |-> identity, kind |-> kind]

(* A call made twice in one session, a call of the role itself, one of     *)
(* another role and one without a mapping; alone, and with two rows of the *)
(* session that cannot be read.                                            *)
SmallLogs ==
  LET calls == {At(1, head, session, "event"), At(2, head, session, "event"),
                At(1, list, roleA, "event"), At(2, list, roleA, "unmapped"),
                At(1, head, roleB, "event")}
  IN  {calls, calls \cup {At(1, list, session, "malformed"), At(2, list, session, "null")}}

Interchange == Permutations(ActionIds)
=============================================================================
