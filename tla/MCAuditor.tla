----------------------------- MODULE MCAuditor -----------------------------
(* Instances of Auditor for TLC. *)
EXTENDS Auditor

CONSTANTS acctA, acctB, rA, rB, polA, polB, s1, s2, s3, id1, id2, id3, id4

TwoAccounts == {acctA, acctB}
TwoRoles    == {rA, rB}
TwoPolicies == {polA, polB}
ThreeStacks == {s1, s2, s3}
FourIds     == {id1, id2, id3, id4}

Names(rs, assume) == [effect |-> "Allow", assume |-> assume, resource |-> rs]
Trusts(r, assume) == [effect |-> "Allow", assume |-> assume, principal |-> r]

(* polA is a policy of the first account, or one of AWS's own; the roles are *)
(* in one account or in two.                                                 *)
PagedWorlds ==
  [auditRoles : {<<acctA>>, <<acctA, acctB>>},
   policies   : {[c \in Accounts |-> IF c = acctA THEN {polA} ELSE own] : own \in {{polB}, {polA, polB}}},
   document   : {[p \in Policies |-> IF p = polA THEN {Names({rA, rB}, TRUE)} ELSE {Names({rB}, assume)}] :
                   assume \in BOOLEAN},
   roles      : {[c \in Accounts |-> IF c = acctA THEN {rA} ELSE {rB}],
                 [c \in Accounts |-> IF c = acctA THEN {} ELSE {rA, rB}]},
   attached   : [Roles -> SUBSET Policies],
   inline     : {[r \in Roles |-> IF r = rA THEN inline ELSE {}] : inline \in {{}, {Names({rB}, TRUE)}}},
   trust      : {[r \in Roles |-> IF r = rA THEN trust ELSE {Trusts(rA, assume)}] :
                   trust \in {{}, {Trusts(rB, TRUE)}}, assume \in BOOLEAN},
   stacks     : {[c \in Accounts |-> <<>>]},
   cdk        : {{}},
   unnamed    : {{}},
   resources  : {[k \in Stacks |-> <<>>]},
   bare       : {{}}]

(* The policies attached are all on the first page of ListPolicies. *)
RoleWorlds ==
  {w \in PagedWorlds : \A c \in Accounts : \A r \in w.roles[c] : w.attached[r] \subseteq w.policies[c]}

(* rA is denied what it would need. *)
DenyWorlds == {[w EXCEPT !.inline[rA] = {[effect |-> "Deny", assume |-> TRUE, resource |-> {rB}]}] :
                 w \in RoleWorlds}

(* Two audit roles of one account. *)
RepeatedWorlds == {[w EXCEPT !.auditRoles = <<acctB, acctB>>] : w \in RoleWorlds}

(* Two stacks in the first account and one in the second, CDK or not. *)
StackWorlds ==
  [auditRoles : {<<>>, <<acctA>>, <<acctA, acctB>>},
   policies   : {[c \in Accounts |-> {}]},
   document   : {[p \in Policies |-> {}]},
   roles      : {[c \in Accounts |-> {}]},
   attached   : {[r \in Roles |-> {}]},
   inline     : {[r \in Roles |-> {}]},
   trust      : {[r \in Roles |-> {}]},
   stacks     : {[c \in Accounts |-> IF c = acctA THEN <<s1, s2>> ELSE <<s3>>]},
   cdk        : SUBSET Stacks,
   unnamed    : {{}, {s2}},
   resources  : {[k \in Stacks |-> CASE k = s1 -> <<id1, id2>> [] k = s2 -> <<id3>> [] OTHER -> <<id4>>]},
   bare       : {{}, {id2}, {id3, id4}}]

(* The two accounts use one physical id. *)
SharedIdWorlds == {[w EXCEPT !.resources[s3] = <<id1>>] : w \in StackWorlds}

SmallWorlds == RoleWorlds \cup StackWorlds
=============================================================================
