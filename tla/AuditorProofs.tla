--------------------------- MODULE AuditorProofs ---------------------------
(***************************************************************************)
(* Loading the accounts with groups of goroutines is sound, for any        *)
(* answers of AWS, any failures and any number of accounts, roles,         *)
(* policies and stacks: nobody reads while one writes, no role lacks a     *)
(* policy, a resource is found in its own stack, and the links between     *)
(* roles are their trust relation.                                         *)
(***************************************************************************)
EXTENDS Auditor, FiniteSetTheorems, SequenceTheorems, WellFoundedInduction, TLAPS

(* The precondition: ListPolicies answers every managed policy that a role  *)
(* of the account has, in its one page.                                     *)
PoliciesListed ==
  \A w \in Worlds : \A k \in DOMAIN w.auditRoles :
    \A r \in w.roles[w.auditRoles[k]] : w.attached[r] \subseteq w.policies[w.auditRoles[k]]

(* The goroutines end before Start goes on. *)
Waits == fetching # {} => pc \in {"waitPolicies", "waitRoles"}

(* The types of what the goroutines share. *)
Types ==
  /\ world \in Worlds /\ current \in Nat \ {0}
  /\ fetching \subseteq Fetch
  /\ roles \in Seq(AWSRole)

(* Each policy listed is stored, or being fetched, or its fetch failed. *)
PoliciesFetched ==
  /\ pc \in {"waitPolicies", "roles", "waitRoles"} => current \in DOMAIN world.auditRoles
  /\ pc = "waitPolicies" => \A f \in fetching : f.pc = "details"
  /\ pc = "waitPolicies" /\ ~failed =>
       \A p \in world.policies[Account] : p \in policyMap \/ \E f \in fetching : f.of = p
  /\ pc \in {"roles", "waitRoles"} => world.policies[Account] \subseteq policyMap

(* What a goroutine has read for its role, and which one it is. *)
FetchesComplete ==
  \A f \in fetching :
    /\ f.pc \in {"attached", "inline"} => pc = "waitRoles" /\ f.of \in world.roles[Account]
    /\ f.pc = "inline" => f.permissions = UNION {world.document[p] : p \in world.attached[f.of]}

(* The inductive invariant of loadRoles. *)
IInv ==
  /\ Types
  /\ Waits
  /\ PoliciesFetched
  /\ FetchesComplete
  /\ RolesHaveTheirPolicies

-----------------------------------------------------------------------------
(* An audit starts with nothing loaded and nobody at work. *)
LEMMA Initial == Init => IInv
BY DEF Init, IInv, Types, Waits, PoliciesFetched, FetchesComplete, RolesHaveTheirPolicies

(* What AWS answers is well typed. *)
LEMMA WorldTypes ==
  ASSUME Types
  PROVE  /\ world.auditRoles \in Seq(Accounts)
         /\ world.document \in [Policies -> SUBSET Statement]
         /\ world.policies \in [Accounts -> SUBSET Policies]
         /\ world.roles \in [Accounts -> SUBSET Roles]
         /\ world.attached \in [Roles -> SUBSET Policies]
         /\ world.inline \in [Roles -> SUBSET Statement]
         /\ world.trust \in [Roles -> SUBSET TrustStatement]
<1>1. world \in World
  BY WorldsAssumption DEF Types
<1> QED BY <1>1 DEF World

(* The goroutines of a step of Start that waits for them are none. *)
LEMMA NoFetch ==
  ASSUME IInv, pc \notin {"waitPolicies", "waitRoles"}
  PROVE  fetching = {}
BY DEF IInv, Waits

(* A step of Start while no goroutine runs, and none is started. *)
LEMMA QuietStep ==
  ASSUME IInv, fetching = {}, UNCHANGED <<world, fetching, roles>>,
         pc' \notin {"waitPolicies", "roles", "waitRoles"}, current' \in Nat \ {0}
  PROVE  IInv'
BY DEF IInv, Types, Waits, PoliciesFetched, FetchesComplete, RolesHaveTheirPolicies, PermissionsOf

(* Starting a goroutine per policy document: the roles wait for all of      *)
(* them.                                                                    *)
LEMMA ListPoliciesStep ==
  ASSUME IInv, ListPolicies
  PROVE  IInv'
<1>1. /\ fetching' = [of : world.policies[Account], pc : {"details"}]
      /\ pc' = "waitPolicies" /\ UNCHANGED <<world, current, failed, policyMap, roles>>
      /\ current <= Len(world.auditRoles) /\ pc = "policies"
  BY DEF ListPolicies
<1>2. current \in DOMAIN world.auditRoles /\ Account \in Accounts
  BY <1>1, WorldTypes DEF IInv, Types, Account
<1>3. Types'
  <2>1. world.policies[Account] \subseteq Policies
    BY <1>2, WorldTypes DEF IInv
  <2>2. fetching' \subseteq Fetch
    BY <1>1, <2>1 DEF Fetch
  <2> QED BY <1>1, <2>2 DEF IInv, Types
<1>4. PoliciesFetched'
  <2>1. \A p \in world.policies[Account] : \E f \in fetching' : f.of = p
    <3> SUFFICES ASSUME NEW p \in world.policies[Account] PROVE \E f \in fetching' : f.of = p
      OBVIOUS
    <3>1. [of |-> p, pc |-> "details"] \in fetching'
      BY <1>1
    <3> QED BY <3>1
  <2>2. \A f \in fetching' : f.pc = "details"
    BY <1>1
  <2> QED BY <1>1, <1>2, <2>1, <2>2 DEF PoliciesFetched, Account
<1>5. FetchesComplete'
  BY <1>1 DEF FetchesComplete
<1>6. Waits' /\ RolesHaveTheirPolicies'
  BY <1>1 DEF Waits, IInv, RolesHaveTheirPolicies, PermissionsOf
<1> QED BY <1>3, <1>4, <1>5, <1>6 DEF IInv

(* The join: every document of the account is in the map. *)
LEMMA WaitForPoliciesStep ==
  ASSUME IInv, WaitForPolicies
  PROVE  IInv'
<1>1. /\ fetching = {} /\ pc = "waitPolicies" /\ pc' = IF failed THEN "stopped" ELSE "roles"
      /\ UNCHANGED <<world, current, fetching, failed, policyMap, roles>>
  BY DEF WaitForPolicies
<1>2. PoliciesFetched'
  BY <1>1 DEF IInv, PoliciesFetched, Account
<1> QED BY <1>1, <1>2 DEF IInv, Types, Waits, FetchesComplete, RolesHaveTheirPolicies, PermissionsOf

(* Starting a goroutine per role: nobody writes the map any more. *)
LEMMA ListRolesStep ==
  ASSUME IInv, ListRoles
  PROVE  IInv'
<1>1. /\ pc = "roles" /\ fetching = {} /\ fetching' = [of : world.roles[Account], pc : {"attached"}]
      /\ pc' = "waitRoles" /\ UNCHANGED <<world, current, failed, policyMap, roles>>
  BY NoFetch DEF ListRoles
<1>2. current \in DOMAIN world.auditRoles /\ Account \in Accounts
  BY <1>1, WorldTypes DEF IInv, PoliciesFetched, Account
<1>3. Types'
  BY <1>1, <1>2, WorldTypes DEF IInv, Types, Fetch
<1>4. PoliciesFetched'
  BY <1>1, <1>2 DEF IInv, PoliciesFetched, Account
<1>5. FetchesComplete'
  BY <1>1 DEF FetchesComplete, Account
<1>6. Waits' /\ RolesHaveTheirPolicies'
  BY <1>1 DEF Waits, IInv, RolesHaveTheirPolicies, PermissionsOf
<1> QED BY <1>3, <1>4, <1>5, <1>6 DEF IInv

-----------------------------------------------------------------------------
(* The goroutines. *)

(* A goroutine stores its document while no role reads the map. *)
LEMMA fetchPolicyDetailsStep ==
  ASSUME IInv, NEW f \in fetching, fetchPolicyDetails(f)
  PROVE  IInv'
<1>1. /\ f.pc = "details" /\ policyMap' = policyMap \cup {f.of} /\ fetching' = fetching \ {f}
      /\ UNCHANGED <<world, pc, current, failed, roles>>
  BY DEF fetchPolicyDetails
<1>2. PoliciesFetched'
  BY <1>1 DEF IInv, PoliciesFetched, Account
<1>3. FetchesComplete'
  BY <1>1 DEF IInv, FetchesComplete, Account
<1> QED BY <1>1, <1>2, <1>3 DEF IInv, Types, Waits, RolesHaveTheirPolicies, PermissionsOf

(* A role takes the documents of its attached policies: all are in the map. *)
LEMMA FetchAttachedStep ==
  ASSUME PoliciesListed, IInv, NEW f \in fetching, FetchAttached(f)
  PROVE  IInv'
<1> DEFINE read == UNION {world.document[p] : p \in world.attached[f.of] \cap policyMap}
           next == [of |-> f.of, pc |-> "inline", permissions |-> read]
<1>1. /\ f.pc = "attached" /\ fetching' = (fetching \ {f}) \cup {next}
      /\ UNCHANGED <<world, pc, current, failed, policyMap, roles>>
  BY DEF FetchAttached
<1>2. pc = "waitRoles" /\ f.of \in world.roles[Account] /\ f.of \in Roles
      /\ current \in DOMAIN world.auditRoles
  BY <1>1 DEF IInv, Types, Fetch, FetchesComplete, PoliciesFetched
<1>3. world.attached[f.of] \subseteq policyMap
  BY <1>2 DEF PoliciesListed, IInv, Types, PoliciesFetched, Account
<1>4. world.attached[f.of] \cap policyMap = world.attached[f.of]
  BY <1>3
<1>5. read = UNION {world.document[p] : p \in world.attached[f.of]}
  BY <1>4
<1>6. read \in SUBSET Statement
  BY <1>2, <1>5, WorldTypes DEF IInv
<1> HIDE DEF read
<1>7. Types'
  BY <1>1, <1>2, <1>6 DEF IInv, Types, Fetch
<1>8. FetchesComplete'
  BY <1>1, <1>2, <1>5 DEF IInv, FetchesComplete, Account
<1>9. PoliciesFetched' /\ Waits' /\ RolesHaveTheirPolicies'
  BY <1>1, <1>2 DEF IInv, PoliciesFetched, Account, Waits, RolesHaveTheirPolicies, PermissionsOf
<1> QED BY <1>7, <1>8, <1>9 DEF IInv

(* A role is appended with all its policies. *)
LEMMA FetchInlineStep ==
  ASSUME IInv, NEW f \in fetching, FetchInline(f)
  PROVE  IInv'
<1> DEFINE role == [arn |-> f.of, permissions |-> f.permissions \cup world.inline[f.of],
                    trust |-> world.trust[f.of]]
<1>1. /\ f.pc = "inline" /\ roles' = Append(roles, role) /\ fetching' = fetching \ {f}
      /\ UNCHANGED <<world, pc, current, failed, policyMap>>
  BY DEF FetchInline
<1>2. f.of \in Roles /\ f.permissions \in SUBSET Statement
  BY <1>1 DEF IInv, Types, Fetch
<1>3. role \in AWSRole /\ role.arn = f.of
  BY <1>2, WorldTypes DEF IInv, AWSRole, AllRoles
<1>4. role.permissions = PermissionsOf(f.of)
  BY <1>1 DEF IInv, FetchesComplete, PermissionsOf
<1> HIDE DEF role
<1>5. Types'
  BY <1>1, <1>3 DEF IInv, Types
<1>6. RolesHaveTheirPolicies'
  <2>1. roles \in Seq(AWSRole)
    BY DEF IInv, Types
  <2>2. ASSUME NEW k \in DOMAIN roles', roles'[k].arn \in Roles
        PROVE  roles'[k].permissions = PermissionsOf(roles'[k].arn)
    <3>1. CASE k \in DOMAIN roles
      <4>1. roles'[k] = roles[k]
        BY <1>1, <1>3, <2>1, <3>1
      <4> QED BY <2>2, <3>1, <4>1 DEF IInv, RolesHaveTheirPolicies
    <3>2. CASE k \notin DOMAIN roles
      <4>1. roles'[k] = role
        BY <1>1, <1>3, <2>1, <3>2
      <4> QED BY <1>3, <1>4, <4>1
    <3> QED BY <3>1, <3>2
  <2> QED BY <1>1, <2>2 DEF RolesHaveTheirPolicies, PermissionsOf
<1>7. PoliciesFetched' /\ FetchesComplete' /\ Waits'
  <2>1. pc = "waitRoles"
    BY <1>1 DEF IInv, FetchesComplete
  <2> QED BY <1>1, <2>1 DEF IInv, PoliciesFetched, FetchesComplete, Account, Waits
<1> QED BY <1>5, <1>6, <1>7 DEF IInv

(* A failed goroutine fails the audit, and appends no role. *)
LEMMA FetchFailsStep ==
  ASSUME IInv, NEW f \in fetching, FetchFails(f)
  PROVE  IInv'
BY DEF FetchFails, IInv, Types, Waits, PoliciesFetched, FetchesComplete, Account,
       RolesHaveTheirPolicies, PermissionsOf

(* The roles of the fixture are none that AWS answers. *)
LEMMA LoadFixtureStep ==
  ASSUME IInv, LoadFixture
  PROVE  IInv'
<1>1. /\ pc = "fixture" /\ roles' = roles \o Fixture /\ pc' = "links" /\ fetching = {}
      /\ UNCHANGED <<world, current, fetching>>
  BY NoFetch DEF LoadFixture
<1>2. Fixture \in Seq(AWSRole)
  BY DEF Fixture, AWSRole, AllRoles, Statement, TrustStatement
<1>3. Len(Fixture) = 3 /\ \A k \in 1..3 : Fixture[k].arn \notin Roles
  BY FixtureAssumption DEF Fixture
<1>4. roles \in Seq(AWSRole)
  BY DEF IInv, Types
<1> HIDE DEF Fixture
<1>5. Types'
  BY <1>1, <1>2, <1>4 DEF IInv, Types
<1>6. RolesHaveTheirPolicies'
  <2>1. ASSUME NEW k \in DOMAIN roles', roles'[k].arn \in Roles
        PROVE  roles'[k].permissions = PermissionsOf(roles'[k].arn)
    <3>1. CASE k \in DOMAIN roles
      <4>1. roles'[k] = roles[k]
        BY <1>1, <1>2, <1>4, <3>1
      <4> QED BY <2>1, <3>1, <4>1 DEF IInv, RolesHaveTheirPolicies
    <3>2. CASE k \notin DOMAIN roles
      <4>1. \E j \in 1..3 : roles'[k] = Fixture[j]
        BY <1>1, <1>2, <1>3, <1>4, <3>2, ConcatProperties
      <4> QED BY <1>3, <2>1, <4>1
    <3> QED BY <3>1, <3>2
  <2> QED BY <1>1, <2>1 DEF RolesHaveTheirPolicies, PermissionsOf
<1>7. PoliciesFetched' /\ FetchesComplete' /\ Waits'
  BY <1>1 DEF PoliciesFetched, FetchesComplete, Waits
<1> QED BY <1>5, <1>6, <1>7 DEF IInv

-----------------------------------------------------------------------------
(* Every step of the audit keeps the invariant. *)
LEMMA Inductive ==
  ASSUME PoliciesListed, IInv, [Next]_vars
  PROVE  IInv'
<1>1. CASE Goroutine
  BY <1>1, fetchPolicyDetailsStep, FetchAttachedStep, FetchInlineStep, FetchFailsStep DEF Goroutine
<1>2. CASE Stop
  BY <1>2, NoFetch, QuietStep DEF Stop, IInv, Types
<1>3. CASE WaitForRoles
  BY <1>3, QuietStep DEF WaitForRoles, IInv, Types
<1>4. CASE ListStacks \/ ListStackResources \/ GetTemplate \/ StacksDone \/ BuildLinks
  <2>1. /\ UNCHANGED <<world, fetching, roles>> /\ pc \notin {"waitPolicies", "waitRoles"}
        /\ pc' \notin {"waitPolicies", "roles", "waitRoles"}
    BY <1>4 DEF ListStacks, ListStackResources, GetTemplate, StacksDone, BuildLinks
  <2>2. current' \in Nat \ {0}
    <3>1. current' = current \/ current' = current + 1
      BY <1>4 DEF ListStacks, ListStackResources, GetTemplate, StacksDone, BuildLinks
    <3> QED BY <3>1 DEF IInv, Types
  <2> QED BY <2>1, <2>2, NoFetch, QuietStep
<1>5. CASE UNCHANGED vars
  BY <1>5 DEF vars, IInv, Types, Waits, PoliciesFetched, FetchesComplete, Account,
              RolesHaveTheirPolicies, PermissionsOf
<1> QED BY <1>1, <1>2, <1>3, <1>4, <1>5, ListPoliciesStep, WaitForPoliciesStep, ListRolesStep,
           LoadFixtureStep DEF Next, Start

(* The invariant holds in every reachable state. *)
LEMMA Invariance ==
  ASSUME PoliciesListed
  PROVE  Spec => []IInv
<1>1. Init => IInv
  BY Initial
<1>2. IInv /\ [Next]_vars => IInv'
  BY Inductive
<1> QED BY <1>1, <1>2, PTL DEF Spec

(* Neither the links nor a request read the roles while a goroutine may add *)
(* one, whichever calls fail.                                               *)
THEOREM ReadersWait == Spec => []NobodyAddsWhileReading
<1>1. Init => Waits
  BY DEF Init, Waits
<1>2. Waits /\ [Next]_vars => Waits'
  <2>1. ASSUME Waits, Goroutine PROVE Waits'
    BY <2>1 DEF Goroutine, fetchPolicyDetails, FetchAttached, FetchInline, FetchFails, Waits
  <2>2. ASSUME Waits, Start PROVE Waits'
    BY <2>2 DEF Start, Stop, ListPolicies, WaitForPolicies, ListRoles, WaitForRoles, ListStacks,
                ListStackResources, GetTemplate, StacksDone, LoadFixture, BuildLinks, Waits
  <2> QED BY <2>1, <2>2 DEF Next, vars, Waits
<1>3. Waits => NobodyAddsWhileReading
  BY DEF Waits, NobodyAddsWhileReading
<1> QED BY <1>1, <1>2, <1>3, PTL DEF Spec

(* A role that was loaded has the documents of all its policies, though one *)
(* goroutine stores them and another reads them.                            *)
THEOREM RolesComplete == ASSUME PoliciesListed PROVE Spec => []RolesHaveTheirPolicies
<1>1. IInv => RolesHaveTheirPolicies
  BY DEF IInv
<1> QED BY <1>1, Invariance, PTL

-----------------------------------------------------------------------------
(* Types, and the positions that Start is at. *)

(* Where the loop over the accounts is, and what it holds there. *)
Positions ==
  /\ TypeOK
  /\ pc \in {"waitPolicies", "roles", "waitRoles", "stack", "template"} =>
       current \in DOMAIN world.auditRoles
  /\ pc = "template" => todo # <<>>

(* The types of what AWS answers. *)
LEMMA AnswerTypes ==
  ASSUME TypeOK
  PROVE  /\ world.auditRoles \in Seq(Accounts)
         /\ world.document \in [Policies -> SUBSET Statement]
         /\ world.policies \in [Accounts -> SUBSET Policies]
         /\ world.roles \in [Accounts -> SUBSET Roles]
         /\ world.attached \in [Roles -> SUBSET Policies]
         /\ world.inline \in [Roles -> SUBSET Statement]
         /\ world.trust \in [Roles -> SUBSET TrustStatement]
         /\ world.stacks \in [Accounts -> Seq(Stacks)]
         /\ world.resources \in [Stacks -> Seq(PhysicalIds)]
<1>1. world \in World
  BY WorldsAssumption DEF TypeOK
<1> QED BY <1>1 DEF World

(* A set of numbers has a least one. *)
LEMMA Least ==
  ASSUME NEW S \in SUBSET Nat, S # {}
  PROVE  \E x \in S : \A y \in S : x <= y
<1> DEFINE Below == {pair \in Nat \X Nat : pair[1] < pair[2]}
<1>1. IsWellFoundedOn(Below, Nat)
  BY NatLessThanWellFounded DEF OpToRel
<1>2. PICK x \in S : \A y \in S : <<y, x>> \notin Below
  <2> HIDE DEF Below
  <2> QED BY <1>1, WFMin
<1>3. \A y \in S : x <= y
  <2> SUFFICES ASSUME NEW y \in S PROVE ~ (y < x)
    OBVIOUS
  <2>1. <<y, x>> \in Nat \X Nat /\ <<y, x>>[1] = y /\ <<y, x>>[2] = x
    OBVIOUS
  <2> QED BY <1>2, <2>1
<1> QED BY <1>3

(* The resources that come before the first whose path has no "/". *)
LEMMA BeforeFirst ==
  ASSUME NEW n \in Nat, NEW bare \in SUBSET (1..n)
  PROVE  \E m \in 0..n : /\ {k \in 1..n : \A b \in bare : k < b} = 1..m
                         /\ bare = {} => m = n
<1>1. CASE bare = {}
  BY <1>1
<1>2. CASE bare # {}
  <2>1. PICK x \in bare : \A y \in bare : x <= y
    BY <1>2, Least
  <2>2. x \in 1..n /\ x - 1 \in 0..n
    OBVIOUS
  <2>3. {k \in 1..n : \A b \in bare : k < b} = 1..(x - 1)
    BY <2>1, <2>2
  <2> QED BY <1>2, <2>2, <2>3
<1> QED BY <1>1, <1>2

(* GetTemplate adds some of a CDK stack's resources, all if it does not panic. *)
LEMMA Added ==
  ASSUME Positions, GetTemplate
  PROVE  \E added \in Seq(CDKResource) :
           /\ resources' = resources \o added
           /\ Head(todo) \in Stacks /\ Account \in Accounts
           /\ Len(added) <= Len(world.resources[Head(todo)])
           /\ \A j \in DOMAIN added :
                added[j] = [stack |-> Head(todo), account |-> Account,
                            physicalId |-> world.resources[Head(todo)][j]]
           /\ \/ pc' = "panicked" /\ todo' = todo
              \/ /\ pc' = "stack" /\ todo' = Tail(todo)
                 /\ Len(added) = Len(world.resources[Head(todo)])
<1>1. pc = "template" /\ todo \in Seq(Stacks) /\ todo # <<>>
  BY DEF GetTemplate, Positions, TypeOK
<1>2. PICK stack \in Stacks : stack = Head(todo)
  BY <1>1
<1>3. PICK ids \in Seq(PhysicalIds) : ids = world.resources[stack]
  BY AnswerTypes DEF Positions
<1>4. PICK bare : bare = {k \in DOMAIN ids : ids[k] \in world.bare}
  OBVIOUS
<1>5. PICK account \in Accounts : account = Account
  BY <1>1, AnswerTypes DEF Positions, Account
<1>6. /\ resources' = resources \o [k \in {k \in DOMAIN ids : \A b \in bare : k < b} |->
                          [stack |-> stack, account |-> account, physicalId |-> ids[k]]]
      /\ IF bare = {} THEN todo' = Tail(todo) /\ pc' = "stack"
                      ELSE pc' = "panicked" /\ UNCHANGED todo
  BY <1>2, <1>3, <1>4, <1>5 DEF GetTemplate
<1>7. DOMAIN ids = 1..Len(ids) /\ Len(ids) \in Nat /\ bare \in SUBSET (1..Len(ids))
  BY <1>4
<1>8. PICK m \in 0..Len(ids) : /\ {k \in 1..Len(ids) : \A b \in bare : k < b} = 1..m
                               /\ bare = {} => m = Len(ids)
  BY <1>7, BeforeFirst
<1>9. PICK added : added = [k \in 1..m |->
                      [stack |-> stack, account |-> account, physicalId |-> ids[k]]]
  OBVIOUS
<1>10. added \in Seq(CDKResource) /\ Len(added) = m /\ DOMAIN added = 1..m
  <2>1. \A k \in 1..m : ids[k] \in PhysicalIds
    BY <1>7
  <2>2. \A k \in 1..m : [stack |-> stack, account |-> account, physicalId |-> ids[k]] \in CDKResource
    BY <2>1 DEF CDKResource
  <2> QED BY <1>9, <2>2
<1>11. resources' = resources \o added
  BY <1>6, <1>7, <1>8, <1>9
<1>12. \A j \in DOMAIN added : added[j] = [stack |-> stack, account |-> account, physicalId |-> ids[j]]
  BY <1>9, <1>10
<1>13. Len(added) <= Len(ids)
  BY <1>7, <1>10
<1> QED BY <1>2, <1>3, <1>5, <1>6, <1>8, <1>10, <1>11, <1>12, <1>13

(* A goroutine that ends appends one well-typed role. *)
LEMMA RolesAppended ==
  ASSUME Positions, NEW f \in fetching, FetchInline(f)
  PROVE  /\ f \in [of : Roles, pc : {"inline"}, permissions : SUBSET Statement]
         /\ roles' \in Seq(AWSRole)
<1>1. /\ f.pc = "inline"
      /\ roles' = Append(roles, [arn |-> f.of, permissions |-> f.permissions \cup world.inline[f.of],
                                 trust |-> world.trust[f.of]])
  BY DEF FetchInline
<1>2. f \in [of : Roles, pc : {"inline"}, permissions : SUBSET Statement]
  BY <1>1 DEF Positions, TypeOK, Fetch
<1>3. world.inline[f.of] \in SUBSET Statement /\ world.trust[f.of] \in SUBSET TrustStatement
  BY <1>2, AnswerTypes DEF Positions
<1>4. [arn |-> f.of, permissions |-> f.permissions \cup world.inline[f.of],
       trust |-> world.trust[f.of]] \in AWSRole
  BY <1>2, <1>3 DEF AWSRole, AllRoles
<1> QED BY <1>1, <1>2, <1>4 DEF Positions, TypeOK

(* Every step keeps the positions. *)
LEMMA PositionsKept ==
  ASSUME Positions, [Next]_vars
  PROVE  Positions'
<1>1. CASE UNCHANGED vars
  BY <1>1 DEF vars, Positions, TypeOK
<1>2. CASE Stop
  BY <1>2 DEF Stop, Positions, TypeOK
<1>3. CASE ListPolicies
  <2>1. current \in DOMAIN world.auditRoles /\ Account \in Accounts
    BY <1>3, AnswerTypes DEF ListPolicies, Positions, TypeOK, Account
  <2>2. [of : world.policies[Account], pc : {"details"}] \subseteq Fetch
    BY <2>1, AnswerTypes DEF Positions, Fetch
  <2> QED BY <1>3, <2>1, <2>2 DEF ListPolicies, Positions, TypeOK
<1>4. CASE WaitForPolicies
  BY <1>4 DEF WaitForPolicies, Positions, TypeOK
<1>5. CASE ListRoles
  <2>1. current \in DOMAIN world.auditRoles /\ Account \in Accounts
    BY <1>5, AnswerTypes DEF ListRoles, Positions, Account
  <2>2. [of : world.roles[Account], pc : {"attached"}] \subseteq Fetch
    BY <2>1, AnswerTypes DEF Positions, Fetch
  <2> QED BY <1>5, <2>1, <2>2 DEF ListRoles, Positions, TypeOK
<1>6. CASE WaitForRoles
  <2>1. world.auditRoles \in Seq(Accounts)
    BY AnswerTypes DEF Positions
  <2> QED BY <1>6, <2>1 DEF WaitForRoles, Positions, TypeOK
<1>7. CASE ListStacks
  <2>1. current \in DOMAIN world.auditRoles /\ Account \in Accounts
    BY <1>7, AnswerTypes DEF ListStacks, Positions, TypeOK, Account
  <2>2. world.stacks[Account] \in Seq(Stacks)
    BY <2>1, AnswerTypes DEF Positions
  <2> QED BY <1>7, <2>1, <2>2 DEF ListStacks, Positions, TypeOK
<1>8. CASE ListStackResources
  <2>1. Tail(todo) \in Seq(Stacks)
    BY <1>8 DEF ListStackResources, Positions, TypeOK
  <2> QED BY <1>8, <2>1 DEF ListStackResources, Positions, TypeOK
<1>9. CASE GetTemplate
  <2>1. PICK added \in Seq(CDKResource) :
          /\ resources' = resources \o added
          /\ \/ pc' = "panicked" /\ todo' = todo
             \/ pc' = "stack" /\ todo' = Tail(todo)
    BY <1>9, Added
  <2>2. resources' \in Seq(CDKResource)
    BY <2>1 DEF Positions, TypeOK
  <2>3. todo' \in Seq(Stacks) /\ pc = "template"
    <3>1. pc = "template" /\ todo # <<>> /\ todo \in Seq(Stacks)
      BY <1>9 DEF GetTemplate, Positions, TypeOK
    <3>2. Tail(todo) \in Seq(Stacks)
      BY <3>1
    <3> QED BY <2>1, <3>1, <3>2
  <2>4. UNCHANGED <<world, current, fetching, failed, policyMap, roles, links>>
    BY <1>9 DEF GetTemplate
  <2> QED BY <2>1, <2>2, <2>3, <2>4 DEF Positions, TypeOK
<1>10. CASE StacksDone
  <2>1. world.auditRoles \in Seq(Accounts)
    BY AnswerTypes DEF Positions
  <2> QED BY <1>10, <2>1 DEF StacksDone, Positions, TypeOK
<1>11. CASE LoadFixture
  <2>1. Fixture \in Seq(AWSRole)
    BY DEF Fixture, AWSRole, AllRoles, Statement, TrustStatement
  <2>2. roles' \in Seq(AWSRole)
    BY <1>11, <2>1 DEF LoadFixture, Positions, TypeOK
  <2> QED BY <1>11, <2>2 DEF LoadFixture, Positions, TypeOK
<1>12. CASE BuildLinks
  <2>1. roles \in Seq(AWSRole)
    BY DEF Positions, TypeOK
  <2>2. \A ij \in (DOMAIN roles) \X (DOMAIN roles) :
          /\ ij \in Nat \X Nat
          /\ roles[ij[1]].arn \in AllRoles /\ roles[ij[2]].arn \in AllRoles
    <3>1. \A k \in DOMAIN roles : k \in Nat /\ roles[k].arn \in AllRoles
      <4>1. \A k \in DOMAIN roles : k \in Nat /\ roles[k] \in AWSRole
        BY <2>1
      <4> QED BY <4>1 DEF AWSRole
    <3>2. \A ij \in (DOMAIN roles) \X (DOMAIN roles) :
            ij[1] \in DOMAIN roles /\ ij[2] \in DOMAIN roles /\ ij = <<ij[1], ij[2]>>
      OBVIOUS
    <3> QED BY <3>1, <3>2
  <2>3. links' \subseteq [id : Nat \X Nat, source : AllRoles, target : AllRoles]
    BY <1>12, <2>2 DEF BuildLinks
  <2> QED BY <1>12, <2>3 DEF BuildLinks, Positions, TypeOK
<1>13. CASE Goroutine
  <2> SUFFICES ASSUME NEW f \in fetching,
                      fetchPolicyDetails(f) \/ FetchAttached(f) \/ FetchInline(f) \/ FetchFails(f)
               PROVE  Positions'
    BY <1>13 DEF Goroutine
  <2>1. CASE fetchPolicyDetails(f)
    BY <2>1 DEF fetchPolicyDetails, Positions, TypeOK, Fetch
  <2>2. CASE FetchAttached(f)
    <3>1. PICK read : read = UNION {world.document[p] : p \in world.attached[f.of] \cap policyMap}
      OBVIOUS
    <3>2. /\ fetching' = (fetching \ {f}) \cup
                           {[of |-> f.of, pc |-> "inline", permissions |-> read]}
          /\ f.pc = "attached" /\ f.of \in Roles
          /\ UNCHANGED <<world, pc, current, failed, policyMap, roles, todo, resources, links>>
      BY <2>2, <3>1 DEF FetchAttached, Positions, TypeOK, Fetch
    <3>3. read \in SUBSET Statement
      BY <3>1, <3>2, AnswerTypes DEF Positions, TypeOK
    <3>4. fetching' \subseteq Fetch
      BY <3>2, <3>3 DEF Positions, TypeOK, Fetch
    <3> QED BY <3>2, <3>4 DEF Positions, TypeOK
  <2>3. CASE FetchInline(f)
    <3>1. roles' \in Seq(AWSRole)
      BY <2>3, RolesAppended
    <3> QED BY <2>3, <3>1 DEF FetchInline, Positions, TypeOK
  <2>4. CASE FetchFails(f)
    BY <2>4 DEF FetchFails, Positions, TypeOK
  <2> QED BY <2>1, <2>2, <2>3, <2>4
<1> QED BY <1>1, <1>2, <1>3, <1>4, <1>5, <1>6, <1>7, <1>8, <1>9, <1>10, <1>11, <1>12, <1>13
        DEF Next, Start

(* An audit starts at its first account. *)
LEMMA PositionsFirst == Init => Positions
<1> SUFFICES ASSUME Init PROVE Positions
  OBVIOUS
<1>1. roles \in Seq(AWSRole) /\ todo \in Seq(Stacks) /\ resources \in Seq(CDKResource)
  BY DEF Init
<1> QED BY <1>1 DEF Init, Positions, TypeOK

(* The positions hold in every reachable state. *)
LEMMA PositionsInvariance == Spec => []Positions
BY PositionsFirst, PositionsKept, PTL DEF Spec

(* The variables have their types in every world: Start indexes the audit   *)
(* roles only where there are some, and takes the head only of stacks that  *)
(* are left, also when the ids before one without a "/" are kept.           *)
THEOREM AuditTyped == Spec => []TypeOK
<1>1. Positions => TypeOK
  BY DEF Positions
<1> QED BY <1>1, PositionsInvariance, PTL

-----------------------------------------------------------------------------
(* The stacks and their resources. *)

(* The stacks of an audited account. *)
StacksOf(k) == world.stacks[world.auditRoles[k]]

(* The j-th resource of the i-th stack of the k-th account, as loaded. *)
ResourceOf(k, i, j) ==
  [stack |-> StacksOf(k)[i], account |-> world.auditRoles[k],
   physicalId |-> world.resources[StacksOf(k)[i]][j]]

(* A resource is one of a CDK stack of an audited account. *)
IsOfAStack(r) ==
  \E k \in DOMAIN world.auditRoles : \E i \in DOMAIN StacksOf(k) :
    /\ StacksOf(k)[i] \in world.cdk
    /\ \E j \in DOMAIN world.resources[StacksOf(k)[i]] : r = ResourceOf(k, i, j)

(* If the stack is one of the CDK, all its resources are loaded. *)
StackLoaded(k, i) ==
  StacksOf(k)[i] \in world.cdk =>
    \A j \in DOMAIN world.resources[StacksOf(k)[i]] :
      \E n \in DOMAIN resources : resources[n] = ResourceOf(k, i, j)

(* The stacks that Start has been through. *)
Passed(k, i) ==
  \/ k < current
  \/ k = current /\ pc \in {"stack", "template"} /\ i <= Len(StacksOf(k)) - Len(todo)

(* What is loaded belongs to a stack, and the stacks passed are loaded. *)
StackInv ==
  /\ pc \in {"stack", "template"} =>
       /\ Len(todo) <= Len(StacksOf(current))
       /\ \A m \in DOMAIN todo : todo[m] = StacksOf(current)[Len(StacksOf(current)) - Len(todo) + m]
  /\ pc = "template" => Head(todo) \in world.cdk
  /\ pc \in {"policies", "waitPolicies", "roles", "waitRoles"} => resources = <<>>
  /\ \A n \in DOMAIN resources : IsOfAStack(resources[n])
  /\ pc \in {"stacks", "stack", "template"} =>
       \A k \in DOMAIN world.auditRoles : \A i \in DOMAIN StacksOf(k) :
         Passed(k, i) => StackLoaded(k, i)
  /\ pc \in {"fixture", "links", "serving"} =>
       \/ resources = <<>>
       \/ \A k \in DOMAIN world.auditRoles : \A i \in DOMAIN StacksOf(k) : StackLoaded(k, i)

(* The precondition: no physical id is used in two stacks, or two accounts. *)
Uses(w, account, stack, id) ==
  /\ \E i \in DOMAIN w.stacks[account] : w.stacks[account][i] = stack
  /\ \E j \in DOMAIN w.resources[stack] : w.resources[stack][j] = id

(* No two stacks of the audited accounts use one physical id, which the     *)
(* code needs since its lookup takes the first match.                       *)
IdsApart ==
  \A w \in Worlds : \A k, l \in DOMAIN w.auditRoles : \A s, t \in Stacks : \A id \in PhysicalIds :
    Uses(w, w.auditRoles[k], s, id) /\ Uses(w, w.auditRoles[l], t, id) =>
      w.auditRoles[k] = w.auditRoles[l] /\ s = t

(* Where Start is when it looks at stacks. *)
LEMMA StackTypes ==
  ASSUME Positions
  PROVE  /\ DOMAIN world.auditRoles = 1..Len(world.auditRoles) /\ Len(world.auditRoles) \in Nat
         /\ \A k \in DOMAIN world.auditRoles :
              /\ StacksOf(k) \in Seq(Stacks) /\ DOMAIN StacksOf(k) = 1..Len(StacksOf(k))
              /\ Len(StacksOf(k)) \in Nat
         /\ todo \in Seq(Stacks) /\ Len(todo) \in Nat
         /\ current \in Nat
<1>1. world.auditRoles \in Seq(Accounts)
  BY AnswerTypes DEF Positions
<1>2. ASSUME NEW k \in DOMAIN world.auditRoles
      PROVE  StacksOf(k) \in Seq(Stacks)
  BY <1>1, AnswerTypes DEF Positions, StacksOf
<1>3. todo \in Seq(Stacks) /\ current \in Nat
  BY <1>1 DEF Positions, TypeOK
<1> QED BY <1>1, <1>2, <1>3

(* A step that leaves the resources alone, where they are only kept. *)
LEMMA ResourcesKept ==
  ASSUME StackInv, UNCHANGED <<world, resources>>,
         pc' \notin {"stacks", "stack", "template", "fixture", "links", "serving"},
         pc' \in {"policies", "waitPolicies", "roles", "waitRoles"} => resources = <<>>
  PROVE  StackInv'
BY DEF StackInv, IsOfAStack, StacksOf, ResourceOf

(* An account's stacks start with none passed. *)
LEMMA ListStacksKeeps ==
  ASSUME Positions, StackInv, ListStacks
  PROVE  StackInv'
<1>1. /\ pc = "stacks" /\ pc' = "stack" /\ todo' = StacksOf(current)
      /\ UNCHANGED <<world, current, resources>> /\ current \in DOMAIN world.auditRoles
  BY StackTypes DEF ListStacks, StacksOf, Account, Positions, TypeOK
<1>2. \A n \in DOMAIN resources : IsOfAStack(resources[n])'
  BY <1>1 DEF StackInv, IsOfAStack, StacksOf, ResourceOf
<1>3. StacksOf(current)' = StacksOf(current) /\ Len(StacksOf(current)) \in Nat
  BY <1>1, StackTypes DEF StacksOf
<1>4. ASSUME NEW k \in DOMAIN world.auditRoles, NEW i \in DOMAIN StacksOf(k), Passed(k, i)'
      PROVE  StackLoaded(k, i)'
  <2>1. i \in Nat /\ i >= 1
    BY StackTypes
  <2>2. ~(i <= Len(StacksOf(current)) - Len(StacksOf(current)))
    BY <1>3, <2>1
  <2>3. k < current
    BY <1>1, <1>3, <1>4, <2>2 DEF Passed, StacksOf
  <2>4. StackLoaded(k, i)
    BY <1>1, <2>3 DEF StackInv, Passed
  <2> QED BY <1>1, <2>4 DEF StackLoaded, StacksOf, ResourceOf
<1>5. \A m \in DOMAIN todo' :
        todo'[m] = StacksOf(current)[Len(StacksOf(current)) - Len(todo') + m]
  <2>1. ASSUME NEW m \in DOMAIN todo'
        PROVE  Len(StacksOf(current)) - Len(todo') + m = m
    BY <1>1, <1>3, StackTypes
  <2> QED BY <1>1, <2>1
<1>6. Len(todo') <= Len(StacksOf(current))
  BY <1>1, <1>3
<1>7. \A k \in DOMAIN world'.auditRoles : \A i \in DOMAIN StacksOf(k)' : Passed(k, i)' => StackLoaded(k, i)'
  BY <1>1, <1>4 DEF StacksOf
<1> QED BY <1>1, <1>2, <1>3, <1>5, <1>6, <1>7 DEF StackInv

(* The stack at hand, which is the head of what is left. *)
AtHand == Len(StacksOf(current)) - Len(todo) + 1

(* The head of todo is the first stack not passed yet. *)
LEMMA HeadAtHand ==
  ASSUME Positions, StackInv, pc \in {"stack", "template"}, todo # <<>>
  PROVE  /\ current \in DOMAIN world.auditRoles
         /\ AtHand \in DOMAIN StacksOf(current)
         /\ Head(todo) = StacksOf(current)[AtHand]
         /\ \A i \in DOMAIN StacksOf(current) : i <= AtHand => i = AtHand \/ Passed(current, i)
<1>1. current \in DOMAIN world.auditRoles
  BY DEF Positions
<1>2. /\ StacksOf(current) \in Seq(Stacks) /\ Len(StacksOf(current)) \in Nat
      /\ DOMAIN StacksOf(current) = 1..Len(StacksOf(current))
      /\ todo \in Seq(Stacks) /\ Len(todo) \in Nat /\ Len(todo) > 0
  BY <1>1, StackTypes
<1>3. /\ Len(todo) <= Len(StacksOf(current))
      /\ \A m \in DOMAIN todo : todo[m] = StacksOf(current)[Len(StacksOf(current)) - Len(todo) + m]
  BY DEF StackInv
<1>4. 1 \in DOMAIN todo /\ Head(todo) = todo[1]
  BY <1>2
<1>5. AtHand \in DOMAIN StacksOf(current)
  BY <1>2, <1>3 DEF AtHand
<1>6. \A i \in DOMAIN StacksOf(current) : i <= AtHand => i = AtHand \/ Passed(current, i)
  BY <1>2 DEF Passed, AtHand
<1> QED BY <1>1, <1>3, <1>4, <1>5, <1>6 DEF AtHand

(* A stack is done with, when its resources are loaded if it is a CDK stack. *)
LEMMA StackPassed ==
  ASSUME Positions, StackInv, pc \in {"stack", "template"}, todo # <<>>,
         todo' = Tail(todo), pc' = "stack", UNCHANGED <<world, current>>,
         NEW at, at = AtHand, StackLoaded(current, at)',
         \A k \in DOMAIN world.auditRoles : \A i \in DOMAIN StacksOf(k) :
           StackLoaded(k, i) => StackLoaded(k, i)',
         \A n \in DOMAIN resources' : IsOfAStack(resources[n])'
  PROVE  StackInv'
<1>1. PICK stacks : at = AtHand /\ stacks = StacksOf(current)
  OBVIOUS
<1>2. /\ current \in DOMAIN world.auditRoles /\ at \in DOMAIN stacks
      /\ \A i \in DOMAIN stacks : i <= at => i = at \/ Passed(current, i)
  BY <1>1, HeadAtHand
<1>3. /\ stacks \in Seq(Stacks) /\ Len(stacks) \in Nat /\ DOMAIN stacks = 1..Len(stacks)
      /\ todo \in Seq(Stacks) /\ Len(todo) \in Nat /\ Len(todo) > 0
  BY <1>1, <1>2, StackTypes
<1>4. /\ Len(todo') = Len(todo) - 1 /\ DOMAIN todo = 1..Len(todo) /\ DOMAIN todo' = 1..(Len(todo) - 1)
      /\ \A m \in 1..(Len(todo) - 1) : todo'[m] = todo[m + 1]
  BY <1>3
<1>5. /\ Len(todo) <= Len(stacks)
      /\ \A m \in DOMAIN todo : todo[m] = stacks[Len(stacks) - Len(todo) + m]
  BY <1>1 DEF StackInv
<1>6. /\ Len(todo') <= Len(stacks)
      /\ \A m \in DOMAIN todo' : todo'[m] = stacks[Len(stacks) - Len(todo') + m]
  <2>1. ASSUME NEW m \in 1..(Len(todo) - 1)
        PROVE  m + 1 \in 1..Len(todo) /\ Len(stacks) - Len(todo) + (m + 1) = Len(stacks) - Len(todo') + m
    BY <1>3, <1>4
  <2> QED BY <1>3, <1>4, <1>5, <2>1
<1>7. /\ \A k \in DOMAIN world.auditRoles : StacksOf(k)' = StacksOf(k)
      /\ at = Len(stacks) - Len(todo) + 1 /\ Len(stacks) - Len(todo') = at
  BY <1>1, <1>3, <1>4 DEF StacksOf, AtHand
<1>8. ASSUME NEW k \in DOMAIN world.auditRoles, NEW i \in DOMAIN StacksOf(k), Passed(k, i)'
      PROVE  StackLoaded(k, i)'
  <2>1. k < current \/ (k = current /\ i <= at)
    BY <1>1, <1>2, <1>7, <1>8 DEF Passed
  <2>2. CASE k < current
    <3>1. StackLoaded(k, i)
      BY <2>2 DEF StackInv, Passed
    <3> QED BY <3>1
  <2>3. CASE k = current /\ i = at
    BY <1>1, <2>3, <1>2
  <2>4. CASE k = current /\ i # at /\ i <= at
    <3>1. Passed(k, i)
      BY <1>1, <1>2, <2>4
    <3>2. StackLoaded(k, i)
      BY <3>1 DEF StackInv
    <3> QED BY <3>2
  <2> QED BY <2>1, <2>2, <2>3, <2>4
<1>9. \A k \in DOMAIN world'.auditRoles : \A i \in DOMAIN StacksOf(k)' : Passed(k, i)' => StackLoaded(k, i)'
  BY <1>7, <1>8
<1>10. StacksOf(current)' = stacks
  BY <1>1, <1>2, <1>7 DEF StacksOf
<1> QED BY <1>6, <1>9, <1>10 DEF StackInv

(* A stack's resources are listed before its template is read. *)
LEMMA ListStackResourcesKeeps ==
  ASSUME Positions, StackInv, ListStackResources
  PROVE  StackInv'
<1>1. /\ pc = "stack" /\ todo # <<>> /\ UNCHANGED <<world, current, resources>>
      /\ IF Head(todo) \in world.cdk
         THEN pc' \in {"template", "panicked"} /\ UNCHANGED todo
         ELSE todo' = Tail(todo) /\ pc' = "stack"
  BY DEF ListStackResources
<1>2. \A n \in DOMAIN resources' : IsOfAStack(resources[n])'
  <2>1. \A n \in DOMAIN resources : IsOfAStack(resources[n])'
    BY <1>1 DEF StackInv, IsOfAStack, StacksOf, ResourceOf
  <2> QED BY <1>1, <2>1
<1>3. \A k \in DOMAIN world.auditRoles : StacksOf(k)' = StacksOf(k)
  BY <1>1 DEF StacksOf
<1>4. \A k \in DOMAIN world.auditRoles : \A i \in DOMAIN StacksOf(k) :
        StackLoaded(k, i) => StackLoaded(k, i)'
  BY <1>1, <1>3 DEF StackLoaded, ResourceOf
<1>5. CASE Head(todo) \in world.cdk
  <2>1. \A k \in DOMAIN world.auditRoles : \A i \in DOMAIN StacksOf(k) :
          Passed(k, i)' => Passed(k, i)
    BY <1>1, <1>3, <1>5 DEF Passed
  <2>2. \A k \in DOMAIN world'.auditRoles : \A i \in DOMAIN StacksOf(k)' :
          Passed(k, i)' => StackLoaded(k, i)'
    BY <1>1, <1>3, <1>4, <2>1 DEF StackInv
  <2>3. StacksOf(current)' = StacksOf(current)
    BY <1>1 DEF StacksOf
  <2> QED BY <1>1, <1>2, <1>5, <2>2, <2>3 DEF StackInv
<1>6. CASE Head(todo) \notin world.cdk
  <2>1. PICK at : at = AtHand
    OBVIOUS
  <2>2. Head(todo) = StacksOf(current)[at] /\ current \in DOMAIN world.auditRoles
    BY <1>1, <2>1, HeadAtHand
  <2>3. PICK c : c = current
    OBVIOUS
  <2>4. StacksOf(c)[at] \notin world.cdk
    BY <1>6, <2>2, <2>3
  <2>5. StackLoaded(current, at)'
    BY <1>1, <1>3, <2>2, <2>3, <2>4 DEF StackLoaded, StacksOf
  <2> QED BY <1>1, <1>2, <1>4, <1>6, <2>1, <2>5, StackPassed
<1> QED BY <1>5, <1>6

(* A template with metadata of the CDK loads the resources; another passes  *)
(* the stack.                                                               *)
LEMMA GetTemplateKeeps ==
  ASSUME Positions, StackInv, GetTemplate
  PROVE  StackInv'
<1>1. pc = "template" /\ todo # <<>> /\ UNCHANGED <<world, current>>
  BY DEF GetTemplate, Positions
<1>2. PICK at, cur : at = AtHand /\ cur = current
  OBVIOUS
<1>3. /\ cur \in DOMAIN world.auditRoles /\ at \in DOMAIN StacksOf(cur)
      /\ Head(todo) = StacksOf(cur)[at] /\ Head(todo) \in world.cdk
  BY <1>1, <1>2, HeadAtHand DEF StackInv
<1>4. PICK added \in Seq(CDKResource) :
        /\ resources' = resources \o added
        /\ Head(todo) \in Stacks /\ Account \in Accounts
        /\ Len(added) <= Len(world.resources[Head(todo)])
        /\ \A j \in DOMAIN added :
             added[j] = [stack |-> Head(todo), account |-> Account,
                         physicalId |-> world.resources[Head(todo)][j]]
        /\ \/ pc' = "panicked" /\ todo' = todo
           \/ /\ pc' = "stack" /\ todo' = Tail(todo)
              /\ Len(added) = Len(world.resources[Head(todo)])
  BY Added
<1>5. PICK ids : ids = world.resources[StacksOf(cur)[at]]
  OBVIOUS
<1>6. ids \in Seq(PhysicalIds) /\ DOMAIN ids = 1..Len(ids) /\ Len(ids) \in Nat
  BY <1>3, <1>4, <1>5, AnswerTypes DEF Positions
<1>7. /\ DOMAIN added = 1..Len(added) /\ Len(added) \in Nat /\ Len(added) <= Len(ids)
      /\ \A j \in 1..Len(added) : added[j] = ResourceOf(cur, at, j)
  BY <1>2, <1>3, <1>4, <1>5 DEF ResourceOf, StacksOf, Account
<1>8. resources \in Seq(CDKResource) /\ Len(resources) \in Nat
  BY DEF Positions, TypeOK
<1>9. /\ DOMAIN resources' = 1..(Len(resources) + Len(added))
      /\ \A n \in 1..Len(resources) : resources'[n] = resources[n]
      /\ \A j \in 1..Len(added) : resources'[Len(resources) + j] = added[j]
  BY <1>4, <1>7, <1>8, ConcatProperties
<1>10. ASSUME NEW n \in DOMAIN resources'
       PROVE  IsOfAStack(resources[n])'
  <2>1. PICK r : r = resources'[n]
    OBVIOUS
  <2>2. IsOfAStack(r)
    <3>1. CASE n \in 1..Len(resources)
      BY <1>8, <1>9, <2>1, <3>1 DEF StackInv
    <3>2. CASE n \notin 1..Len(resources)
      <4>1. n - Len(resources) \in 1..Len(added) /\ n = Len(resources) + (n - Len(resources))
        BY <1>7, <1>8, <1>9, <3>2
      <4>2. PICK j \in 1..Len(added) : r = added[j]
        BY <1>9, <2>1, <4>1
      <4>3. j \in DOMAIN ids /\ r = ResourceOf(cur, at, j)
        BY <1>6, <1>7, <4>2
      <4> QED BY <1>3, <1>5, <4>3 DEF IsOfAStack
    <3> QED BY <3>1, <3>2
  <2> QED BY <1>1, <2>1, <2>2 DEF IsOfAStack, StacksOf, ResourceOf
<1>11. \A k \in DOMAIN world.auditRoles : \A i \in DOMAIN StacksOf(k) :
         StackLoaded(k, i) => StackLoaded(k, i)'
  <2> SUFFICES ASSUME NEW k \in DOMAIN world.auditRoles, NEW i \in DOMAIN StacksOf(k),
                      StackLoaded(k, i)
               PROVE  StackLoaded(k, i)'
    OBVIOUS
  <2>1. \A n \in DOMAIN resources : n \in DOMAIN resources' /\ resources'[n] = resources[n]
    BY <1>7, <1>8, <1>9
  <2> QED BY <1>1, <2>1 DEF StackLoaded, StacksOf, ResourceOf
<1>12. CASE pc' = "panicked"
  BY <1>10, <1>12 DEF StackInv
<1>13. CASE pc' = "stack" /\ todo' = Tail(todo) /\ Len(added) = Len(world.resources[Head(todo)])
  <2>1. ASSUME NEW j \in 1..Len(added)
        PROVE  \E n \in DOMAIN resources' : resources'[n] = ResourceOf(cur, at, j)
    <3>1. Len(resources) + j \in DOMAIN resources'
      BY <1>7, <1>8, <1>9
    <3> QED BY <1>7, <1>9, <3>1
  <2>2. DOMAIN ids = 1..Len(added)
    BY <1>3, <1>5, <1>6, <1>13
  <2>3. StackLoaded(cur, at)'
    BY <1>1, <1>5, <2>1, <2>2 DEF StackLoaded, StacksOf, ResourceOf
  <2>4. StackLoaded(current, at)'
    BY <1>1, <1>2, <2>3
  <2> QED BY <1>1, <1>2, <1>10, <1>11, <1>13, <2>4, StackPassed
<1> QED BY <1>4, <1>12, <1>13

(* The last stack of an account is passed before the next account. *)
LEMMA StacksDoneKeeps ==
  ASSUME Positions, StackInv, StacksDone
  PROVE  StackInv'
<1>1. /\ pc = "stack" /\ todo = <<>> /\ UNCHANGED <<world, resources>>
      /\ IF current < Len(world.auditRoles)
         THEN pc' = "stacks" /\ current' = current + 1
         ELSE pc' = "fixture" /\ UNCHANGED current
  BY DEF StacksDone
<1>2. /\ current \in DOMAIN world.auditRoles /\ DOMAIN world.auditRoles = 1..Len(world.auditRoles)
      /\ Len(world.auditRoles) \in Nat /\ current \in Nat
  BY <1>1, StackTypes DEF Positions
<1>3. \A k \in DOMAIN world.auditRoles : StacksOf(k)' = StacksOf(k)
  BY <1>1 DEF StacksOf
<1>4. \A n \in DOMAIN resources' : IsOfAStack(resources[n])'
  <2>1. \A n \in DOMAIN resources : IsOfAStack(resources[n])'
    BY <1>1 DEF StackInv, IsOfAStack, StacksOf, ResourceOf
  <2> QED BY <1>1, <2>1
<1>5. ASSUME NEW k \in DOMAIN world.auditRoles, NEW i \in DOMAIN StacksOf(k), k <= current
      PROVE  StackLoaded(k, i)'
  <2>1. Len(todo) = 0 /\ i <= Len(StacksOf(k)) - 0
    BY <1>1, StackTypes
  <2>2. Passed(k, i)
    BY <1>1, <1>2, <1>5, <2>1 DEF Passed
  <2>3. StackLoaded(k, i)
    BY <1>1, <2>2 DEF StackInv
  <2> QED BY <1>1, <2>3 DEF StackLoaded, StacksOf, ResourceOf
<1>6. CASE current < Len(world.auditRoles)
  <2>1. \A k \in DOMAIN world.auditRoles : \A i \in DOMAIN StacksOf(k) : Passed(k, i)' => k <= current
    BY <1>1, <1>2, <1>6 DEF Passed
  <2>2. \A k \in DOMAIN world'.auditRoles : \A i \in DOMAIN StacksOf(k)' :
          Passed(k, i)' => StackLoaded(k, i)'
    BY <1>1, <1>3, <1>5, <2>1
  <2> QED BY <1>1, <1>4, <1>6, <2>2 DEF StackInv
<1>7. CASE ~(current < Len(world.auditRoles))
  <2>1. \A k \in DOMAIN world.auditRoles : k <= current
    BY <1>2, <1>7
  <2>2. \A k \in DOMAIN world'.auditRoles : \A i \in DOMAIN StacksOf(k)' : StackLoaded(k, i)'
    BY <1>1, <1>3, <1>5, <2>1
  <2> QED BY <1>1, <1>4, <1>7, <2>2 DEF StackInv
<1> QED BY <1>6, <1>7

(* Before the stacks there are no resources; after them nobody adds any. *)
LEMMA OtherStepsKeep ==
  ASSUME Positions, StackInv, UNCHANGED <<world, resources>>,
         \/ UNCHANGED <<pc, current, todo>>
         \/ /\ pc = "waitRoles" /\ pc' \in {"policies", "stacks", "fixture"}
            /\ pc' # "policies" => current' = 1
         \/ pc \in {"fixture", "links"} /\ pc' \in {"links", "serving"}
  PROVE  StackInv'
<1>1. \A n \in DOMAIN resources' : IsOfAStack(resources[n])'
  <2>1. \A n \in DOMAIN resources : IsOfAStack(resources[n])'
    BY DEF StackInv, IsOfAStack, StacksOf, ResourceOf
  <2> QED BY <2>1
<1>2. \A k \in DOMAIN world.auditRoles : StacksOf(k)' = StacksOf(k)
  BY DEF StacksOf
<1>3. \A k \in DOMAIN world.auditRoles : \A i \in DOMAIN StacksOf(k) :
        StackLoaded(k, i) => StackLoaded(k, i)'
  BY <1>2 DEF StackLoaded, ResourceOf
<1>4. CASE UNCHANGED <<pc, current, todo>>
  <2>1. \A k \in DOMAIN world.auditRoles : \A i \in DOMAIN StacksOf(k) : Passed(k, i)' => Passed(k, i)
    BY <1>2, <1>4 DEF Passed
  <2>2. pc' \in {"stacks", "stack", "template"} =>
          \A k \in DOMAIN world'.auditRoles : \A i \in DOMAIN StacksOf(k)' :
            Passed(k, i)' => StackLoaded(k, i)'
    BY <1>2, <1>3, <1>4, <2>1 DEF StackInv
  <2>3. pc' \in {"fixture", "links", "serving"} =>
          \/ resources' = <<>>
          \/ \A k \in DOMAIN world'.auditRoles : \A i \in DOMAIN StacksOf(k)' : StackLoaded(k, i)'
    BY <1>2, <1>3, <1>4 DEF StackInv
  <2>4. StacksOf(current)' = StacksOf(current)
    BY <1>4 DEF StacksOf
  <2> QED BY <1>1, <1>4, <2>2, <2>3, <2>4 DEF StackInv
<1>5. CASE /\ pc = "waitRoles" /\ pc' \in {"policies", "stacks", "fixture"}
           /\ pc' # "policies" => current' = 1
  <2>1. resources' = <<>>
    BY <1>5 DEF StackInv
  <2>2. \A k \in DOMAIN world.auditRoles : k \in Nat /\ k >= 1
    BY StackTypes
  <2>3. pc' = "stacks" =>
          \A k \in DOMAIN world'.auditRoles : \A i \in DOMAIN StacksOf(k)' : ~Passed(k, i)'
    BY <1>5, <2>2 DEF Passed
  <2> QED BY <1>1, <1>5, <2>1, <2>3 DEF StackInv
<1>6. CASE pc \in {"fixture", "links"} /\ pc' \in {"links", "serving"}
  <2>1. \/ resources' = <<>>
        \/ \A k \in DOMAIN world'.auditRoles : \A i \in DOMAIN StacksOf(k)' : StackLoaded(k, i)'
    BY <1>2, <1>3, <1>6 DEF StackInv
  <2> QED BY <1>1, <1>6, <2>1 DEF StackInv
<1> QED BY <1>4, <1>5, <1>6

(* Every step keeps the loaded stacks. *)
LEMMA StackInvKept ==
  ASSUME Positions, StackInv, [Next]_vars
  PROVE  StackInv'
<1>1. CASE UNCHANGED vars
  BY <1>1, OtherStepsKeep DEF vars
<1>2. CASE Goroutine
  BY <1>2, OtherStepsKeep DEF Goroutine, fetchPolicyDetails, FetchAttached, FetchInline, FetchFails
<1>3. CASE Stop
  BY <1>3, ResourcesKept DEF Stop
<1>4. CASE ListPolicies \/ WaitForPolicies \/ ListRoles
  BY <1>4, ResourcesKept DEF ListPolicies, WaitForPolicies, ListRoles, StackInv
<1>5. CASE WaitForRoles
  <2>1. CASE pc' = "stopped"
    BY <1>5, <2>1, ResourcesKept DEF WaitForRoles
  <2>2. CASE pc' # "stopped"
    BY <1>5, <2>2, OtherStepsKeep DEF WaitForRoles
  <2> QED BY <2>1, <2>2
<1>6. CASE LoadFixture \/ BuildLinks
  BY <1>6, OtherStepsKeep DEF LoadFixture, BuildLinks
<1> QED BY <1>1, <1>2, <1>3, <1>4, <1>5, <1>6, ListStacksKeeps, ListStackResourcesKeeps,
           GetTemplateKeeps, StacksDoneKeeps DEF Next, Start

(* The loaded stacks are right in every reachable state. *)
LEMMA StackInvariance == Spec => []StackInv
<1>1. Init => StackInv
  <2> SUFFICES ASSUME Init PROVE StackInv
    OBVIOUS
  <2>1. DOMAIN resources = {} /\ resources = <<>> /\ current = 1 /\ pc \in {"policies", "stacks", "fixture"}
    BY DEF Init
  <2>2. Positions
    BY PositionsFirst
  <2>3. \A k \in DOMAIN world.auditRoles : k \in Nat /\ k >= 1
    BY <2>2, StackTypes
  <2>4. pc = "stacks" => \A k \in DOMAIN world.auditRoles : \A i \in DOMAIN StacksOf(k) : ~Passed(k, i)
    BY <2>1, <2>3 DEF Passed
  <2> QED BY <2>1, <2>4 DEF StackInv
<1>2. Positions /\ StackInv /\ [Next]_vars => StackInv'
  BY StackInvKept
<1> QED BY <1>1, <1>2, PositionsInvariance, PTL DEF Spec

(* GetByPhysicalID returns one resource, when all with the id are the same. *)
LEMMA LookupOfOne ==
  ASSUME resources \in Seq(CDKResource), NEW id, NEW r, NEW n \in DOMAIN resources, resources[n] = r,
         r.physicalId = id,
         \A m \in DOMAIN resources : resources[m].physicalId = id => resources[m] = r
  PROVE  GetByPhysicalID(id) = {r}
<1>1. PICK found : found = {k \in DOMAIN resources : resources[k].physicalId = id}
  OBVIOUS
<1>2. n \in found /\ found \in SUBSET Nat
  BY <1>1
<1>3. PICK x \in found : \A y \in found : x <= y
  BY <1>2, Least
<1>4. x \in {j \in found : \A i \in found : j <= i} /\ \A k \in found : resources[k] = r
  BY <1>1, <1>3
<1> QED BY <1>1, <1>4 DEF GetByPhysicalID

(* No stack and no account is left out, whatever is between them: the       *)
(* Detective's lookup of a role's physical id finds its CDK stack.  Of two  *)
(* stacks with one id it finds the first, so ids have to be apart.          *)
THEOREM StacksAreFound == ASSUME IdsApart PROVE Spec => []LookupsFindTheStack
<1>1. Positions /\ StackInv => LookupsFindTheStack
  <2> SUFFICES ASSUME Positions, StackInv, pc = "serving", resources # <<>>,
                      NEW k \in DOMAIN world.auditRoles, NEW i \in DOMAIN StacksOf(k),
                      NEW j \in DOMAIN world.resources[StacksOf(k)[i]]
               PROVE  GetByPhysicalID(world.resources[StacksOf(k)[i]][j]) =
                        IF StacksOf(k)[i] \in world.cdk THEN {ResourceOf(k, i, j)} ELSE {}
    BY DEF LookupsFindTheStack, StacksOf, ResourceOf
  <2>1. PICK id, stack : stack = StacksOf(k)[i] /\ id = world.resources[stack][j]
    OBVIOUS
  <2>2. ASSUME NEW n \in DOMAIN resources, resources[n].physicalId = id
        PROVE  stack \in world.cdk /\ resources[n] = ResourceOf(k, i, j)
    <3>1. PICK l \in DOMAIN world.auditRoles : \E h \in DOMAIN StacksOf(l) :
            /\ StacksOf(l)[h] \in world.cdk
            /\ \E y \in DOMAIN world.resources[StacksOf(l)[h]] : resources[n] = ResourceOf(l, h, y)
      BY DEF StackInv, IsOfAStack
    <3>2. PICK h \in DOMAIN StacksOf(l) :
            /\ StacksOf(l)[h] \in world.cdk
            /\ \E y \in DOMAIN world.resources[StacksOf(l)[h]] : resources[n] = ResourceOf(l, h, y)
      BY <3>1
    <3>3. PICK y \in DOMAIN world.resources[StacksOf(l)[h]] : resources[n] = ResourceOf(l, h, y)
      BY <3>2
    <3>4. world.resources[StacksOf(l)[h]][y] = world.resources[StacksOf(k)[i]][j]
      BY <2>1, <2>2, <3>3 DEF ResourceOf
    <3>5. world.auditRoles[k] = world.auditRoles[l] /\ StacksOf(k)[i] = StacksOf(l)[h]
      <4>1. PICK s, t : s = StacksOf(k)[i] /\ t = StacksOf(l)[h]
        OBVIOUS
      <4>2. s \in Stacks /\ t \in Stacks /\ world \in Worlds
        BY <4>1, StackTypes DEF Positions, TypeOK
      <4>3. id \in PhysicalIds
        BY <2>1, <4>1, <4>2, AnswerTypes DEF Positions
      <4>4. Uses(world, world.auditRoles[k], s, id)
        BY <2>1, <4>1 DEF Uses, StacksOf
      <4>5. Uses(world, world.auditRoles[l], t, id)
        BY <2>1, <3>3, <3>4, <4>1 DEF Uses, StacksOf
      <4> QED BY <4>1, <4>2, <4>3, <4>4, <4>5 DEF IdsApart
    <3> QED BY <2>1, <3>2, <3>3, <3>4, <3>5 DEF ResourceOf
  <2>3. CASE stack \in world.cdk
    <3>1. PICK n \in DOMAIN resources : resources[n] = ResourceOf(k, i, j)
      BY <2>1, <2>3 DEF StackInv, StackLoaded
    <3>2. ResourceOf(k, i, j).physicalId = id
      BY <2>1 DEF ResourceOf
    <3>3. resources \in Seq(CDKResource)
      BY DEF Positions, TypeOK
    <3>4. PICK r : r = ResourceOf(k, i, j)
      OBVIOUS
    <3>5. /\ resources[n] = r /\ r.physicalId = id
          /\ \A m \in DOMAIN resources : resources[m].physicalId = id => resources[m] = r
      BY <2>2, <3>1, <3>2, <3>4
    <3>6. GetByPhysicalID(id) = {r}
      BY <3>3, <3>5, LookupOfOne
    <3> QED BY <2>1, <2>3, <3>4, <3>6
  <2>4. CASE stack \notin world.cdk
    <3>1. {n \in DOMAIN resources : resources[n].physicalId = id} = {}
      BY <2>2, <2>4
    <3> QED BY <2>1, <2>4, <3>1 DEF GetByPhysicalID
  <2> QED BY <2>3, <2>4
<1> QED BY <1>1, PositionsInvariance, StackInvariance, PTL

-----------------------------------------------------------------------------
(* The roles that are loaded, each once, and the links between them. *)

(* The preconditions: no statement denies anything, which neither test asks; *)
(* and a role is one of the account that its ARN names, audited once.        *)
NoDeny ==
  \A w \in Worlds :
    /\ \A p \in Policies : \A s \in w.document[p] : s.effect = "Allow"
    /\ \A r \in Roles : \A s \in w.inline[r] \cup w.trust[r] : s.effect = "Allow"

(* No two audited accounts have a role in common, as ARNs hold the account. *)
RolesApart ==
  \A w \in Worlds : \A j, k \in DOMAIN w.auditRoles :
    j # k => w.roles[w.auditRoles[j]] \cap w.roles[w.auditRoles[k]] = {}

(* The roles of an audited account. *)
RolesOf(k) == world.roles[world.auditRoles[k]]

(* The roles of the accounts audited before the n-th. *)
RolesBefore(n) == UNION {RolesOf(k) : k \in 1..(n - 1)}

(* The roles of all the accounts audited. *)
AuditedRoles == UNION {RolesOf(k) : k \in DOMAIN world.auditRoles}

(* The links between the roles as they are loaded. *)
RoleLinks ==
  {[id |-> ij, source |-> roles[ij[1]].arn, target |-> roles[ij[2]].arn] :
     ij \in {p \in (DOMAIN roles) \X (DOMAIN roles) :
               /\ roles[p[1]].arn # roles[p[2]].arn
               /\ CanAssume(roles[p[1]], roles[p[2]])}}

(* The roles of Roles are stored once, with their trust policies. *)
StoredOnce ==
  /\ \A m, n \in DOMAIN roles : roles[m].arn = roles[n].arn /\ roles[m].arn \in Roles => m = n
  /\ \A n \in DOMAIN roles : roles[n].arn \in Roles => roles[n].trust = world.trust[roles[n].arn]

(* Each role of the account is stored or being fetched, unless one failed. *)
RolesFetched ==
  /\ \A f \in fetching : f.pc # "details" /\ f.of \notin LoadedRoles
  /\ \A f, g \in fetching : f.of = g.of => f = g
  /\ ~failed => LoadedRoles \cup {f.of : f \in fetching} = RolesBefore(current) \cup RolesOf(current)

(* Each role is loaded once, and the links are those between them. *)
LinkInv ==
  /\ StoredOnce
  /\ failed => pc \in {"waitPolicies", "waitRoles", "stopped"}
  /\ pc \in {"policies", "waitPolicies", "roles"} => LoadedRoles = RolesBefore(current)
  /\ pc = "waitRoles" => RolesFetched
  /\ pc \in {"stacks", "stack", "template", "fixture", "links", "serving"} =>
       LoadedRoles \in {{}, AuditedRoles}
  /\ pc = "serving" => links = RoleLinks

(* A step that stores no role. *)
LEMMA SameRoles ==
  ASSUME UNCHANGED <<world, roles>>
  PROVE  /\ StoredOnce => StoredOnce'
         /\ LoadedRoles' = LoadedRoles /\ AuditedRoles' = AuditedRoles /\ RoleLinks' = RoleLinks
         /\ \A k : RolesOf(k)' = RolesOf(k)
         /\ \A n : RolesBefore(n)' = RolesBefore(n)
BY DEF StoredOnce, LoadedRoles, AuditedRoles, RoleLinks, RolesOf, RolesBefore

(* The roles of the accounts before the next one. *)
LEMMA OneMoreAccount ==
  ASSUME current \in Nat
  PROVE  RolesBefore(current) \cup RolesOf(current) = UNION {RolesOf(k) : k \in (1..(current - 1)) \cup {current}}
BY DEF RolesBefore

(* A new account's roles are none of those loaded. *)
LEMMA ListRolesLinks ==
  ASSUME RolesApart, Positions, IInv, LinkInv, ListRoles
  PROVE  LinkInv'
<1>1. /\ pc = "roles" /\ fetching' = [of : world.roles[Account], pc : {"attached"}] /\ pc' = "waitRoles"
      /\ UNCHANGED <<world, current, failed, roles>>
  BY NoFetch DEF ListRoles
<1>2. /\ current \in DOMAIN world.auditRoles /\ DOMAIN world.auditRoles = 1..Len(world.auditRoles)
      /\ Len(world.auditRoles) \in Nat /\ world \in Worlds
  BY <1>1, StackTypes DEF Positions, TypeOK
<1>3. LoadedRoles = RolesBefore(current) /\ ~failed
  BY <1>1 DEF LinkInv
<1>4. RolesOf(current) \cap RolesBefore(current) = {}
  <2>1. ASSUME NEW k \in 1..(current - 1)
        PROVE  RolesOf(k) \cap RolesOf(current) = {}
    <3>1. k \in DOMAIN world.auditRoles /\ k # current
      BY <1>2
    <3> QED BY <1>2, <3>1 DEF RolesApart, RolesOf
  <2> QED BY <2>1 DEF RolesBefore
<1>5. \A f \in fetching' : f.pc = "attached" /\ f.of \in RolesOf(current)
  BY <1>1 DEF RolesOf, Account
<1>6. \A f, g \in fetching' : f.of = g.of => f = g
  BY <1>1
<1>7. {f.of : f \in fetching'} = RolesOf(current)
  <2>1. \A r \in RolesOf(current) :
          [of |-> r, pc |-> "attached"] \in fetching' /\ [of |-> r, pc |-> "attached"].of = r
    BY <1>1 DEF RolesOf, Account
  <2> QED BY <1>5, <2>1
<1>8. RolesFetched'
  BY <1>1, <1>3, <1>4, <1>5, <1>6, <1>7, SameRoles DEF RolesFetched
<1> QED BY <1>1, <1>3, <1>8, SameRoles DEF LinkInv

(* After the join every role of the account is loaded. *)
LEMMA WaitForRolesLinks ==
  ASSUME Positions, LinkInv, WaitForRoles
  PROVE  LinkInv'
<1>1. /\ pc = "waitRoles" /\ fetching = {} /\ UNCHANGED <<world, failed, roles>>
      /\ IF failed THEN pc' = "stopped"
         ELSE IF current < Len(world.auditRoles)
              THEN pc' = "policies" /\ current' = current + 1
              ELSE pc' \in {"stacks", "fixture"}
  BY DEF WaitForRoles
<1>2. /\ current \in DOMAIN world.auditRoles /\ DOMAIN world.auditRoles = 1..Len(world.auditRoles)
      /\ Len(world.auditRoles) \in Nat /\ current \in Nat
  BY <1>1, StackTypes DEF Positions
<1>3. CASE failed
  BY <1>1, <1>3, SameRoles DEF LinkInv
<1>4. CASE ~failed
  <2>1. LoadedRoles \cup {f.of : f \in fetching} = RolesBefore(current) \cup RolesOf(current)
    BY <1>1, <1>4 DEF LinkInv, RolesFetched
  <2>2. LoadedRoles = UNION {RolesOf(k) : k \in (1..(current - 1)) \cup {current}}
    BY <1>1, <1>2, <2>1, OneMoreAccount
  <2>3. CASE current < Len(world.auditRoles)
    <3>1. PICK next : next = current + 1
      OBVIOUS
    <3>2. (1..(current - 1)) \cup {current} = 1..(next - 1)
      BY <1>2, <3>1
    <3>3. LoadedRoles = RolesBefore(next)
      BY <2>2, <3>2 DEF RolesBefore
    <3>4. (LoadedRoles = RolesBefore(current))'
      BY <1>1, <1>4, <2>3, <3>1, <3>3, SameRoles
    <3> QED BY <1>1, <1>4, <2>3, <3>4, SameRoles DEF LinkInv
  <2>4. CASE ~(current < Len(world.auditRoles))
    <3>1. (1..(current - 1)) \cup {current} = DOMAIN world.auditRoles
      BY <1>2, <2>4
    <3>2. LoadedRoles = AuditedRoles
      BY <2>2, <3>1 DEF AuditedRoles
    <3> QED BY <1>1, <1>4, <2>4, <3>2, SameRoles DEF LinkInv
  <2> QED BY <2>3, <2>4
<1> QED BY <1>3, <1>4

(* Reading documents loads no role. *)
LEMMA FetchAttachedLinks ==
  ASSUME IInv, LinkInv, NEW f \in fetching, FetchAttached(f)
  PROVE  LinkInv'
<1>1. PICK read : read = UNION {world.document[p] : p \in world.attached[f.of] \cap policyMap}
  OBVIOUS
<1>2. PICK next : next = [of |-> f.of, pc |-> "inline", permissions |-> read]
  OBVIOUS
<1>3. /\ f.pc = "attached" /\ fetching' = (fetching \ {f}) \cup {next}
      /\ UNCHANGED <<world, pc, current, failed, roles>>
  BY <1>1, <1>2 DEF FetchAttached
<1>4. next.of = f.of /\ next.pc = "inline"
  BY <1>2
<1>5. pc = "waitRoles" /\ RolesFetched
  BY <1>3 DEF IInv, FetchesComplete, LinkInv
<1>6. {g.of : g \in fetching'} = {g.of : g \in fetching}
  <2>1. ASSUME NEW g \in fetching' PROVE \E h \in fetching : h.of = g.of
    BY <1>3, <1>4
  <2>2. ASSUME NEW g \in fetching PROVE \E h \in fetching' : h.of = g.of
    BY <1>3, <1>4
  <2> QED BY <2>1, <2>2
<1>7. \A g \in fetching' : g.pc # "details" /\ g.of \notin LoadedRoles
  BY <1>3, <1>4, <1>5 DEF RolesFetched
<1>8. \A g, h \in fetching' : g.of = h.of => g = h
  BY <1>3, <1>4, <1>5 DEF RolesFetched
<1>9. RolesFetched'
  BY <1>3, <1>5, <1>6, <1>7, <1>8, SameRoles DEF RolesFetched
<1> QED BY <1>3, <1>5, <1>9, SameRoles DEF LinkInv

(* A goroutine appends its role, which nobody else appends. *)
LEMMA FetchInlineLinks ==
  ASSUME Positions, IInv, LinkInv, NEW f \in fetching, FetchInline(f)
  PROVE  LinkInv'
<1>1. PICK role : role = [arn |-> f.of, permissions |-> f.permissions \cup world.inline[f.of],
                          trust |-> world.trust[f.of]]
  OBVIOUS
<1>2. /\ f.pc = "inline" /\ roles' = Append(roles, role) /\ fetching' = fetching \ {f}
      /\ UNCHANGED <<world, pc, current, failed>>
  BY <1>1 DEF FetchInline
<1>3. role.arn = f.of /\ role.trust = world.trust[f.of] /\ f.of \in Roles
  BY <1>1, RolesAppended
<1>4. pc = "waitRoles" /\ RolesFetched
  BY <1>2 DEF IInv, FetchesComplete, LinkInv
<1>5. roles \in Seq(AWSRole) /\ Len(roles) \in Nat
  BY DEF Positions, TypeOK
<1>6. /\ DOMAIN roles = 1..Len(roles) /\ DOMAIN roles' = 1..(Len(roles) + 1)
      /\ \A n \in 1..Len(roles) : roles'[n] = roles[n]
      /\ roles'[Len(roles) + 1] = role
  BY <1>2, <1>5
<1>7. \A n \in DOMAIN roles' : n \in DOMAIN roles \/ n = Len(roles) + 1
  BY <1>5, <1>6
<1>8. \A n \in DOMAIN roles : roles[n].arn # f.of
  BY <1>3, <1>4 DEF RolesFetched, LoadedRoles
<1>9. LoadedRoles' = LoadedRoles \cup {f.of}
  <2>1. \A n \in DOMAIN roles : n \in DOMAIN roles' /\ roles'[n] = roles[n]
    BY <1>5, <1>6
  <2>2. Len(roles) + 1 \in DOMAIN roles'
    BY <1>5, <1>6
  <2>3. {roles'[n].arn : n \in DOMAIN roles'} = {roles[n].arn : n \in DOMAIN roles} \cup {f.of}
    BY <1>3, <1>6, <1>7, <2>1, <2>2
  <2> QED BY <1>3, <2>3 DEF LoadedRoles
<1>10. StoredOnce'
  <2>1. ASSUME NEW m \in DOMAIN roles', NEW n \in DOMAIN roles',
               roles'[m].arn = roles'[n].arn, roles'[m].arn \in Roles
        PROVE  m = n
    BY <1>3, <1>6, <1>7, <1>8, <2>1 DEF LinkInv, StoredOnce
  <2>2. ASSUME NEW n \in DOMAIN roles', roles'[n].arn \in Roles
        PROVE  roles'[n].trust = world.trust[roles'[n].arn]
    BY <1>3, <1>6, <1>7, <2>2 DEF LinkInv, StoredOnce
  <2> QED BY <1>2, <2>1, <2>2 DEF StoredOnce
<1>11. RolesFetched'
  <2>1. \A g \in fetching' : g \in fetching /\ g # f
    BY <1>2
  <2>2. \A g \in fetching' : g.pc # "details" /\ g.of \notin LoadedRoles'
    BY <1>4, <1>9, <2>1 DEF RolesFetched
  <2>3. \A g, h \in fetching' : g.of = h.of => g = h
    BY <1>4, <2>1 DEF RolesFetched
  <2>4. {f.of} \cup {g.of : g \in fetching'} = {g.of : g \in fetching}
    BY <1>2
  <2>5. ~failed' => LoadedRoles' \cup {g.of : g \in fetching'} = RolesBefore(current)' \cup RolesOf(current)'
    <3>1. RolesBefore(current)' = RolesBefore(current) /\ RolesOf(current)' = RolesOf(current)
      BY <1>2 DEF RolesBefore, RolesOf
    <3> QED BY <1>2, <1>4, <1>9, <2>4, <3>1 DEF RolesFetched
  <2> QED BY <2>2, <2>3, <2>5 DEF RolesFetched
<1> QED BY <1>2, <1>4, <1>10, <1>11 DEF LinkInv

(* After a failure the audit stops at the join, before any link. *)
LEMMA FetchFailsLinks ==
  ASSUME IInv, LinkInv, NEW f \in fetching, FetchFails(f)
  PROVE  LinkInv'
<1>1. /\ fetching' = fetching \ {f} /\ failed' = TRUE
      /\ UNCHANGED <<world, pc, current, roles>>
  BY DEF FetchFails
<1>2. pc \in {"waitPolicies", "waitRoles"}
  BY DEF IInv, Waits
<1>3. RolesFetched => RolesFetched'
  BY <1>1, SameRoles DEF RolesFetched
<1> QED BY <1>1, <1>2, <1>3, SameRoles DEF LinkInv

(* The fixture replaces the stacks and leaves the roles. *)
LEMMA LoadFixtureLinks ==
  ASSUME Positions, LinkInv, LoadFixture
  PROVE  LinkInv'
<1>1. /\ pc = "fixture" /\ roles' = roles \o Fixture /\ pc' = "links" /\ UNCHANGED <<world, failed>>
  BY DEF LoadFixture
<1>2. Fixture \in Seq(AWSRole)
  BY DEF Fixture, AWSRole, AllRoles, Statement, TrustStatement
<1>3. Len(Fixture) = 3 /\ \A k \in 1..3 : Fixture[k].arn \notin Roles
  BY FixtureAssumption DEF Fixture
<1>4. roles \in Seq(AWSRole) /\ Len(roles) \in Nat
  BY DEF Positions, TypeOK
<1> HIDE DEF Fixture
<1>5. /\ DOMAIN roles = 1..Len(roles) /\ DOMAIN roles' = 1..(Len(roles) + 3)
      /\ \A n \in 1..Len(roles) : roles'[n] = roles[n]
      /\ \A n \in DOMAIN roles' : n \notin DOMAIN roles => \E k \in 1..3 : roles'[n] = Fixture[k]
  <2>1. /\ Len(roles') = Len(roles) + 3 /\ roles' \in Seq(AWSRole)
        /\ \A n \in 1..(Len(roles) + 3) :
             roles'[n] = IF n <= Len(roles) THEN roles[n] ELSE Fixture[n - Len(roles)]
    <3>1. PICK fixture \in Seq(AWSRole) : fixture = Fixture /\ Len(fixture) = 3
      BY <1>2, <1>3
    <3>2. PICK before, after : /\ before \in Seq(AWSRole) /\ before = roles
                                 /\ after = roles' /\ after = before \o fixture
      BY <1>1, <1>4, <3>1
    <3>3. /\ Len(after) = Len(before) + 3 /\ after \in Seq(AWSRole)
          /\ \A n \in 1..(Len(before) + 3) :
               after[n] = IF n <= Len(before) THEN before[n] ELSE fixture[n - Len(before)]
      <4>1. after \in Seq(AWSRole) /\ Len(after) = Len(before) + Len(fixture)
        BY <3>1, <3>2, ConcatProperties
      <4>2. \A n \in 1..(Len(before) + Len(fixture)) :
              after[n] = IF n <= Len(before) THEN before[n] ELSE fixture[n - Len(before)]
        <5> SUFFICES ASSUME NEW n \in 1..(Len(before) + Len(fixture))
                     PROVE  (before \o fixture)[n] =
                              IF n <= Len(before) THEN before[n] ELSE fixture[n - Len(before)]
          BY <3>2
        <5> QED OBVIOUS
      <4>3. Len(before) + Len(fixture) = Len(before) + 3
        BY <3>1
      <4> QED BY <4>1, <4>2, <4>3
    <3> QED BY <3>1, <3>2, <3>3
  <2>2. DOMAIN roles = 1..Len(roles) /\ DOMAIN roles' = 1..(Len(roles) + 3)
    BY <1>4, <2>1
  <2>3. \A n \in 1..Len(roles) : roles'[n] = roles[n]
    BY <1>4, <2>1
  <2>4. ASSUME NEW n \in 1..(Len(roles) + 3), n \notin 1..Len(roles)
        PROVE  \E k \in 1..3 : roles'[n] = Fixture[k]
    <3>1. n - Len(roles) \in 1..3 /\ ~(n <= Len(roles))
      BY <1>4, <2>4
    <3> QED BY <2>1, <3>1
  <2> QED BY <2>2, <2>3, <2>4
<1>6. \A n \in DOMAIN roles' : roles'[n].arn \in Roles => n \in DOMAIN roles
  BY <1>3, <1>5
<1>7. \A n \in DOMAIN roles : n \in DOMAIN roles' /\ roles'[n] = roles[n]
  BY <1>4, <1>5
<1>8. StoredOnce'
  BY <1>1, <1>6, <1>7 DEF LinkInv, StoredOnce
<1>9. LoadedRoles' = LoadedRoles /\ AuditedRoles' = AuditedRoles
  BY <1>1, <1>6, <1>7 DEF LoadedRoles, AuditedRoles, RolesOf
<1> QED BY <1>1, <1>8, <1>9 DEF LinkInv

(* Every step keeps the loaded roles and links. *)
LEMMA LinkInvKept ==
  ASSUME RolesApart, Positions, IInv, LinkInv, [Next]_vars
  PROVE  LinkInv'
<1>1. CASE UNCHANGED vars
  BY <1>1, SameRoles DEF vars, LinkInv, RolesFetched
<1>2. CASE Stop
  BY <1>2, SameRoles DEF Stop, LinkInv
<1>3. CASE ListPolicies \/ WaitForPolicies
  BY <1>3, SameRoles DEF ListPolicies, WaitForPolicies, LinkInv
<1>4. CASE ListStacks \/ ListStackResources \/ GetTemplate \/ StacksDone
  <2>1. /\ UNCHANGED <<world, failed, roles>> /\ pc \in {"stacks", "stack", "template"}
        /\ pc' \in {"stacks", "stack", "template", "fixture", "panicked"}
    BY <1>4 DEF ListStacks, ListStackResources, GetTemplate, StacksDone
  <2> QED BY <2>1, SameRoles DEF LinkInv
<1>5. CASE BuildLinks
  <2>1. links' = RoleLinks /\ UNCHANGED <<world, failed, roles>> /\ pc = "links" /\ pc' = "serving"
    BY <1>5 DEF BuildLinks, RoleLinks
  <2> QED BY <2>1, SameRoles DEF LinkInv
<1>6. ASSUME NEW f \in fetching, fetchPolicyDetails(f)
      PROVE  LinkInv'
  <2>1. f.pc = "details" /\ UNCHANGED <<world, pc, current, failed, roles>> /\ pc = "waitPolicies"
    BY <1>6 DEF fetchPolicyDetails, IInv, Waits, LinkInv, RolesFetched
  <2> QED BY <2>1, SameRoles DEF LinkInv
<1> QED BY <1>1, <1>2, <1>3, <1>4, <1>5, <1>6, ListRolesLinks, WaitForRolesLinks, FetchAttachedLinks,
           FetchInlineLinks, FetchFailsLinks, LoadFixtureLinks DEF Next, Start, Goroutine

(* The loaded roles and links are right in every reachable state. *)
LEMMA LinkInvariance == ASSUME PoliciesListed, RolesApart PROVE Spec => []LinkInv
<1>1. Init => LinkInv
  BY DEF Init, LinkInv, StoredOnce, LoadedRoles, RolesBefore
<1>2. Positions /\ IInv /\ LinkInv /\ [Next]_vars => LinkInv'
  BY LinkInvKept
<1> QED BY <1>1, <1>2, Invariance, PositionsInvariance, PTL DEF Spec

(* The tests of CanAssume are those of AWS, when nothing is denied. *)
LEMMA TestsAreTrust ==
  ASSUME NoDeny, Positions, StoredOnce, RolesHaveTheirPolicies,
         NEW m \in DOMAIN roles, NEW n \in DOMAIN roles, roles[m].arn \in Roles, roles[n].arn \in Roles
  PROVE  CanAssume(roles[m], roles[n]) <=> MayAssume(roles[m].arn, roles[n].arn)
<1>1. PICK source, target : source = roles[m].arn /\ target = roles[n].arn
  OBVIOUS
<1>2. roles[m].permissions = PermissionsOf(source) /\ roles[n].trust = world.trust[target]
  BY <1>1 DEF RolesHaveTheirPolicies, StoredOnce
<1>3. world \in Worlds /\ source \in Roles /\ target \in Roles
  BY <1>1 DEF Positions, TypeOK
<1>4. \A s \in PermissionsOf(source) : s.effect = "Allow"
  <2>1. world.attached[source] \subseteq Policies
    BY <1>3, AnswerTypes DEF Positions
  <2> QED BY <1>3, <2>1 DEF PermissionsOf, NoDeny
<1>5. \A s \in world.trust[target] : s.effect = "Allow"
  BY <1>3 DEF NoDeny
<1> DEFINE Naming == {t \in PermissionsOf(source) : t.assume /\ target \in t.resource}
           Trusting == {t \in world.trust[target] : t.assume /\ t.principal = source}
<1>6. {s.effect : s \in Naming} = {"Allow"} <=> Naming # {}
  BY <1>4
<1>7. {s.effect : s \in Trusting} = {"Allow"} <=> Trusting # {}
  BY <1>5
<1>8. MayAssume(source, target) <=> Naming # {} /\ Trusting # {}
  BY <1>6, <1>7 DEF MayAssume
<1>9. CanAssume(roles[m], roles[n]) <=> Naming # {} /\ Trusting # {}
  BY <1>1, <1>2 DEF CanAssume, hasPolicyToAssumeTarget, HasTrustRelationshipAllowingSourceAssumption
<1> QED BY <1>1, <1>8, <1>9

(* A server that serves has loaded no role or each role of the audited     *)
(* accounts, and has one link from each of them to each other one that it  *)
(* may assume: no pair is missed because a goroutine was late or failed,   *)
(* and none is linked twice.                                               *)
THEOREM LinksComplete ==
  ASSUME PoliciesListed, RolesApart, NoDeny PROVE Spec => []LinksAreTheTrustRelation
<1>1. Positions /\ IInv /\ LinkInv => LinksAreTheTrustRelation
  <2> SUFFICES ASSUME Positions, IInv, LinkInv, pc = "serving"
               PROVE  /\ LoadedRoles \in {{}, AuditedRoles}
                      /\ \A s, t \in LoadedRoles :
                           LinksBetween(s, t) = IF s # t /\ MayAssume(s, t) THEN 1 ELSE 0
    BY DEF LinksAreTheTrustRelation, AuditedRoles, RolesOf
  <2>1. LoadedRoles \in {{}, AuditedRoles} /\ links = RoleLinks /\ StoredOnce
    BY DEF LinkInv
  <2>2. ASSUME NEW s \in LoadedRoles, NEW t \in LoadedRoles
        PROVE  LinksBetween(s, t) = IF s # t /\ MayAssume(s, t) THEN 1 ELSE 0
    <3>1. PICK m \in DOMAIN roles, n \in DOMAIN roles :
            roles[m].arn = s /\ roles[n].arn = t /\ s \in Roles /\ t \in Roles
      BY DEF LoadedRoles
    <3>2. \A k \in DOMAIN roles : (roles[k].arn = s => k = m) /\ (roles[k].arn = t => k = n)
      BY <2>1, <3>1 DEF StoredOnce
    <3>3. CanAssume(roles[m], roles[n]) <=> MayAssume(s, t)
      BY <2>1, <3>1, TestsAreTrust DEF IInv
    <3>4. PICK link, between : /\ link = [id |-> <<m, n>>, source |-> s, target |-> t]
                               /\ between = {l \in links : l.source = s /\ l.target = t}
      OBVIOUS
    <3>5. \A l \in between : /\ l = link
                             /\ s # t /\ CanAssume(roles[m], roles[n])
      <4> SUFFICES ASSUME NEW l \in between
                   PROVE  l = link /\ s # t /\ CanAssume(roles[m], roles[n])
        OBVIOUS
      <4>1. PICK ij \in (DOMAIN roles) \X (DOMAIN roles) :
              /\ roles[ij[1]].arn # roles[ij[2]].arn
              /\ CanAssume(roles[ij[1]], roles[ij[2]])
              /\ l = [id |-> ij, source |-> roles[ij[1]].arn, target |-> roles[ij[2]].arn]
        BY <2>1, <3>4 DEF RoleLinks
      <4>2. ij = <<ij[1], ij[2]>> /\ ij[1] \in DOMAIN roles /\ ij[2] \in DOMAIN roles
        OBVIOUS
      <4>3. roles[ij[1]].arn = s /\ roles[ij[2]].arn = t
        BY <3>4, <4>1
      <4>4. ij[1] = m /\ ij[2] = n
        BY <3>2, <4>2, <4>3
      <4> QED BY <3>4, <4>1, <4>2, <4>3, <4>4
    <3>6. s # t /\ CanAssume(roles[m], roles[n]) => link \in between
      <4> SUFFICES ASSUME s # t, CanAssume(roles[m], roles[n]) PROVE link \in between
        OBVIOUS
      <4>1. PICK p : p = <<m, n>>
        OBVIOUS
      <4>2. p \in (DOMAIN roles) \X (DOMAIN roles) /\ p[1] = m /\ p[2] = n
        BY <4>1
      <4>3. link \in RoleLinks
        BY <3>1, <3>4, <4>1, <4>2 DEF RoleLinks
      <4> QED BY <2>1, <3>4, <4>3
    <3>7. CASE s # t /\ CanAssume(roles[m], roles[n])
      <4>1. between = {link}
        BY <3>5, <3>6, <3>7
      <4> QED BY <3>3, <3>4, <3>7, <4>1, FS_Singleton DEF LinksBetween
    <3>8. CASE ~(s # t /\ CanAssume(roles[m], roles[n]))
      <4>1. between = {}
        BY <3>5, <3>8
      <4> QED BY <3>3, <3>4, <3>8, <4>1, FS_EmptySet DEF LinksBetween
    <3> QED BY <3>7, <3>8
  <2> QED BY <2>1, <2>2
<1> QED BY <1>1, Invariance, PositionsInvariance, LinkInvariance, PTL

=============================================================================
