------------------------------ MODULE Auditor ------------------------------
(***************************************************************************)
(* What the collector loads before it serves: for each audit role, the     *)
(* managed policies and then the IAM roles of its account, fetched by a    *)
(* group of goroutines each, and the resources of its CDK stacks, fetched  *)
(* one after another; then the fixture roles, and the links between all    *)
(* roles.  Lookups of List and GetByPhysicalID take no lock.               *)
(*                                                                         *)
(* An audit role is its account and a role its ARN.  What AWS answers is   *)
(* one constant world: the first page of each list, for nobody asks for    *)
(* the next.  A statement keeps its effect, whether its actions include    *)
(* sts:AssumeRole, and the roles it names.                                 *)
(***************************************************************************)
EXTENDS Naturals, FiniteSets, Sequences

CONSTANTS
  Accounts, Roles, Policies, Stacks,
  PhysicalIds,               \* names CloudFormation gives to resources
  Source, Target, Unrelated, \* the roles of the fixture
  Worlds                     \* what AWS may answer in a run

AllRoles == Roles \cup {Source, Target, Unrelated}

Statement == [effect : {"Allow", "Deny"}, assume : BOOLEAN, resource : SUBSET AllRoles]
TrustStatement == [effect : {"Allow", "Deny"}, assume : BOOLEAN, principal : AllRoles]

World == [auditRoles : Seq(Accounts),
          policies   : [Accounts -> SUBSET Policies],
          document   : [Policies -> SUBSET Statement],
          roles      : [Accounts -> SUBSET Roles],
          attached   : [Roles -> SUBSET Policies],
          inline     : [Roles -> SUBSET Statement],
          trust      : [Roles -> SUBSET TrustStatement],
          stacks     : [Accounts -> Seq(Stacks)],
          cdk        : SUBSET Stacks,
          unnamed    : SUBSET Stacks, \* with a resource that has no physical id yet
          resources  : [Stacks -> Seq(PhysicalIds)],
          bare       : SUBSET PhysicalIds]  \* those with no "/" in their CDK path

ASSUME WorldsAssumption == Worlds \subseteq World
ASSUME FixtureAssumption ==
  Cardinality({Source, Target, Unrelated}) = 3 /\ {Source, Target, Unrelated} \cap Roles = {}

VARIABLES
  world,      \* what AWS answers, which no step changes
  pc,         \* what Start does next
  current,    \* the audit role at hand, a position in auditRoles
  fetching,   \* the goroutines of the errgroup, by the policy or role they fetch
  failed,     \* whether one of them returned an error
  policyMap,  \* the policies whose documents were stored
  roles,      \* AWSRoleStorage
  todo,       \* stacks of the account still to be looked at
  resources,  \* CDKResourceStorage
  links       \* the links that BuildLinks found

vars == <<world, pc, current, fetching, failed, policyMap, roles, todo, resources, links>>

AWSRole == [arn : AllRoles, permissions : SUBSET Statement, trust : SUBSET TrustStatement]

Fetch == [of : Policies, pc : {"details"}]
         \cup [of : Roles, pc : {"attached"}]
         \cup [of : Roles, pc : {"inline"}, permissions : SUBSET Statement]

CDKResource == [stack : Stacks, account : Accounts, physicalId : PhysicalIds]

TypeOK ==
  /\ world \in Worlds
  /\ pc \in {"policies", "waitPolicies", "roles", "waitRoles", "stacks", "stack", "template",
             "fixture", "links", "serving", "stopped", "panicked"}
  /\ current = 1 \/ current \in DOMAIN world.auditRoles
  /\ fetching \subseteq Fetch
  /\ failed \in BOOLEAN
  /\ policyMap \subseteq Policies
  /\ roles \in Seq(AWSRole)
  /\ todo \in Seq(Stacks)
  /\ resources \in Seq(CDKResource)
  /\ links \subseteq [id : Nat \X Nat, source : AllRoles, target : AllRoles]

(* Start begins with the stacks, or without -cdk with the fixture; it would *)
(* begin with LoadResources, whose call is commented out.                   *)
Init ==
  /\ world \in Worlds
  /\ pc \in {"policies", "stacks", "fixture"}
  /\ current = 1
  /\ fetching = {}
  /\ failed = FALSE
  /\ policyMap = {}
  /\ roles = <<>> /\ resources = <<>> /\ todo = <<>>
  /\ links = {}

Account == world.auditRoles[current]

(* A call fails, or there is no audit role: Start returns the error. *)
Stop ==
  /\ \/ pc \in {"policies", "roles", "stacks", "template"}
     \/ pc = "stack" /\ todo # <<>>
  /\ pc' = "stopped"
  /\ UNCHANGED <<world, current, fetching, failed, policyMap, roles, todo, resources, links>>

-----------------------------------------------------------------------------
(* LoadResources. *)

ListPolicies ==
  /\ pc = "policies" /\ current <= Len(world.auditRoles)
  /\ fetching' = [of : world.policies[Account], pc : {"details"}]
  /\ pc' = "waitPolicies"
  /\ UNCHANGED <<world, current, failed, policyMap, roles, todo, resources, links>>

fetchPolicyDetails(f) ==
  /\ f.pc = "details"
  /\ policyMap' = policyMap \cup {f.of}
  /\ fetching' = fetching \ {f}
  /\ UNCHANGED <<world, pc, current, failed, roles, todo, resources, links>>

(* Mutant: the roles are listed while policies are being fetched. *)
WaitForPolicies_NoWait ==
  /\ pc = "waitPolicies"
  /\ pc' = IF failed THEN "stopped" ELSE "roles"
  /\ UNCHANGED <<world, current, fetching, failed, policyMap, roles, todo, resources, links>>

(* Mutant: after an error the account is tried again. *)
WaitForPolicies_Again ==
  /\ pc = "waitPolicies" /\ fetching = {}
  /\ pc' = IF failed THEN "policies" ELSE "roles"
  /\ UNCHANGED <<world, current, fetching, failed, policyMap, roles, todo, resources, links>>

(* g.Wait() *)
WaitForPolicies ==
  /\ pc = "waitPolicies" /\ fetching = {}
  /\ pc' = IF failed THEN "stopped" ELSE "roles"
  /\ UNCHANGED <<world, current, fetching, failed, policyMap, roles, todo, resources, links>>

ListRoles ==
  /\ pc = "roles"
  /\ fetching' = fetching \cup [of : world.roles[Account], pc : {"attached"}]
  /\ pc' = "waitRoles"
  /\ UNCHANGED <<world, current, failed, policyMap, roles, todo, resources, links>>

(* FetchDetailsForRole, up to the managed policies: those it finds in the map. *)
FetchAttached(f) ==
  /\ f.pc = "attached"
  /\ fetching' = (fetching \ {f}) \cup
       {[of |-> f.of, pc |-> "inline",
         permissions |-> UNION {world.document[p] : p \in world.attached[f.of] \cap policyMap}]}
  /\ UNCHANGED <<world, pc, current, failed, policyMap, roles, todo, resources, links>>

(* The rest of it: the inline policies, and roleStorage.Add. *)
FetchInline(f) ==
  /\ f.pc = "inline"
  /\ roles' = Append(roles, [arn |-> f.of, permissions |-> f.permissions \cup world.inline[f.of],
                             trust |-> world.trust[f.of]])
  /\ fetching' = fetching \ {f}
  /\ UNCHANGED <<world, pc, current, failed, policyMap, todo, resources, links>>

(* A goroutine returns an error: the group keeps it, and cancels the context *)
(* of the others, whose calls then may fail too.                             *)
FetchFails(f) ==
  /\ fetching' = fetching \ {f}
  /\ failed' = TRUE
  /\ UNCHANGED <<world, pc, current, policyMap, roles, todo, resources, links>>

(* Mutant: Start goes on without waiting for the goroutines. *)
WaitForRoles_NoWait ==
  /\ pc = "waitRoles"
  /\ IF failed
     THEN pc' = "stopped" /\ UNCHANGED current
     ELSE IF current < Len(world.auditRoles)
          THEN pc' = "policies" /\ current' = current + 1
          ELSE pc' \in {"stacks", "fixture"} /\ current' = 1
  /\ UNCHANGED <<world, fetching, failed, policyMap, roles, todo, resources, links>>

(* The next audit role; after the last, the stacks or without -cdk the fixture. *)
WaitForRoles ==
  /\ pc = "waitRoles" /\ fetching = {}
  /\ IF failed
     THEN pc' = "stopped" /\ UNCHANGED current
     ELSE IF current < Len(world.auditRoles)
          THEN pc' = "policies" /\ current' = current + 1
          ELSE pc' \in {"stacks", "fixture"} /\ current' = 1
  /\ UNCHANGED <<world, fetching, failed, policyMap, roles, todo, resources, links>>

-----------------------------------------------------------------------------
(* LoadCloudFormationStacks. *)

ListStacks ==
  /\ pc = "stacks" /\ current <= Len(world.auditRoles)
  /\ todo' = world.stacks[Account]
  /\ pc' = "stack"
  /\ UNCHANGED <<world, current, fetching, failed, policyMap, roles, resources, links>>

(* A stack without a resource of type AWS::CDK::Metadata is left out.  The  *)
(* physical id of one that has it is dereferenced, though it may be nil.    *)
ListStackResources ==
  /\ pc = "stack" /\ todo # <<>>
  /\ IF Head(todo) \in world.cdk
     THEN pc' = (IF Head(todo) \in world.unnamed THEN "panicked" ELSE "template") /\ UNCHANGED todo
     ELSE todo' = Tail(todo) /\ UNCHANGED pc
  /\ UNCHANGED <<world, current, fetching, failed, policyMap, roles, resources, links>>

(* Mutant: the resources of a stack replace those of the one before. *)
GetTemplate_Replaces ==
  LET stack == Head(todo)
      ids   == world.resources[stack]
  IN  /\ pc = "template"
      /\ resources' = [k \in DOMAIN ids |->
                         [stack |-> stack, account |-> Account, physicalId |-> ids[k]]]
      /\ todo' = Tail(todo)
      /\ pc' = "stack"
      /\ UNCHANGED <<world, current, fetching, failed, policyMap, roles, links>>

(* The resources are added with the CDK ids of their paths in the template. *)
(* parseIDFromCDKPath panics on a path that has no "/", an empty one too.   *)
GetTemplate ==
  LET stack == Head(todo)
      ids   == world.resources[stack]
      bare  == {k \in DOMAIN ids : ids[k] \in world.bare}
      added == {k \in DOMAIN ids : \A b \in bare : k < b}
  IN  /\ pc = "template"
      /\ resources' = resources \o [k \in added |->
                        [stack |-> stack, account |-> Account, physicalId |-> ids[k]]]
      /\ IF bare = {} THEN todo' = Tail(todo) /\ pc' = "stack"
                      ELSE pc' = "panicked" /\ UNCHANGED todo
      /\ UNCHANGED <<world, current, fetching, failed, policyMap, roles, links>>

(* Mutant: one account too many. *)
StacksDone_OneMore ==
  /\ pc = "stack" /\ todo = <<>>
  /\ IF current <= Len(world.auditRoles)
     THEN pc' = "stacks" /\ current' = current + 1
     ELSE pc' = "fixture" /\ UNCHANGED current
  /\ UNCHANGED <<world, fetching, failed, policyMap, roles, todo, resources, links>>

StacksDone ==
  /\ pc = "stack" /\ todo = <<>>
  /\ IF current < Len(world.auditRoles)
     THEN pc' = "stacks" /\ current' = current + 1
     ELSE pc' = "fixture" /\ UNCHANGED current
  /\ UNCHANGED <<world, fetching, failed, policyMap, roles, todo, resources, links>>

(* GetByPhysicalID: the first with that physical id, or nothing. *)
GetByPhysicalID(id) ==
  LET found == {k \in DOMAIN resources : resources[k].physicalId = id}
  IN  {resources[k] : k \in {j \in found : \A i \in found : j <= i}}

-----------------------------------------------------------------------------
(* The fixture and the links. *)

Fixture ==
  << [arn |-> Source, trust |-> {},
      permissions |-> {[effect |-> "Allow", assume |-> TRUE, resource |-> {Target}]}],
     [arn |-> Target, permissions |-> {},
      trust |-> {[effect |-> "Allow", assume |-> TRUE, principal |-> Source]}],
     [arn |-> Unrelated, permissions |-> {}, trust |-> {}] >>

LoadFixture ==
  /\ pc = "fixture"
  /\ roles' = roles \o Fixture
  /\ pc' = "links"
  /\ UNCHANGED <<world, current, fetching, failed, policyMap, todo, resources, links>>

(* Neither test looks at the effect. *)
hasPolicyToAssumeTarget(source, target) ==
  \E s \in source.permissions : s.assume /\ target.arn \in s.resource

HasTrustRelationshipAllowingSourceAssumption(target, source) ==
  \E s \in target.trust : s.assume /\ s.principal = source.arn

(* Mutant: the trust policy of the source is asked. *)
CanAssume_OwnTrust(source, target) ==
  hasPolicyToAssumeTarget(source, target) /\ HasTrustRelationshipAllowingSourceAssumption(source, target)

CanAssume(source, target) ==
  hasPolicyToAssumeTarget(source, target) /\ HasTrustRelationshipAllowingSourceAssumption(target, source)

(* Every pair of roles is compared; a link gets a fresh uuid, which the two *)
(* positions stand for.                                                     *)
BuildLinks ==
  /\ pc = "links"
  /\ links' = {[id |-> ij, source |-> roles[ij[1]].arn, target |-> roles[ij[2]].arn] :
                 ij \in {p \in (DOMAIN roles) \X (DOMAIN roles) :
                           /\ roles[p[1]].arn # roles[p[2]].arn
                           /\ CanAssume(roles[p[1]], roles[p[2]])}}
  /\ pc' = "serving"
  /\ UNCHANGED <<world, current, fetching, failed, policyMap, roles, todo, resources>>

Goroutine ==
  \E f \in fetching :
    fetchPolicyDetails(f) \/ FetchAttached(f) \/ FetchInline(f) \/ FetchFails(f)

Start ==
  \/ Stop
  \/ ListPolicies \/ WaitForPolicies \/ ListRoles \/ WaitForRoles
  \/ ListStacks \/ ListStackResources \/ GetTemplate \/ StacksDone
  \/ LoadFixture \/ BuildLinks

Next == Goroutine \/ Start

(* Calls to AWS return, and goroutines are scheduled. *)
Spec == Init /\ [][Next]_vars /\ WF_vars(Goroutine) /\ WF_vars(Start)

-----------------------------------------------------------------------------
(* "AWSRoleStorage ... is goroutine-safe", but List, as GetByPhysicalID, is *)
(* not: it is never called while a goroutine may Add, because LoadResources *)
(* waits for all of them, whichever fail.                                   *)
NobodyAddsWhileReading ==
  pc \in {"links", "serving", "stopped"} => fetching = {}

PermissionsOf(role) == world.inline[role] \cup UNION {world.document[p] : p \in world.attached[role]}

(* Every role loaded has the documents of all its policies, although one    *)
(* goroutine stores a managed policy and another one reads it: no policy is *)
(* missing for being fetched later, or for a fetch that failed.             *)
RolesHaveTheirPolicies ==
  \A k \in DOMAIN roles : roles[k].arn \in Roles =>
    roles[k].permissions = PermissionsOf(roles[k].arn)

LoadedRoles == {roles[k].arn : k \in DOMAIN roles} \cap Roles

(* AWS: some statement allows it and none denies it, on both sides. *)
MayAssume(source, target) ==
  LET Effects == {s.effect : s \in {t \in PermissionsOf(source) : t.assume /\ target \in t.resource}}
      Trusted == {s.effect : s \in {t \in world.trust[target] : t.assume /\ t.principal = source}}
  IN  Effects = {"Allow"} /\ Trusted = {"Allow"}

LinksBetween(source, target) == Cardinality({l \in links : l.source = source /\ l.target = target})

(* "checks whether the source role can assume the target role": a server    *)
(* that serves has one link for each pair of roles of audited accounts that *)
(* AWS would let assume each other, across accounts, and no other.          *)
LinksAreTheTrustRelation ==
  pc = "serving" =>
    /\ LoadedRoles \in {{}, UNION {world.roles[world.auditRoles[k]] : k \in DOMAIN world.auditRoles}}
    /\ \A s, t \in LoadedRoles :
         LinksBetween(s, t) = IF s # t /\ MayAssume(s, t) THEN 1 ELSE 0

(* A lookup by the Detective finds the stack that a role of an audited      *)
(* account is defined in, if that is a CDK stack: no stack and no account   *)
(* is left out by a server that serves after loading the stacks.            *)
LookupsFindTheStack ==
  pc = "serving" /\ resources # <<>> =>
    \A k \in DOMAIN world.auditRoles :
      LET account == world.auditRoles[k]
      IN  \A i \in DOMAIN world.stacks[account] :
            LET stack == world.stacks[account][i]
            IN  \A j \in DOMAIN world.resources[stack] :
                  GetByPhysicalID(world.resources[stack][j]) =
                    IF stack \in world.cdk
                    THEN {[stack |-> stack, account |-> account,
                           physicalId |-> world.resources[stack][j]]}
                    ELSE {}

(* Start ends, in a server or an error, whichever calls fail: Wait returns. *)
StartEnds == <>(pc \in {"serving", "stopped", "panicked"})

=============================================================================
