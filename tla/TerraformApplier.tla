-------------------------- MODULE TerraformApplier --------------------------
(***************************************************************************)
(* `iamzero apply` on a Terraform project: the active findings are planned *)
(* one after another on the files cached when the command started, each    *)
(* plan is shown, and an accepted plan is written file by file.            *)
(*                                                                         *)
(* A tree is what the files say: the inline policies of each role, the     *)
(* roles of each policy attachment, the arguments of each module block,    *)
(* and how often each output and variable is declared.  An ARN names a     *)
(* resource, up to the first "/", and may name an object after it; actions *)
(* of statements, descriptions and layout are left out, and so is what the *)
(* user edits meanwhile.                                                   *)
(***************************************************************************)
EXTENDS Naturals, Sequences, SequencesExt

CONSTANTS
  Roles,        \* IAM roles that have an active finding, one each
  Resources,    \* the resources that statements name
  Objects,      \* what follows the first "/" of an ARN
  Bare,         \* nothing does
  Star,         \* "*" does
  Attachments,  \* resources of the project that attach a managed policy to roles
  Modules,      \* module blocks with a local source, each with its directory
  Root,         \* the project's own main.tf
  Parent,       \* of each module, the place of its module block
  Labels,       \* addresses of resources in their files, type.name
  Naming,       \* <<r, s>> where the address of role s contains the one of r
  Projects,     \* the projects a run starts from
  Advised,      \* what the enabled actions of a finding may recommend
  CanFail,      \* whether reading or writing may fail, or the command stop
  Unlabelled,   \* the home of a resource that is taken for a block of main.tf
  None

Places == Modules \cup {Root}
Addresses == Labels \cup {None}
Arns == [resource : Resources, object : Objects]

(* What the user wrote.  home: the main.tf that has the block; None if none *)
(* has; Unlabelled for a resource that is not in the state file while       *)
(* main.tf has a block without labels, such as terraform or locals: the     *)
(* empty key of the one is that of the other.                               *)
(* exported: resources whose ARN the outputs.tf of their module outputs.    *)
(* attached: the roles of the attachments before the first plan.            *)
(* shown: the attachments of type aws_iam_policy_attachment that come last  *)
(* of their policy ARN in the state file, which keeps one for each ARN.     *)
(* literal: whether attachments give the names of their roles as strings.   *)
Project == [home     : [Roles \cup Resources \cup Attachments -> Places \cup {None, Unlabelled}],
            address  : [Resources -> Labels],
            exported : SUBSET Resources,
            attached : [Attachments -> SUBSET Roles],
            shown    : SUBSET Attachments,
            literal  : BOOLEAN]

ASSUME ProjectsAssumption ==
  /\ Parent \in [Modules -> Places]
  /\ Naming \subseteq Roles \X Roles
  /\ Projects \subseteq Project
  /\ \A l \in Projects, k \in Roles \cup Attachments : l.home[k] # Unlabelled
  /\ \A l \in Projects, x, y \in Resources :
       l.home[x] = l.home[y] /\ l.home[x] \in Places /\ l.address[x] = l.address[y] => x = y
  /\ CanFail \in BOOLEAN

ASSUME ConstantsAssumption ==
  /\ {Bare, Star} \subseteq Objects /\ Bare # Star
  /\ None \notin Labels /\ None \notin Places /\ Unlabelled \notin Places \cup {None}

(* Recommendations, of statements, of ARNs. *)
ASSUME AdvisedAssumption == Advised \subseteq Seq(Seq(Seq(Arns) \ {<<>>}))

VARIABLES
  project,      \* the layout of the project, which no step changes
  tfstate,      \* the roles of the attachments in the state file
  disk,         \* the tree in the files
  cache,        \* the tree in FileHandler.HclFiles: the plan being shown
  pc,           \* what the command does: "idle", "plan", "prompt", "write"
  todo,         \* findings not planned yet, by their roles
  current,      \* the finding planned last
  recommended,  \* of each finding, what it was last planned with
  planned,      \* findings planned since the command started
  accepted,     \* those whose plan the user accepted
  unwritten     \* files of the accepted plan still to be written

vars == <<project, tfstate, disk, cache, pc, todo, current, recommended, planned,
          accepted, unwritten>>

Expressions ==
  [kind : {"arn"}, of : Resources]
  \cup [kind : {"address", "variable"}, of : Addresses]
  \cup [kind : {"output"}, of : Addresses, module : Modules]

ASSUME NoneAssumption == None \notin Expressions

(* A policy of the user's has no name that matters, and grants nothing here. *)
OwnPolicy == [name |-> None, to |-> None, object |-> Bare]

(* What a policy grants access to: an expression, and what is joined to it. *)
Policies == {OwnPolicy} \cup [name : Nat, to : Expressions, object : Objects]

Tree == [inline    : [Roles -> SUBSET Policies],
         attached  : [Attachments -> SUBSET Roles],
         args      : [Modules -> [Addresses -> Expressions \cup {None}]],
         outputs   : [Modules -> [Addresses -> Nat]],
         variables : [Modules -> [Addresses -> Nat]]]

Files == ({"main"} \X Places) \cup ({"outputs", "variables"} \X Modules)

TypeOK ==
  /\ project \in Projects
  /\ tfstate \in [Attachments -> SUBSET Roles]
  /\ disk \in Tree /\ cache \in Tree
  /\ pc \in {"idle", "plan", "prompt", "write"}
  /\ todo \subseteq Roles
  /\ current \in Roles \cup {None}
  /\ recommended \in [Roles -> Advised \cup {<<>>}]
  /\ accepted \subseteq planned /\ planned \subseteq Roles
  /\ unwritten \subseteq Files

(* The state file is that of the project as it is deployed. *)
Init ==
  /\ project \in Projects
  /\ tfstate = project.attached
  /\ disk = [inline    |-> [r \in Roles |-> {OwnPolicy}],
             attached  |-> project.attached,
             args      |-> [m \in Modules |-> [a \in Addresses |-> None]],
             outputs   |-> [m \in Modules |-> [a \in Addresses |->
                              IF \E x \in project.exported :
                                   project.home[x] = m /\ project.address[x] = a
                              THEN 1 ELSE 0]],
             variables |-> [m \in Modules |-> [a \in Addresses |-> 0]]]
  /\ cache = disk
  /\ pc = "idle"
  /\ todo = {} /\ planned = {} /\ accepted = {} /\ unwritten = {}
  /\ current = None
  /\ recommended = [r \in Roles |-> <<>>]

-----------------------------------------------------------------------------
(* Planning a finding. *)

(* The file of the block that GetBlock returns for a resource. *)
BlockPlace(x) == IF project.home[x] = Unlabelled THEN Root ELSE project.home[x]

(* A block without labels has the empty address. *)
AddressInFile(x) == IF project.home[x] \in Places THEN project.address[x] ELSE None

(* Mutant: an output is appended though there is one with the value. *)
AppendOutputBlockIfNotExist_Always(outputs, m, address) == [outputs EXCEPT ![m][address] = @ + 1]

(* An output is looked up by its value, the address; the label of the one   *)
(* that is there, which may be the user's, is what references then name.    *)
AppendOutputBlockIfNotExist(outputs, m, address) ==
  [outputs EXCEPT ![m][address] = IF @ = 0 THEN 1 ELSE @]

(* A variable is looked up by its label, which is made from the address     *)
(* alone: resources of two modules may share one.                           *)
AppendVariableBlockIfNotExist(variables, m, address) ==
  [variables EXCEPT ![m][address] = IF @ = 0 THEN 1 ELSE @]

(* The resource is in a module, and the role is in another file: the module *)
(* gets an output.                                                          *)
Exported(role, x) == BlockPlace(x) \notin {Root, project.home[role], None}

(* The role is in a module, and the resource is in another file: the module *)
(* gets a variable, and its block an argument.                              *)
Imported(role, x) == project.home[role] \notin {Root, BlockPlace(x)} /\ BlockPlace(x) # None

(* Mutant: the output is looked for in the role's module. *)
Value_OfTheRole(role, x) ==
  IF Exported(role, x)
  THEN [kind |-> "output", of |-> AddressInFile(x), module |-> project.home[role]]
  ELSE [kind |-> "address", of |-> AddressInFile(x)]

(* What x is called in its own file, or in the file of its module's block.  *)
Value(role, x) ==
  IF Exported(role, x)
  THEN [kind |-> "output", of |-> AddressInFile(x), module |-> BlockPlace(x)]
  ELSE [kind |-> "address", of |-> AddressInFile(x)]

(* Without a block the ARN itself is used. *)
Reference(role, x) ==
  CASE BlockPlace(x) = None -> [kind |-> "arn", of |-> x]
    [] Imported(role, x)    -> [kind |-> "variable", of |-> AddressInFile(x)]
    [] OTHER                -> Value(role, x)

(* An object is joined to the reference if role and resource are in one     *)
(* file, unless it is "*".  References through outputs and variables lose   *)
(* it, and the ARN itself has it in any case.                               *)
JoinedObject(role, s) ==
  IF \/ BlockPlace(s.resource) = None
     \/ BlockPlace(s.resource) = project.home[role] /\ s.object # Star
  THEN s.object ELSE Bare

PolicyOf(role, s) ==
  [name |-> s.name, to |-> Reference(role, s.resource), object |-> JoinedObject(role, s)]

(* Mutant: the argument is set only with a new variable. *)
PlumbStatement_NewVariables(tree, role, s) ==
  LET x == s.resource
      address == AddressInFile(x)
      m == project.home[role]
  IN  [tree EXCEPT
         !.outputs   = IF Exported(role, x)
                       THEN AppendOutputBlockIfNotExist(@, BlockPlace(x), address) ELSE @,
         !.variables = IF Imported(role, x)
                       THEN AppendVariableBlockIfNotExist(@, m, address) ELSE @,
         !.args      = IF Imported(role, x) /\ tree.variables[m][address] = 0
                       THEN [@ EXCEPT ![m][address] = Value(role, x)] ELSE @,
         !.inline[role] = @ \cup {PolicyOf(role, s)}]

(* One statement: the plumbing of its resource, and an inline policy. *)
PlumbStatement(tree, role, s) ==
  LET x == s.resource
      address == AddressInFile(x)
      m == project.home[role]
  IN  [tree EXCEPT
         !.outputs   = IF Exported(role, x)
                       THEN AppendOutputBlockIfNotExist(@, BlockPlace(x), address) ELSE @,
         !.variables = IF Imported(role, x)
                       THEN AppendVariableBlockIfNotExist(@, m, address) ELSE @,
         !.args      = IF Imported(role, x)
                       THEN [@ EXCEPT ![m][address] = Value(role, x)] ELSE @,
         !.inline[role] = @ \cup {PolicyOf(role, s)}]

(* Every resource of a statement is a pointer to the loop variable, so the  *)
(* first, which is the one used, is the last.                               *)
StatementOf(i, arns) ==
  [name |-> i - 1, resource |-> Last(arns).resource, object |-> Last(arns).object]

(* Statements are numbered within their recommendation. *)
Statements(recs) ==
  FlattenSeq([k \in DOMAIN recs |-> [i \in DOMAIN recs[k] |-> StatementOf(i, recs[k][i])]])

(* The role's inline policies are replaced by those of the finding. *)
ApplyFindingToBlock(tree, role, recs) ==
  FoldLeft(LAMBDA t, s : PlumbStatement(t, role, s),
           [tree EXCEPT !.inline[role] = {}], Statements(recs))

(* Mutant: the attachment loses all its roles. *)
RemovePolicyAttachmentRole_All(tree, a, role) == [tree EXCEPT !.attached[a] = {}]

(* Whether the expression for role s in attachment a is taken for role: the *)
(* string of its name, or something that contains its address.  A role of   *)
(* another file has neither its address nor its name in the expression.     *)
TakenFor(a, s, role) ==
  IF project.literal THEN s = role
  ELSE project.home[s] = project.home[a] /\ <<role, s>> \in Naming

RemovePolicyAttachmentRole(tree, a, role) ==
  [tree EXCEPT !.attached[a] = {s \in @ : ~ TakenFor(a, s, role)}]

(* The attachments that the state file, as parsed, has for the role. *)
FindPolicyAttachments(role) == {a \in project.shown : role \in tfstate[a]}

(* Mutant: attachments are left alone. *)
Detach_Never(tree, role) == {tree}

(* The attachments found are pointers to one loop variable, so all are the  *)
(* one that the iteration over a map happened to end with.  One whose block *)
(* is in no main.tf ends the command instead (DetachPanics).                *)
Detach(tree, role) ==
  IF FindPolicyAttachments(role) = {} THEN {tree}
  ELSE {RemovePolicyAttachmentRole(tree, a, role) :
          a \in {b \in FindPolicyAttachments(role) : project.home[b] # None}}

-----------------------------------------------------------------------------
(* The command. *)

EndSession ==
  /\ pc' = "idle"
  /\ todo' = {} /\ planned' = {} /\ accepted' = {} /\ unwritten' = {}
  /\ current' = None
  /\ recommended' = [r \in Roles |-> <<>>]
  /\ UNCHANGED <<project, tfstate>>

(* Exec lists the active findings, Init parses the files and the state. *)
StartSession(active) ==
  /\ pc = "idle"
  /\ active # {}
  /\ cache' = disk
  /\ todo' = active
  /\ pc' = "plan"
  /\ UNCHANGED <<project, tfstate, disk, current, recommended, planned, accepted, unwritten>>

PlanFinding(role, recs) ==
  /\ pc = "plan"
  /\ role \in todo
  /\ project.home[role] # None
  /\ \E tree \in Detach(cache, role) : cache' = ApplyFindingToBlock(tree, role, recs)
  /\ todo' = todo \ {role}
  /\ current' = role
  /\ recommended' = [recommended EXCEPT ![role] = recs]
  /\ planned' = planned \cup {role}
  /\ pc' = "prompt"
  /\ UNCHANGED <<project, tfstate, disk, accepted, unwritten>>

(* A role that is not in the project, or has no block, ends the command. *)
PlanNothing(role) ==
  /\ pc = "plan"
  /\ role \in todo
  /\ project.home[role] = None
  /\ cache' = disk
  /\ EndSession
  /\ UNCHANGED disk

(* An attachment without a block is dereferenced, and the command dies. *)
DetachPanics(role) ==
  /\ pc = "plan"
  /\ role \in todo
  /\ project.home[role] # None
  /\ \E a \in FindPolicyAttachments(role) : project.home[a] = None
  /\ cache' = disk
  /\ EndSession
  /\ UNCHANGED disk

(* The plan is rejected; the cached files keep it. *)
Reject ==
  /\ pc = "prompt"
  /\ pc' = "plan"
  /\ UNCHANGED <<project, tfstate, disk, cache, todo, current, recommended, planned,
                 accepted, unwritten>>

(* What the file f says is taken from one tree, the rest from another. *)
Copy(f, from, to) ==
  LET Of(kind, place, part) == IF f = <<kind, place>> THEN from[part] ELSE to[part]
  IN  [inline    |-> [r \in Roles |-> Of("main", project.home[r], "inline")[r]],
       attached  |-> [a \in Attachments |-> Of("main", project.home[a], "attached")[a]],
       args      |-> [m \in Modules |-> Of("main", Parent[m], "args")[m]],
       outputs   |-> [m \in Modules |-> Of("outputs", m, "outputs")[m]],
       variables |-> [m \in Modules |-> Of("variables", m, "variables")[m]]]

(* All cached files, of which those matter whose text changes. *)
PendingChanges == {f \in Files : Copy(f, cache, disk) # disk}

Accept ==
  /\ pc = "prompt"
  /\ unwritten' = PendingChanges
  /\ accepted' = accepted \cup {current}
  /\ pc' = IF unwritten' = {} THEN "plan" ELSE "write"
  /\ UNCHANGED <<project, tfstate, disk, cache, todo, current, recommended, planned>>

(* The files are written in the order of a map, that is in any order. *)
WriteFile(f) ==
  /\ pc = "write"
  /\ f \in unwritten
  /\ disk' = Copy(f, cache, disk)
  /\ unwritten' = unwritten \ {f}
  /\ pc' = IF unwritten' = {} THEN "plan" ELSE "write"
  /\ UNCHANGED <<project, tfstate, cache, todo, current, recommended, planned, accepted>>

(* An error, of reading or writing or at the prompt, ends the command. *)
Fail ==
  /\ CanFail
  /\ pc # "idle"
  /\ cache' = disk
  /\ EndSession
  /\ UNCHANGED disk

Finish ==
  /\ pc = "plan"
  /\ todo = {}
  /\ cache' = disk
  /\ EndSession
  /\ UNCHANGED disk

(* `terraform apply` brings the state file up to date. *)
TerraformApply ==
  /\ pc = "idle"
  /\ tfstate' = disk.attached
  /\ UNCHANGED <<project, disk, cache, pc, todo, current, recommended, planned, accepted,
                 unwritten>>

Next ==
  \/ \E active \in SUBSET Roles : StartSession(active)
  \/ \E role \in Roles, recs \in Advised : PlanFinding(role, recs)
  \/ \E role \in Roles : PlanNothing(role)
  \/ \E role \in Roles : DetachPanics(role)
  \/ Reject
  \/ Accept
  \/ \E f \in Files : WriteFile(f)
  \/ Fail
  \/ Finish
  \/ TerraformApply

Spec == Init /\ [][Next]_vars

-----------------------------------------------------------------------------
(* What Terraform makes of a tree: the resources that an expression at a    *)
(* place stands for, none if it is broken.                                  *)
Located(place, address) == {x \in Resources : project.home[x] = place /\ project.address[x] = address}

ResolveValue(tree, place, e) ==
  CASE e = None -> {}
    [] e # None /\ e.kind = "arn" -> {e.of}
    [] e # None /\ e.kind = "address" -> Located(place, e.of)
    [] e # None /\ e.kind = "output" ->
         IF Parent[e.module] = place /\ tree.outputs[e.module][e.of] = 1
         THEN Located(e.module, e.of) ELSE {}

Resolve(tree, place, e) ==
  IF e # None /\ e.kind = "variable"
  THEN IF tree.variables[place][e.of] = 1
       THEN ResolveValue(tree, Parent[place], tree.args[place][e.of]) ELSE {}
  ELSE ResolveValue(tree, place, e)

(* The ARNs a finding recommends access to. *)
Wanted(role) ==
  LET recs == recommended[role]
  IN  UNION {UNION {ToSet(recs[k][i]) : i \in DOMAIN recs[k]} : k \in DOMAIN recs}

(* The role's inline policies as Terraform sees them. *)
Granted(tree, role) ==
  {[name |-> p.name, to |-> Resolve(tree, project.home[role], p.to), object |-> p.object] :
     p \in tree.inline[role]}

(* Nothing is granted but what is recommended: a resource of the finding,   *)
(* and an object recommended of it or the resource alone.                   *)
GrantsNothingElse(tree, role) ==
  \A g \in Granted(tree, role), x \in Resources :
    x \in g.to => \E arn \in Wanted(role) : arn.resource = x /\ g.object \in {arn.object, Bare}

(* A policy grants what arn names, up to an object that the reference loses. *)
Grants(tree, role, arn) ==
  \E g \in Granted(tree, role) :
    /\ g.to = {arn.resource}
    /\ project.home[arn.resource] = None => g.object = arn.object
    /\ project.home[arn.resource] = project.home[role] /\ arn.object # Star => g.object = arn.object

(* Every statement gets one of its resources, but for those that are taken  *)
(* for a block without labels.  The policies are those of the files: two of *)
(* different actions may have one name, and AWS then keeps one of them.     *)
GrantsEveryStatement(tree, role) ==
  LET recs == recommended[role]
  IN  \A k \in DOMAIN recs : \A i \in DOMAIN recs[k] :
        \E arn \in ToSet(recs[k][i]) :
          project.home[arn.resource] = Unlabelled \/ Grants(tree, role, arn)

(* No two blocks of the project have one address. *)
AddressesApart ==
  \A x, y \in Resources :
    /\ project.home[x] \in Places /\ project.home[y] \in Places
    /\ project.address[x] = project.address[y]
    => x = y

(* Once an accepted plan is written, the policies of every role planned so  *)
(* far reach the resources recommended to it, one for every statement, and  *)
(* no others: through outputs, variables and module arguments in several    *)
(* files, and whatever plans of other roles, rejected plans, failed writes  *)
(* and earlier runs of the command left there.                              *)
PlannedRolesReachTheirResources ==
  AddressesApart /\ pc = "plan" /\ current \in accepted =>
    \A r \in planned : GrantsNothingElse(disk, r) /\ GrantsEveryStatement(disk, r)

Detached(tree, role) == \A a \in Attachments : role \notin tree.attached[a]

(* "Remove any managed policy attachments for this role": the broad access  *)
(* that the recommended policies replace is gone with the same write.       *)
PlannedRolesAreDetached ==
  pc = "plan" /\ current \in accepted => \A r \in planned : Detached(disk, r)

(* A planned role whose attachments in the state file all name it so that   *)
(* it is recognised has lost at least one of them on disk with the next     *)
(* accepted plan, with a state file of any age; the only one, if it has one. *)
PlannedRolesLoseAnAttachment ==
  pc = "plan" /\ current \in accepted =>
    \A r \in planned :
      LET found == FindPolicyAttachments(r)
      IN  found # {} /\ (\A a \in found : TakenFor(a, r, r))
            => \E a \in found : r \notin disk.attached[a]

(* Terraform refuses a module that declares an output or a variable twice:  *)
(* no number of runs of the command appends one that is there.              *)
DeclaredOnce ==
  \A m \in Modules, a \in Addresses : disk.outputs[m][a] <= 1 /\ disk.variables[m][a] <= 1

(* Whole files are written, but a role whose finding was not planned keeps  *)
(* its policies and attachments.                                            *)
KeepsRoles(rs) ==
  \A r \in rs : /\ disk'.inline[r] = disk.inline[r]
                /\ \A a \in Attachments : r \in disk.attached[a] => r \in disk'.attached[a]

UnplannedRolesKept == [][KeepsRoles(Roles \ planned)]_vars

(* A finding that is applied already is planned without any change: another *)
(* session adds no output, variable or argument for it.                     *)
Applied(tree, role, recs) ==
  /\ Detached(tree, role)
  /\ Granted(tree, role) =
       {[name |-> s.name, to |-> {s.resource}, object |-> JoinedObject(role, s)] :
          s \in ToSet(Statements(recs))}

PlansOnlyChanges ==
  [][pc = "plan" /\ pc' = "prompt" /\ Applied(cache, current', recommended'[current'])
     => cache' = cache]_vars

(* "Accept the change? [y/n]": what was not accepted is not written. *)
RejectedRolesKept == [][KeepsRoles(Roles \ accepted)]_vars

=============================================================================
