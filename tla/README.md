# IAM Zero in TLA+

IAM Zero collects the AWS API calls that applications make, groups them into
*findings* (one least-privilege policy for a role), and lets people edit
findings in a console and apply them to Terraform or CDK projects.  This
directory specifies the parts of it that several goroutines, processes or
messages share, model-checks them with TLC and proves their safety properties
with TLAPS.

- [The system](#the-system)
- [The modules](#the-modules)
- [What the runs show](#what-the-runs-show)
- [Bounds](#bounds)
- [Fairness](#fairness)
- [What is proved](#what-is-proved)
- [What the code gets wrong](#what-the-code-gets-wrong)
- [What is not modelled](#what-is-not-modelled)
- [Plan](#plan)

## The system

```
  clients --HTTP batches--> collector ---+                          +--- console <--HTTP-- web UI
  clients --> SQS queue --> SQS server --+--> Detective --> store --+--- apply command --> Terraform / CDK files
  CloudTrail --> scan command -----------+        |
  AWS --> Auditor, before the collector serves ---+          tokens: made by the console and the local
                                                             command, checked by the collector
```

`PROJECT.json` lists every component with its sources and its status, and the
hazards at their lines.  In words:

| component | state it keeps | operations | what makes it correct |
|---|---|---|---|
| Detective (`pkg/events/detective.go`) | none: a call keeps local copies of a finding and an action | `AnalyseEvent`: look up the role's active finding or make one up, add the action, list the actions, recalculate the document, save the finding | an event ends up under one active finding of its role, whose document is that of its actions |
| Findings and actions (`pkg/recommendations`) | records | `RecalculateDocument`, `SelectAdvisory`, `GetSelectedAdvisory` | the document grants what enabled actions selected, no more |
| Console API (`cmd/console/app/api`) | none | `EditAction`, `SetFindingStatus`, token create, list and delete, read-only lists | an edit changes its action and the finding's document, and nothing else |
| Collector, HTTP (`cmd/collector/app/routes.go`) | none | a batch analyses its events one after another and stops at the first error | as for the Detective |
| Collector, SQS (`cmd/collector/app/sqs_server.go`) | a poller, a channel, ten workers, a context | poll, dispatch, handle, delete, shutdown | no event is lost; every good one is handled; shutdown ends |
| Storage (`pkg/storage`): Bolt, in-memory, Postgres | actions, findings, events | get, list, find by role, add, update, create-or-update | each call is atomic; a write replaces one whole record |
| Tokens (`pkg/tokens`): in-memory, DynamoDB, Postgres | tokens | create, delete, get, list | a stored token authenticates and a deleted one no longer does |
| Local command (`cmd/cli/commands/local.go`) | the configuration file, a token, the lock of the Bolt file | create the token, write the file, open the store, serve, stop | clients that read the file reach the server that wrote it |
| Terraform applier (`pkg/applier/terraform`) | parsed files, pending changes | plan a finding, apply a plan | the files end up with the roles' recommended policies attached, and only accepted changes are written |
| CDK applier, apply command (`pkg/applier/cdk`, `cmd/cli/commands/apply.go`) | pending plans | detect a project, plan, ask, apply | as above |
| CloudTrail scan (`pkg/cloudtrail`, `scan.go`) | the events seen, by their hashes; the lock of the Bolt file | query, read a page, deduplicate, analyse | each distinct call of the role is recorded once, and nothing of a log that cannot be read |
| Auditor (`pkg/audit`) | roles, policies, CDK resources, links | load with groups of goroutines, `CanAssume`, `BuildLinks`, look up | readers wait for the goroutines; the links are the trust relation of all accounts |
| Health check (`pkg/healthcheck`) | a status, atomically replaced | set, get | the time since which the server is ready is kept |
| Programs (`cmd/*/main.go`) | none | wire a store and transports together | |

The Detective runs in a goroutine per HTTP request and per SQS worker; the
console edits the same store from its own goroutines.  No lock or transaction
spans two storage calls of a handler, and a write puts back the whole record
the handler read: everything hard about the core of the system comes from
there.  The hard behaviours, in the order they matter:

1. Two handlers interleave between the calls that read a record and the one
   that writes it back.
2. A handler stops between two writes: its storage call fails, or its process
   ends.  Nothing is rolled back.
3. An action is written before the finding it refers to.
4. SQS delivers at least once, in any order; a delete may fail or come too late.
5. The SQS server hands the address of a loop variable to its workers.
6. Shutdown cancels what is running.
7. The apply command plans all findings of a session on one set of cached
   files, and writes a plan that spans several files one file at a time.
8. The loop variables of the Terraform applier are shared in the same way.
9. A scan stops between any two storage calls, a row may be one the code panics
   on, and a local server wants the same file.
10. The Auditor's goroutines store what others read, and each may fail while the
    rest go on.
11. The in-memory token store is a slice without a lock: a request ranges over
    its array while the console appends to it or shifts it.
12. Invocations of the local command overlap, and each overwrites the
    configuration file before it knows whether it can serve.

## The modules

| module | models | kind |
|---|---|---|
| `Findings` | `finding.go`, `action.go`, the queries of the Bolt storage | data and pure operators |
| `AtomicFindings` | what `AnalyseEvent`, `EditAction` and `SetFindingStatus` do as a whole | abstract specification |
| `EventPipeline` | the same three handlers, one storage call a step | detailed specification |
| `SQSServer` | `sqs_server.go` and the queue it polls | specification |
| `TerraformApplier` | `terraform.go` and the session of `apply.go`, with what Terraform makes of the files | specification |
| `CloudTrailScan` | `scan.go`, `cloudtrail.go`, `aggregator.go`, and a local server on the same Bolt file | specification, on top of `EventPipeline` |
| `Auditor` | `auditor.go`, `cloudformation.go`, `links.go`, `role.go`, `fixture.go` | specification |
| `LocalServer` | `local.go`, `inmemory_token.go`, `tokens.go`, `collector_token_auth.go` | specification |
| `FindingsProofs`, `EventPipelineProofs`, `CloudTrailScanProofs`, `SQSServerProofs`, `AuditorProofs`, `LocalServerProofs`, `TerraformApplierProofs` | | theorems and proofs, one module a specification |
| `EventPipelineRefinement` | | proof that `EventPipeline` implements `AtomicFindings` |
| `MCPipeline`, `MCScan`, `MCSQSServer`, `MCTerraform`, `MCAuditor`, `MCLocal` | | instances for TLC |

**Findings.**  The store is two tables, functions from ids to a record or
`None`.  A finding keeps its role, status, event count and document; an action
keeps its finding, role, number of recommendations (`advice`), the enabled
switch, and which recommendation is selected (`selected`, 0 for none).  An
advisory is the pair of its action and its position, because
`CreateAdviceFromEvent` gives every advisory of every action a fresh uuid.  A
document is the set of the advisories whose statements it holds.  Bolt iterates
in key order, so `FindByRole` returns the match with the least id; finding ids
are numbers for that reason.  `RecalculateDocument` keeps the nil dereference
of the code (`finding.go:47`): where the code would panic, the model puts `None`
in the document and `TypeOK` breaks.

**EventPipeline.**  `req[r].pc` is the storage call that handler `r` makes
next, and the record beside it the local variables that live until the handler
ends.  A step is one call with the local work after it:

| code | actions |
|---|---|
| `AnalyseEvent` (`detective.go:37-140`) | `Analyse` (up to and with `FindByRole`, and building the action) · `AddAction` (`Action.Add`) · `ListActions` (`ListForPolicy`, `RecalculateDocument`) · `SaveFinding` (`CreateOrUpdate`) |
| `EditAction` (`actions.go:88-148`) | `Edit` (`Action.Get`) · `GetOwner` (`Finding.Get`, the edit of the copy, both early returns) · `UpdateAction` (`Action.Update`) · `ListActions` · `SaveFinding` |
| `SetFindingStatus` (`findings.go:95-130`) | `SetStatus` (`Finding.Get`) · `SaveFinding` |
| an error of any call, or the end of the process | `Fail` |

`Analyse` puts the reads before `FindByRole` and the work after it in one step:
they touch nothing that another handler writes.  A new finding and a new action
get ids that nothing refers to, as `uuid.NewString` does.  HTTP batches need no
state of their own: a batch is a handler that analyses one event after another.

**AtomicFindings** makes each handler one step.  The refinement
(`Atomic` in `EventPipeline`) places an event or an edit at the write of its
action, and a status change at the write of its finding: a finding that a
handler has still to recalculate or save reads as already saved.  It holds one
handler at a time; what breaks when handlers overlap is in
[What the code gets wrong](#what-the-code-gets-wrong).

**SQSServer.**  `queue` is Amazon's side: a message that was received is
hidden, and visible again after its visibility timeout.  The poller receives,
sets the loop variable, and sends its address to a worker over the unbuffered
channel (`Dispatch` is the rendezvous).  A worker reads the variable to run the
handler, and again for the receipt of the delete.  `loopVar` holds the variable
of each execution of the loop, since the Go version of this repository has one
variable a loop, not one an iteration.  `HandlerFails` can fail any message and
always fails those of `Poison`.  `HandlerPanics` is the write to a nil map that
an event without parameters leads to (`json_recommendations.go:45`): nothing
recovers, so the process ends with all its goroutines, and the message of
`Panicking` is delivered again to the next one.  `Restart` ends the process
anywhere and starts another.  Losing the context makes deletes fail (`DeleteFails`), and may lose
the response of a poll (second case of `ReceiveMessage`).

**TerraformApplier.**  A *tree* is what the files of a project say: inline
policies by role, roles by policy attachment, arguments by module block, and how
often each output and variable is declared.  `cache` is the tree of
`FileHandler.HclFiles`, `disk` the one in the files, and `Copy` takes one file's
part from the first to the second.  `project.home` says in which file each block
is; it differs from state to state but never changes, so a run covers many
layouts.  A finding recommends access to ARNs, each a resource and the object
that follows its first slash: `Bare` for none, `Star` for `*`, or a file.
Policies refer to a resource by an expression (an ARN, an address, an output of a
module, a variable), with an object joined to it or lost (`JoinedObject`).
`Resolve` says what Terraform makes of an expression, and `Granted` of a role's
policies.  The properties compare that with what the finding meant, so they
follow a reference through the files of a plan instead of repeating how it is
built.

| code | definitions |
|---|---|
| `Exec` (`apply.go:117-178`) | `StartSession` (list the active findings, `Init`) · `PlanFinding` (`CalculateFinding`, `Plan`, the diff) · `Reject`, `Accept` (the prompt) · `Finish`, `PlanNothing`, `Fail` (the ways it ends) |
| `PlanTerraformFinding` (`terraform.go:517-544`) | `PlanFinding`: `Detach`, then `ApplyFindingToBlock`; `PlanNothing` |
| `ApplyFindingToBlock` (`:545-692`) | `StatementOf` (the last resource of a statement), `Statements`, and one `PlumbStatement` for each with its `PolicyOf`; the four branches on the places of role and resource are the four cases of `Exported` and `Imported` |
| `AppendOutputBlockIfNotExist` (`:428`), `AppendVariableBlockIfNotExist` (`:396`) | the operators of the same names: an output is looked up by its value, a variable by its label, which is made from the address alone |
| `FindAndRemovePolicyAttachmentsForRole`, `RemovePolicyAttachmentRole` | `FindPolicyAttachments`, `Detach`, `TakenFor`; `DetachPanics` (the nil block at `:494`) |
| `PendingChanges`, `Apply` | `Accept`, `WriteFile` |
| Terraform, outside the repository | `TerraformApply`, `Resolve` |

`PlanFinding` takes the recommendations from the store as they are at that
moment, so a finding may be planned with other ones in a later session.
Attachments are found in the state file but edited in the files;
`TerraformApply`, the user's step, brings the state file up to date or does not
come.  The applier keeps the state file's resources in a map by ARN, so only the
attachments in `project.shown` are found: those of type
`aws_iam_policy_attachment` that no other resource with their policy's ARN
overwrites.  `Detach` edits one of those found, whichever the iteration ended
with, since all the pointers collected are to one loop variable.  A resource
outside the state file is looked up by the empty address, which is that of the
first block without labels in `main.tf`, such as `terraform` or `locals`; its
`home` is then `Unlabelled`, or `None` in a project without such a block.

**CloudTrailScan** composes scans with `EventPipeline`, a storage call a step.
The goroutine of a scan is one of the handlers, `Scanner`; all the others, and
`Scanner` while no scan runs, are handlers of a local server's collector and
console, which overlap, fail and are cut off as in `EventPipeline`.  The two
processes never work at once, because `OpenBoltDB` takes the lock of the file;
`lock` is who has it.  What either leaves in the file when it ends in the middle
of a handler is what the other finds.  A row of the log is a time, a call, the
identity that made it and what `TryConvertToEvent` makes of the row; the hash
that the aggregator keeps an event by leaves the time out.

| code | actions |
|---|---|
| `ScanCommand.Exec` (`scan.go`) | `StartScan` · `CannotOpen` (the store is locked) · `ScanSucceeds` · `ScanStops` (an error or the end of the process, between any two calls) |
| `GetActionsForRole` (`cloudtrail.go`) | `GetQueryResults`: the first page in any order, deduplicated; the first row that cannot be converted ends the scan, a NULL field by a panic |
| the loop over the events | `AnalyseEvent(e)`, in any order, as the aggregator returns a map's values: `Analyse` of `EventPipeline` · `ContinueAnalysis`: `AddAction`, `ListActions`, `SaveFinding` |
| `iamzero local` on the same file | `StartLocal` · `Local` (any step of any handler) · `StopLocal` (which cuts off all of them) |

**Auditor.**  What AWS answers is one constant `world`, so that a property can
compare what was loaded with it.  `Start` is the main goroutine, one call to AWS
a step; `fetching` holds the goroutines of the `errgroup`, each at its next
call.  `fetchPolicyDetails` stores a policy, `FetchAttached` and `FetchInline`
are the two halves of `FetchDetailsForRole`, `FetchFails` is any of their
errors, and `WaitForPolicies` and `WaitForRoles` are `g.Wait()`.  Then come the
CDK stacks (`ListStacks`, `ListStackResources`, `GetTemplate`), the fixture and
`BuildLinks`.  Two things panic and end the start: a resource without a physical
id yet (`cloudformation.go:80`, the stacks `world.unnamed`) and a path without a
slash (`:135`, the ids `world.bare`).  `Init` lets `Start` begin with each phase, since the call of
`LoadResources` is commented out in `collector.go` and `-cdk` is a flag.

**LocalServer** has the invocations of the command (`CreateLocalToken` ·
`LoadConfig` · `SaveConfig` · `Serve` · `Exit`, `Stop`), the console's requests
for tokens, and clients.  The token store is Go's slice: `arrays` are the arrays
that `append` allocated, `slice` is the header `s.tokens`, of which only the
array and the length matter, two words.  Nothing orders the writes of an
unlocked `append`: `Create` finds room, `WriteHeader` writes one word,
`WriteElement` the element, in any order, and `CreateEnds` answers.  `Delete`
finds the token, `Shift` moves one element and `DeleteEnds` writes the length.
Nor does anything order the reads: `Send` loads one word of the header, `Load`
the other as it is by then, and `Get` is one turn of the loop; what a torn header
lets it read behind an array is taken to be no token.  `fate` is what the answer
has to be, fixed by the requests that overlap: a token that is stored is "valid"
unless some Delete overlaps, a token that is not is "unknown" unless its own
Create or Delete overlaps or, once deleted, any Create, whose element may be
written after the length.

## What the runs show

| run | instance | properties |
|---|---|---|
| `overlap` | two handlers of any kind, two findings, two actions, two roles, failures anywhere | `TypeOK`, `NoNilAdvisory`, `DocumentGrounded`, `CountReached`, `OwnerHasTheRole`, `OriginKept` |
| `owner` | two handlers, events and edits, no failures, fairness | `OwnedOrPending`, `EveryActionGetsItsFinding` |
| `serial` | one handler, three actions, two templates | `UpToDate`, `ImplementsAtomic` |
| `scan` | two scans of a log of five or seven rows, and a local server with two handlers, events and status changes, failing or cut off anywhere; two findings, three actions, two roles | `ScanTypeOK`, `RecordsEachCallOnce`, `AllOrNothingIsRead`, `OneFindingForAScan`, `UpToDateBetweenEvents`, `OnlyTheFirstIsOrphaned`, `OpensOnlyWhatIsMissing` |
| `two_active` | two handlers, events only | refutes `OneActiveFinding` |
| `stale` | two handlers, events and edits, one finding | refutes `UpToDate` |
| `sqs` | two messages, one poison that may panic, two workers, a shutdown, a restart, fairness | `TypeOK`, `NoEventLost`, `DeletesWhatItHandled`, `EventuallyHandled`, `PollerStops` |
| `tf` | two roles, two resources, two modules and two attachments in the layouts of `PlumbingAndAttaching`; findings of one action with a file of a bucket, or of two actions with a statement of two resources; a failure at any point | `TypeOK`, `PlannedRolesReachTheirResources`, `PlannedRolesLoseAnAttachment`, `DeclaredOnce`, `PlansOnlyChanges`, `UnplannedRolesKept` |
| `tf_rejected` | everything in `main.tf`, one attachment | refutes `RejectedRolesKept` |
| `tf_attached` | everything in `main.tf`, two attachments | refutes `PlannedRolesAreDetached` |
| `auditor` | two accounts, two roles, two policies, three stacks, in 3 504 worlds, fairness | `TypeOK`, `NobodyAddsWhileReading`, `RolesHaveTheirPolicies`, `LinksAreTheTrustRelation`, `LookupsFindTheStack`, `StartEnds` |
| `local` | two overlapping invocations, a client, a request of the console at a time, five tokens | `TypeOK`, `UnknownIsRejected`, `ValidIsAccepted`, `KeepsItsTokens`, `ConfigNamesTheServer` |

What survives any overlap and any failure: every stored policy grants only what
some recorded action of *that* finding was advised (`DocumentGrounded`), so
races make a policy old but never give one role another role's permissions; an
action and its finding are of one role (`OwnerHasTheRole`); counts are late, not
wrong (`CountReached`); `RecalculateDocument` never meets the nil advisory it
does not check for (`NoNilAdvisory`); and no handler's write-back loses a record
or moves an action to another finding, role or advice (`OriginKept`).  Without
failures every action's finding is stored in the end, although the action is
stored first.  One handler at a time and without failures, the pipeline is the
abstract store, whose documents are those of their actions.

A scan records each call of its role once, whatever the log repeats, under one
finding; it reads the whole page before it records anything, so a row it cannot
read leaves the store as it was.  It may start on a file that overlapping or
interrupted handlers have left with old documents, orphaned actions and two
active findings of its role, and may itself end between any two storage calls.
Even so, after each of its events the finding is what `RecalculateDocument`
computes, whatever was wrong before (`UpToDateBetweenEvents`); only the first
event of a scan may be left without a finding, and only by a scan that did not
succeed (`OnlyTheFirstIsOrphaned`); and a scan opens a finding only for a role
that has no active one (`OpensOnlyWhatIsMissing`).  These rest on the lock of the
file: with the console of a local server beside it, a finding could be resolved
in the middle of a scan, as the mutant of `OneFindingForAScan` shows.

A collector that serves after loading has the documents of all policies of
every role it loaded, one link for each pair that AWS would let assume each
other, and the stack of every CDK resource, whichever calls failed before.  The
unlocked reads of `List` and `GetByPhysicalID` are safe because `Start` waits
for both groups, also after an error.

A request with a stored token is accepted unless a delete of some token overlaps
it, wherever its loop is when the array under it changes: `Create` never hides a
token, although it may move the slice to another array and a request may read one
word of the header before and one after.  A request with a token that was never
stored is rejected, and so is one with a deleted token unless a `Create` overlaps
it.  The server that wrote the configuration file last knows the token in it.

The SQS server loses no event through redelivery, failed deletes, shutdown or
restart.  This rests on one message a poll: `DeletesWhatItHandled` fails with
two, as its mutant shows, because the workers would then share a loop variable
that the poller overwrites.

The Terraform applier, with the preconditions listed under [Bounds](#bounds):
after every accepted plan the policies of each role planned in the session reach
resources of its finding, one for every statement, and no others, by references
that Terraform resolves, whatever other roles, rejected plans and earlier
sessions left in the shared outputs, variables and module arguments.  The object
of an ARN is kept where role and resource are in one file, unless it is `*`, or
the resource has no block; elsewhere it is lost, and the policy names the
resource alone, as the property says.  With the same write the role has lost one
of the attachments that the state file shows, if all of them name it so that it
is recognised, also when the state file is older than the files; not all of them,
as `tf_attached` shows.  Nothing is declared twice, planning an applied
finding again changes nothing, and a role that no finding is about keeps what it
has.  A failure between two files of a plan leaves broken references, but the
next session that plans the role repairs them, since arguments are set whether or
not the variable is new.

Deadlock is checked in the pipeline and Terraform runs.  It is not in `sqs`,
where a server that was shut down is not started again, in `scan` and `local`,
where records and tokens run out and processes may end, and in `auditor`, where
a server that serves, or has stopped, has nothing left to load.  Each property
of a passing run has a mutant in `PROJECT.json`, a plausible bug in the code (a
dropped guard, a skipped recalculation, a deleted failed message) that the run
finds.

## Bounds

Every bound is a constant of a module; nothing else limits a model.

- `FindingIds` and `ActionIds` bound the records of a run: an event that needs a
  new id when none is left does not come.  Two findings are needed for a race
  over the active one and for a resolved one beside it; two actions for two
  events of one finding, or an event and an edit of another; three in
  `serial` and `scan`.
- `Requests` is how many handlers run at a time.  Every hazard of the list is a
  race of two.  The theorems have no bound on it.
- `MaxAdvice` is the most templates of an operation: 0 and 1 are the cases the
  code tells apart; 2 lets an edit change the selection (`serial`).
- `Roles`: two where a mixed-up role could show, one where it could not.
- `Messages`, `Workers`, `MaxRestarts`: two messages, one poison, and two workers
  let a redelivered message meet itself and leave the poller blocked beside a
  poison one; one restart comes anywhere.  The safety theorems have no bound on
  any of them.
- `MaxScans`, `Logs`, `PageRows` of `CloudTrailScan`: two scans are one after
  another, of the same role or not, with a local server between; the rows hold
  a repeated call, a call of the role itself and of a session, another role's,
  one without a mapping, and in half of the logs two that cannot be read.  A
  page of six holds all rows of a readable log.  A scan starts only while
  `IdsLeft` for every event it may record.  `Requests` are two, of which one is
  the `Scanner`; `Kinds` are events and status changes, enough for every state
  of the file that a scan tells apart.
- `Worlds` of `Auditor` is `SmallWorlds`: the two roles in one account or in
  two, every attachment of two policies, trust in one direction, in both or for
  another action, and two stacks in one account beside one in the other, each
  CDK or not, with a resource that has no physical id yet or none, and paths with
  and without a slash.  Its preconditions: the managed policies of a role are on
  the first page of its account, there is no `Deny`, no account has two audit
  roles, and no two stacks share a physical id.
- `Invocations`, `Clients`, `Users`, `Tokens` of `LocalServer`: two invocations
  race for the file and the lock; one client reads beside one request of the
  console; five tokens let the array grow from one element to two and to four.
- `Roles`, `Resources`, `Modules`, `Attachments` of `TerraformApplier`: two roles
  share a file, a variable, an output or an attachment; two modules and
  `main.tf` give every case of the plumbing, and two roles in different ones;
  two resources tell a reference to the wrong one; of two attachments one is
  kept.  Sessions are not bounded.
- `Projects` of `tf` is `PlumbingAndAttaching`.  In the layouts of `Plumbing` one
  role is in a module and the other in the same one, in another or in `main.tf`;
  the resources are in `main.tf`, in either module, in no file, or taken for a
  block without labels; one layout has an output of the user's, one gives both
  resources one address.  In those of `Attaching` an attachment is shown by the
  state file or hidden, names its roles by string or by address, shares a role
  with the other or not, and has a block or none; a role may be in no file.
  `tf_rejected` and `tf_attached` use `OneFile`.  The preconditions: modules are
  called from `main.tf` (`ModulesInRoot`), roles' addresses do not contain each
  other (`OwnNames`), and a role has one finding (`StartSession` takes a set of
  roles).  `PlannedRolesReachTheirResources` speaks of projects in which no two
  resources have one address (`AddressesApart`); the other properties do not ask
  for it.
- `Advised` is `Advice`: an action with a statement about a file of the bucket, or
  two actions, the first with two statements, one about all objects and one
  about two resources.  Where the code breaks a property outside these bounds,
  [What the code gets wrong](#what-the-code-gets-wrong) says so.
- `Loops` (derived) bounds the loop variables in use: one for each worker and
  one for the poller.

Symmetry is used only in runs without liveness properties, over handlers,
actions, roles, invocations, new tokens and clients; never over finding ids,
which are ordered.

## Fairness

`EventPipeline!FairSpec` asks of each handler that has begun that its next step
happens in the end: a goroutine is scheduled and a storage call returns.  No
event and no edit has to come, and `Fail` has no fairness; `owner` sets
`CanFail` to FALSE since a handler that fails after `Action.Add` does leave an
action without a finding.

`SQSServer!FairSpec` asks for weak fairness of the poller and each worker
(goroutines are scheduled, handlers and calls return) and of the visibility
timeout, and strong fairness of two things that may be disabled again and again:
SQS does not withhold one visible message for ever while it answers polls, and
the handler does not fail for ever on a message it can accept.  The first is
what SQS promises, the second is the premise of retrying.  Nothing is assumed of
sends, shutdowns, restarts or deletes.

`Auditor!Spec` asks for weak fairness of the goroutines together and of `Start`:
calls to AWS return, with an answer or an error, and goroutines are scheduled.
`StartEnds` then says that no `Wait` is for ever.

## What is proved

Every safety invariant and every action property that a passing run checks, and
the implementation of the abstract specification, are theorems: the run shows
them on an instance, the theorem for every value of the constants.  A theorem
with a hypothesis says so; each is a condition on the constants, most of them
the precondition under which the runs check the property too, and
[What the code gets wrong](#what-the-code-gets-wrong) says what happens without
it.

| module | theorem | statement | hypotheses |
|---|---|---|---|
| `EventPipelineProofs` | `TypeCorrect` | `Spec => []TypeOK` | |
| | `NoNilAdvisoryStored` | `Spec => []NoNilAdvisory` | |
| | `PoliciesGrounded` | `Spec => []DocumentGrounded` | |
| | `OwnersAgree` | `Spec => []OwnerHasTheRole` | |
| | `OriginsKept` | `Spec => OriginKept` | |
| | `CountsAreReached` | `Spec => []CountReached` | |
| | `ActionsAreOwned` | `Spec => []OwnedOrPending` | `~CanFail` |
| `EventPipelineRefinement` | `PipelineImplementsAtomic` | `Spec => ImplementsAtomic` | `OneHandler`, `~CanFail` |
| | `FindingsUpToDate` | `Spec => []UpToDate` | `OneHandler`, `~CanFail` |
| `CloudTrailScanProofs` | `ScanTypeCorrect` | `ScanSpec => []ScanTypeOK` | |
| | `StoreIsKept` | `ScanSpec => [](NoNilAdvisory /\ DocumentGrounded /\ OwnerHasTheRole)` | |
| | `ScanHasOneFinding` | `ScanSpec => []OneFindingForAScan` | |
| | `OrphansAreFirst` | `ScanSpec => []OnlyTheFirstIsOrphaned` | |
| | `ScanBringsUpToDate` | `ScanSpec => []UpToDateBetweenEvents` | |
| | `ScanOpensWhatIsMissing` | `ScanSpec => OpensOnlyWhatIsMissing` | |
| | `CallsRecordedOnce` | `ScanSpec => []RecordsEachCallOnce` | `FirstPageIsAll` |
| | `NothingOrAllIsRead` | `ScanSpec => []AllOrNothingIsRead` | `FirstPageIsAll` |
| `SQSServerProofs` | `TypeCorrect` | `Spec => []TypeOK` | |
| | `EventsAreKept` | `Spec => []NoEventLost` | |
| | `PointersAreStable` | `Spec => []DeletesWhatItHandled` | |
| `AuditorProofs` | `AuditTyped` | `Spec => []TypeOK` | |
| | `ReadersWait` | `Spec => []NobodyAddsWhileReading` | |
| | `RolesComplete` | `Spec => []RolesHaveTheirPolicies` | `PoliciesListed` |
| | `LinksComplete` | `Spec => []LinksAreTheTrustRelation` | `PoliciesListed`, `RolesApart`, `NoDeny` |
| | `StacksAreFound` | `Spec => []LookupsFindTheStack` | `IdsApart` |
| `LocalServerProofs` | `StoreTyped` | `Spec => []TypeOK` | `OneAtATime` |
| | `DeletedIsRejected` | `Spec => []UnknownIsRejected` | `OneAtATime` |
| | `CreateHidesNothing` | `Spec => []ValidIsAccepted` | `OneAtATime` |
| | `StoreIsExact` | `Spec => []KeepsItsTokens` | `OneAtATime` |
| | `FileNamesTheServer` | `Spec => []ConfigNamesTheServer` | `OneAtATime`, `None \notin Files` |
| `TerraformApplierProofs` | `TypeCorrect` | `Spec => []TypeOK` | |
| | `NothingTwice` | `Spec => []DeclaredOnce` | |
| | `UnplannedKept` | `Spec => UnplannedRolesKept` | `NamesApart` |
| | `PlannedLoseOne` | `Spec => []PlannedRolesLoseAnAttachment` | |
| | `PlannedReach` | `Spec => []PlannedRolesReachTheirResources` | `Flat` |
| | `AppliedIsKept` | `Spec => PlansOnlyChanges` | `Flat`, `NamesApart`, `AllApart` |

Each argument is an inductive invariant; what it has to say beyond the property
is the reason the code works.

**Handlers that overlap** (`EventPipelineProofs`), with or without failures.
Assumptions: finding ids are numbers and actions finitely many
(`IdsAssumption`), `MaxAdvice` is a number (`AdviceAssumption`), the handler
kinds are those of the code (`KindsAssumption`), and `None` is not a record, a
switch or a number that a field may hold (`NoneAssumption`).

The stored tables alone are not inductive, because a step writes a handler's
*copy*, read earlier.  So `IInv` says of every copy what must be true when it is
written, whatever happened since it was read:

- `AddsOK`: an action about to be added has an id that no other record or
  handler has, and is of its handler's finding and role;
- `EditsOK`: an action about to be written back is a version of the stored one,
  with the same finding, role and advice (`SameOrigin`), and its selection is
  one of its recommendations (`WellSelected`);
- `RolesAgree`: everything that refers to one finding id, stored or in a copy,
  agrees on its role;
- `CopiesGrounded`: a copied document is grounded.  This is stable because no
  step removes an action or changes its origin, which is why `OriginsKept`
  comes out of the same induction;
- `TablesOK`, `TypeOK`, `OwnerHasTheRole`, `DocumentGrounded` of the tables.

`HandlerStep` proves the invariant once for the steps that change only a
handler's state, and `ActionWrite` once for the two that write an action; each
action then has a lemma of its own.  `FindingsProofs` has the facts about the
pure operators: `FindByRole` returns a stored match (from well-foundedness of
the numbers), an edit keeps an action's origin, `RecalculateDocument` on
well-selected actions returns a finding whose grants come from them.

`CountsAreReached` adds `CountInv`, the same bound for the copies: a count is
the cardinality of the actions listed once, and the actions of a finding only
grow (`ListForPolicyGrows`), so a late write has a count that was reached.

**One handler at a time** (`EventPipelineRefinement`).  The refinement reads a
finding whose action is written, and whose handler has still to recalculate or
save it, as saved already.  So the write of the action has to be the whole
abstract step, and `ListActions` and `SaveFinding` none.  `SerialInv` says why
they are: what the handler holds is what is stored (`AddIsFresh`, `EditIsFresh`,
`SaveIsFresh`), and every stored finding is the one `RecalculateDocument` would
make or is about to be replaced (`CurrentOrPending`).  Both hypotheses are
needed: `stale` shows the property broken by two handlers, and a handler that
fails after its action never saves the finding.

**Scans over the store** (`CloudTrailScanProofs`).  A step of a scan or of a local
server is a step of `EventPipeline`, or the end of some handlers, or leaves the
store alone.  So `IInv`, the invariant of the handlers, goes over to `ScanSpec`
(`ScanStep`), and with it what it implies of the store (`StoreIsKept`), in a
setting where processes are cut off between any two calls.

`ScanInv` adds what the lock of the file gives a scan, since no other handler
moves while it analyses.  `AtRest`, between events: all it recorded is under the
role's active finding, which is what `RecalculateDocument` computes.  `AtWork`,
inside `AnalyseEvent`: the copy it holds is of that finding, or of a new one if
there is none.  `RecordedOK`: each event recorded once, in one finding, and an
orphan only as the first.  Nothing is assumed of what the file had before: the
lookup of the next event returns the finding of the last one because that is the
least active one, and nobody opens another.  `PageInv` adds that what is
recorded, what is `Taken` and what is pending are together all the calls
selected; it holds when a page has room for every log (`FirstPageIsAll`), since
nobody asks for a second page.

**The SQS transport** (`SQSServerProofs`), for any number of messages, workers
(finitely many, `WorkersAssumption`) and restarts.  A worker reads its message
through a pointer, so `NoEventLost` needs that the variable does not change
under it.  `PollerFits` is why: a response has one message, so when the poller
sets the variable of a loop no worker has its address, and after the send
nothing is left to set.  `FreeLoopExists` is the pigeonhole argument that one
loop variable more than workers is enough.

**The Auditor** (`AuditorProofs`), for any world, any number of accounts, roles,
policies and stacks, and any failures.  Four invariants, one on the other:

- `IInv`, for the goroutines.  `PoliciesFetched` says that each listed policy is
  stored, or being fetched, or its fetch failed, and that the roles are read
  only when none failed; `FetchesComplete` carries that to what a goroutine has
  read so far.  `PoliciesListed`, needed for `RolesComplete`, says that the
  first page of policies is enough.
- `Positions`: where the loop over the accounts is, and that the stacks still to
  do are the last ones of the account at hand.
- `StackInv`: every CDK stack passed has all its resources loaded, and every
  loaded resource is one of a stack.  `IdsApart` says that a physical id is
  used by one stack, since a lookup returns the first that has it.
- `LinkInv`: the roles loaded are those of the accounts passed, each once, or
  none when loading was not asked for; `BuildLinks` compares pairs of them.
  `RolesApart` says that no two entries of the audit list have a role in common
  (an account audited twice has all of them), and `NoDeny` that no statement,
  of a role's policies or of its trust policy, has the effect Deny, which
  `CanAssume` ignores.

**The local command** (`LocalServerProofs`), for any number of invocations,
clients and tokens.  `Rows` says of each array what it has at each place, past its
end too, where it has no token.  `StoreInv` says what the arrays hold between the
parts of a `Create` (`Appending`: which words and whether the element are
written) or a `Delete` (`Shifting`: every token but one while the elements move).
`ClientInv` says what the loop of a `Get` has still to find: `FindsValid`, that
a valid token is ahead of it in whatever pair of array and length it has loaded,
or will load; `MissesUnknown`, that an unknown one is nowhere in them.
`CommandInv` ties the lock, the file and the command's own token together, and
`FileInv` the file to the invocation that wrote it last.  `OneAtATime` says that
the console makes no request for tokens before the last is answered: `s.tokens`
has no lock, and two overlapping requests write it from one old value.  Requests
of clients overlap it and each other.  `FileNamesTheServer` asks for a
configuration file to begin with, since the first run writes the console's URL.

**The Terraform applier** (`TerraformApplierProofs`), for any number of roles,
resources, objects, modules, attachments, sessions and failures between files,
and findings of any number of actions and statements.  Assumptions: module blocks
and other blocks are in places of the project, and resources in one file have
different addresses (`ProjectsAssumption`); a recommendation is a sequence of
statements with at least one ARN each (`AdvisedAssumption`); the special values
are none of the others (`ConstantsAssumption`, `NoneAssumption`).

- `ApplyFindingToBlock` loops over the statements of a finding, in the model a
  fold.  `ApplyTrace` unfolds it: there is a sequence of trees, each from the one
  before by `PlumbStatement`, with the result at its end.  What one statement
  keeps, the loop then keeps by `UpTo`, induction up to a number for a given set
  of numbers, which well-foundedness gives.  `FlattenTrace` does the same for
  the concatenation of the recommendations.
- `IInv` is `TypeOK`, where a session is (`Session`), what is written already
  (`Written`), and that neither the cached nor the written files declare
  anything twice: a write takes a file from the cache, and a new session the
  cache from the files, so neither is enough alone.
- `Unplanned`: on roles without a plan the cache and the files agree.
  `NamesApart`, that no role's address contains another's, is needed because
  the code matches substrings.
- `PlannedOff`: each planned role for which the state file shows attachments that
  name it is off one of them in the cached files (`OffOne`), and stays off since
  attachments only lose roles.  It needs no hypothesis on the project.
- `PoliciesMade`: in the cached files each role planned so far has the policies
  of its finding (`PoliciesIn`), and all that their references go through is
  there (`Plumbed`): the output, the variable, the argument.  Another role's plan
  may set the same argument, and then sets the same value, since an address is
  that of one resource: `AddressesApart`, which is in the property itself.
  `Flat` says that every module is called from `main.tf`.  `Reached` is what a
  reference resolves to, nothing for a resource taken for a block without labels.
- `Known`: every policy and argument is the user's or one that a plan makes.
  Then a reference that resolves to the resource is the one a plan would write,
  and planning it again changes nothing; `AllApart` says of all projects what
  `AddressesApart` says of one.

Left to TLC: liveness, which is out of the prover's reach
(`EveryActionGetsItsFinding`, `EventuallyHandled`, `PollerStops`, `StartEnds`),
and the four runs that refute a property.

## What the code gets wrong

- **Two active findings** (`two_active`).  `detective.go:82` says "create a new
  policy for the token and role if it doesn't exist".  Two events of a role
  analysed at the same time each find no active finding at line 67 and each
  save one: the role has two active findings, each with a part of its actions.
  Later events go to one of them only.
- **Stale documents** (`stale`).  `finding.go:40` says "RecalculateDocument
  rebuilds the policy document based on the actions".  A handler that listed
  the actions early and saves late overwrites the document of one that listed
  later; with all handlers finished, the stored document is not the one of the
  stored actions, and stays so until the next event or edit of the finding.
- **Rejected plans are written** (`tf_rejected`).  A plan edits the cached files
  and every accepted plan writes all of them, so what was rejected at "[IAM
  ZERO] Accept the change? [y/n]: " (`apply.go:87`) is on disk after the next
  yes.
- **Kept attachments** (`tf_attached`).  The comment at `terraform.go:527` says
  "Remove any managed policy attachments for this role"; line 758 collects
  pointers to a loop variable, so of several attachments of a role one is edited
  and the broad access of the others stays.

The passing runs model, or state as preconditions, what else the code does not
get right.

Terraform.  Modelled, with properties that say what holds all the same:

- *Hidden attachments*: the state file's resources are kept by ARN
  (`terraform.go:170`), so an attachment whose policy is in the project too, or
  is attached a second time, may be overwritten by the other entry and is not
  found; `aws_iam_role_policy_attachment` is never considered.
- *Attachments without a block*: one of a file that is not parsed is
  dereferenced (`:494`) and the command panics (`DetachPanics`).
- *Lost objects*: an ARN's object is joined to the reference only in the branch
  for one file (`:583`); references through outputs and variables name the
  resource alone.
- *Resources taken for a block*: one outside the state file has the empty address,
  that of the `terraform` or `locals` block of `main.tf`, and gets the reference
  `.arn` where line 674 says "using ARN reference directly".
- *Statements of several resources*: line 327 keeps pointers to the loop
  variable, so "Allow read and write operations on the table"
  (`recommendations.go:69`) gives access to the last resource of each statement.
- *Colliding policy names*: line 677 numbers policies within a recommendation, so
  two policies of a role may have one name, and AWS keeps one of them.  The
  property speaks of the policies in the files.
- *Equal addresses*: a variable is named by the address alone (`:617`), so two
  resources with one address in two files share it, and the argument is that of
  the one planned last.  `tf` has such a layout;
  `PlannedRolesReachTheirResources` leaves it out.

Preconditions:

- *Nested modules* (`ModulesInRoot`): the branch that line 668 describes as "not
  yet supported. Using ARN directly" is never reached; the plumbing goes to the
  wrong file instead.
- *Similar names* (`OwnNames`): line 705 matches the target's address as a
  substring and detaches other roles too, where line 487 says "updated with the
  target role removed".

For the other components, give the named constant of the run's configuration the
value shown, take its `SYMMETRY` out, and TLC finds the property violated.

Auditor (`MCAuditor.cfg`):

- **Later pages** (`Worlds <- PagedWorlds`, `RolesHaveTheirPolicies`).  Nobody
  asks for the next page of policies, roles, stacks or resources, and a role
  with a policy of a later page is loaded without it and without an error.
- **Deny statements** (`Worlds <- DenyWorlds`, `LinksAreTheTrustRelation`).
  `role.go:32` documents it: the test "doesn't consider Deny statements".
- **An account audited twice** (`Worlds <- RepeatedWorlds`,
  `LinksAreTheTrustRelation`).  Its roles are stored twice and each link is found
  four times.
- **Shared physical ids** (`Worlds <- SharedIdWorlds`, `LookupsFindTheStack`).
  `GetByPhysicalID` ignores the account and returns the first.
- A resource that CloudFormation has not created yet has no physical id, and
  `cloudformation.go:80` dereferences it: the start panics (`panicked`).
- `parseIDFromCDKPath` (`cloudformation.go:128`) "Returns an empty string if
  parsing fails", but panics on a path without a slash, since `strings.Split`
  never returns less than one element.  The model has this panic too.

Scan (`MCScan.cfg`):

- **Later pages** (`PageRows = 2`, `RecordsEachCallOnce` and
  `AllOrNothingIsRead`).  Only the first page of the results is read, and the
  scan succeeds.
- Nothing in the store relates the events of two scans, so scanning a role again
  records its calls again; `RecordsEachCallOnce` speaks of one scan.
- `cloudtrail.go:77` selects with `LIKE`, where an underscore of a role's name
  matches any character; the model takes names apart.

Local command (`MCLocal.cfg`):

- **The first run** (`Files <- AnyFile`, `ConfigNamesTheServer`).  A new
  configuration file gets the console's URL (`local.go:151`), an existing one the
  collector's.
- **A second invocation** (`ConfigNamesTheServer` without `file.by = p`).  It
  leaves its token in the file and then cannot open the store.
- **Overlapping requests for tokens** (`Users <- TwoUsers`, `TypeOK`).  Two writes
  of the unlocked slice leave a header whose length is not that of its array; a
  created token is lost, or a deleted one comes back.
- **Deleted tokens** (`FateOf`).  While another token is created, a request with a
  deleted one may still be accepted: the slice has its new length before the new
  element takes the place of the old one.
- `serverErrors` (`local.go:210`) is never written, so a port that is taken
  leaves the command waiting for a signal.

SQS (`MCSQS.cfg`):

- An event without parameters panics in the handler
  (`json_recommendations.go:45`).  No worker recovers, so one such message ends
  the collector each time it is delivered; `sqs` has it in `HandlerPanics`, with
  one restart.

## What is not modelled

- The wording of policies, resources, accounts, times and event hashes: no
  property looks into them.
- The HTTP layer, tracing and logging.  `findings.go:126` answers an error and
  then goes on to answer the finding; that is about the response.
- Postgres storage.  No program wires it, and it cannot do what the Detective
  asks: the action is inserted before the finding its foreign key refers to, so
  the first event of a role fails.  There is no behaviour beyond that to model.
- In-memory storage, apart from the token store.  Its writes lock and its reads
  do not; one call at a time it is the store of `Findings`, and a read beside a
  write is a data race on a record of several words.
- DynamoDB and Postgres tokens: each operation is one call of a database.
- The CDK applier: calculating a finding, the part that would change something,
  is commented out.
- Health check: one atomic value, set once by each program.
- Parsing and formatting HCL, loading the state file from disk or S3, the actions
  of statements, and what a user edits between the start of a session and the
  prompt.
- ARN parsing and the lookup of CDK resources, which only make `AnalyseEvent`
  fail before its first write.
- `SetStatus` of an action in the stores, which nothing calls.
- The rest of the repository, in the plan below or, where it is pure I/O,
  decoding or user interface, left out (see `PROJECT.json`).

## Plan

Done, in this order: the pipeline and its abstract store; the SQS transport; the
Terraform applier; scans; the Auditor; the local command with its tokens; the
safety properties of all of them as theorems.  What is left:

1. Proofs under weaker hypotheses: `UpToDate` and the refinement for handlers of
   different findings that overlap; `UnknownIsRejected` and `ValidIsAccepted`
   with several console requests that only create; `PlansOnlyChanges` for
   projects with equal addresses in different places.
2. `TerraformApplier`: two findings of a role.
3. The CDK applier and Postgres storage, when the code does something with them.
