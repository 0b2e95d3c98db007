--------------------------- MODULE CloudTrailScan ---------------------------
(***************************************************************************)
(* "iamzero scan" over the store of EventPipeline: it queries CloudTrail   *)
(* through Athena for the calls of one role, deduplicates them and gives   *)
(* them to its Detective one after another.  AnalyseEvent is the one of    *)
(* EventPipeline, a storage call a step, and the process may end between   *)
(* any two of them.  "iamzero local" serves the same Bolt file; the        *)
(* handlers of its collector and console overlap, fail and are cut off as  *)
(* in EventPipeline, but only while no scan runs: each of the two commands *)
(* holds the lock of the file as long as it runs.                          *)
(*                                                                         *)
(* A row of the log is the time of a call, the call (operation and         *)
(* bucket), the ARN that made it (a role's or one of its sessions') and    *)
(* what TryConvertToEvent makes of it.                                     *)
(***************************************************************************)
EXTENDS EventPipeline

CONSTANTS
  Scanner,   \* the goroutine of a scan, in the place of a handler that has none to run
  Calls, Identities, Times,
  IssuedBy,  \* the role of an identity
  AdviceFor, \* how many templates the operation of a call has
  Logs,      \* the CloudTrail logs of a run
  PageRows,  \* most rows that GetQueryResults answers
  MaxScans   \* scans in a run

(* An event, an operation without a mapping, parameters that are not a map *)
(* of strings, or a field that is NULL.                                    *)
RowKinds == {"event", "unmapped", "malformed", "null"}

Row == [time : Times, call : Calls, identity : Identities, kind : RowKinds]

(* An event is known by its hash. *)
Event == Calls \X Identities

ASSUME ScanAssumption ==
  /\ Scanner \in Requests
  /\ IssuedBy \in [Identities -> Roles] /\ AdviceFor \in [Calls -> AdviceCounts]
  /\ Logs \subseteq SUBSET Row
  /\ PageRows \in Nat /\ MaxScans \in Nat
  /\ None \notin Event

VARIABLES
  log,      \* what CloudTrail has, which no step changes
  lock,     \* the process that has the Bolt file open
  pc,       \* what the last scan does next, or how it ended
  role,     \* its -role
  pending,  \* the events it has still to analyse
  event,    \* the one it analyses, or None
  recorded, \* the actions it added, each with its event
  scans     \* scans started

scanVars == <<log, lock, pc, role, pending, event, recorded, scans>>

ScanTypeOK ==
  /\ TypeOK
  /\ log \in Logs
  /\ lock \in {"nobody", "local", "scan"}
  /\ pc \in {"idle", "querying", "analysing", "succeeded", "stopped", "panicked"}
  /\ role \in Roles
  /\ pending \subseteq Event
  /\ event \in Event \cup {None}
  /\ recorded \subseteq ActionIds \X Event
  /\ scans \in 0..MaxScans

ScanInit ==
  /\ Init
  /\ log \in Logs
  /\ lock = "nobody" /\ pc = "idle" /\ role \in Roles
  /\ pending = {} /\ event = None /\ recorded = {} /\ scans = 0

Ended == pc \in {"idle", "succeeded", "stopped", "panicked"}

-----------------------------------------------------------------------------
(* Rows the query selects, and those of them that are events. *)
Selected(r) == {x \in log : IssuedBy[x.identity] = r}

Events(rows) == {x \in rows : x.kind = "event"}

(* Mutant: the time of an event is hashed. *)
HashEvent_WithTime(x) == <<x.call, x.identity, x.time>>

(* Neither the id nor the time of an event is hashed; its identity is. *)
HashEvent(x) == <<x.call, x.identity>>

(* Mutant: a session is taken for a role. *)
ExtractRoleARNFromSession_Never(identity) == identity

ExtractRoleARNFromSession(identity) == IssuedBy[identity]

(* The bound of the tables: ids for all events there may be are left. *)
IdsLeft(r) ==
  /\ Cardinality(FreshActionIds) >= Cardinality({HashEvent(x) : x \in Events(Selected(r))})
  /\ FindByRole(findings, r, "active") = None => FreshFindingIds # {}

(* OpenBoltDB, and StartQueryExecution. *)
StartScan(r) ==
  /\ Ended /\ scans < MaxScans
  /\ lock = "nobody" /\ IdsLeft(r)
  /\ lock' = "scan" /\ pc' = "querying" /\ role' = r
  /\ pending' = {} /\ recorded' = {} /\ scans' = scans + 1
  /\ UNCHANGED <<log, event, vars>>

(* "ensure that you are not running 'iamzero local'" *)
CannotOpen ==
  /\ Ended /\ lock = "local"
  /\ pc' = "stopped" /\ recorded' = {}
  /\ UNCHANGED <<log, lock, role, pending, event, scans, vars>>

(* The query or a call of AnalyseEvent fails or panics, or the process is  *)
(* killed, wherever it is: what it wrote before stays.                     *)
ScanStops ==
  /\ pc \in {"querying", "analysing"}
  /\ pc' = "stopped" /\ lock' = "nobody"
  /\ pending' = {} /\ event' = None
  /\ req' = [req EXCEPT ![Scanner] = Idle]
  /\ UNCHANGED <<log, role, recorded, scans, findings, actions>>

(* Mutant: rows that cannot be converted are left out. *)
GetQueryResults_Lenient ==
  \E page \in SUBSET Selected(role) :
    /\ pc = "querying"
    /\ Cardinality(page) = Min({PageRows, Cardinality(Selected(role))})
    /\ pending' = {HashEvent(x) : x \in Events(page)}
    /\ pc' = "analysing"
    /\ UNCHANGED <<log, lock, role, event, recorded, scans, vars>>

(* The query succeeded: its first page, in whatever order, is read into the *)
(* aggregator, which keeps one event for each hash and returns them in any  *)
(* order.  Rows without a mapping are left out; the first one that cannot   *)
(* be converted ends the scan, with an error or a nil dereference.          *)
GetQueryResults ==
  \E page \in SUBSET Selected(role) :
    /\ pc = "querying"
    /\ Cardinality(page) = Min({PageRows, Cardinality(Selected(role))})
    /\ \/ /\ \A x \in page : x.kind \in {"event", "unmapped"}
          /\ pending' = {HashEvent(x) : x \in Events(page)}
          /\ pc' = "analysing" /\ UNCHANGED lock
       \/ /\ \E x \in page : \/ x.kind = "malformed" /\ pc' = "stopped"
                             \/ x.kind = "null" /\ pc' = "panicked"
          /\ lock' = "nobody" /\ UNCHANGED pending
    /\ UNCHANGED <<log, role, event, recorded, scans, vars>>

(* AnalyseEvent looks up the finding of the event's role. *)
AnalyseEvent(e) ==
  /\ pc = "analysing" /\ e \in pending
  /\ Analyse(Scanner, ExtractRoleARNFromSession(e[2]), AdviceFor[e[1]])
  /\ pending' = pending \ {e} /\ event' = e
  /\ UNCHANGED <<log, lock, pc, role, recorded, scans>>

(* Its storage calls; with Action.Add the event is recorded. *)
ContinueAnalysis ==
  /\ pc = "analysing" /\ Step(Scanner)
  /\ recorded' = IF req[Scanner].pc = "add"
                 THEN recorded \cup {<<req[Scanner].action.id, event>>} ELSE recorded
  /\ UNCHANGED <<log, lock, pc, role, pending, event, scans>>

ScanSucceeds ==
  /\ pc = "analysing" /\ pending = {} /\ req[Scanner].pc = "idle"
  /\ pc' = "succeeded" /\ lock' = "nobody" /\ event' = None
  /\ UNCHANGED <<log, role, pending, recorded, scans, vars>>

(* Mutant: the file is opened without its lock. *)
StartLocal_Unlocked ==
  /\ lock \in {"nobody", "scan"}
  /\ lock' = "local"
  /\ UNCHANGED <<log, pc, role, pending, event, recorded, scans, vars>>

StartLocal ==
  /\ lock = "nobody"
  /\ lock' = "local"
  /\ UNCHANGED <<log, pc, role, pending, event, recorded, scans, vars>>

(* The end of the process cuts off every handler, wherever it is. *)
StopLocal ==
  /\ lock = "local"
  /\ lock' = "nobody"
  /\ req' = [r \in Requests |-> Idle]
  /\ UNCHANGED <<log, pc, role, pending, event, recorded, scans, findings, actions>>

(* A step of a handler of the collector or the console of "iamzero local". *)
Local == lock = "local" /\ Next /\ UNCHANGED scanVars

ScanNext ==
  \/ \E r \in Roles : StartScan(r)
  \/ CannotOpen
  \/ GetQueryResults
  \/ \E e \in pending : AnalyseEvent(e)
  \/ ContinueAnalysis
  \/ ScanSucceeds \/ ScanStops
  \/ StartLocal \/ StopLocal \/ Local

ScanSpec == ScanInit /\ [][ScanNext]_<<vars, scanVars>>

-----------------------------------------------------------------------------
(* "reads and deduplicates": however often a session made a call, one scan  *)
(* records it at most once, also when it ends early, and exactly once when  *)
(* it succeeds.                                                             *)
RecordsEachCallOnce ==
  /\ \A x, y \in recorded : x # y => <<x[2][1], x[2][2]>> # <<y[2][1], y[2][2]>>
  /\ pc = "succeeded" =>
       {<<x[2][1], x[2][2]>> : x \in recorded} =
         {<<x.call, x.identity>> : x \in {y \in log : IssuedBy[y.identity] = role /\ y.kind = "event"}}

(* A scan reads the whole log before it records anything: when a row of the *)
(* role cannot be read, no event of it is in the store.                     *)
AllOrNothingIsRead ==
  (\E x \in log : IssuedBy[x.identity] = role /\ x.kind \in {"malformed", "null"}) => recorded = {}

(* The sessions of a role share its one active finding, which the console   *)
(* cannot resolve under a scan, for that process holds the file.            *)
OneFindingForAScan ==
  \A x, y \in recorded : actions[x[1]].finding = actions[y[1]].finding

(* Overlapping or interrupted handlers, of this or an earlier process, may  *)
(* have left a finding with an old document.  The first event that a scan   *)
(* analyses under it makes up for all of them: between its events, and so   *)
(* when it succeeds, the finding is what RecalculateDocument would compute. *)
UpToDateBetweenEvents ==
  pc = "analysing" /\ req[Scanner].pc = "idle" =>
    \A x \in recorded :
      LET f == actions[x[1]].finding
      IN  /\ findings[f] # None
          /\ findings[f] = RecalculateDocument(findings[f], ListForPolicy(actions, f))

(* A scan that ends between Action.Add and CreateOrUpdate leaves an action  *)
(* without a finding, which the console cannot show.  That happens to its   *)
(* very first event or to none, and never when it succeeds.                 *)
OnlyTheFirstIsOrphaned ==
  \A x \in recorded :
    findings[actions[x[1]].finding] = None => recorded = {x} /\ pc # "succeeded"

(* A scan opens a finding only for a role that has no active one, however   *)
(* the two active findings of a role that overlapping events of a local     *)
(* server may have opened came about: the lock lasts from the lookup to the *)
(* write.                                                                   *)
OpensOnlyWhatIsMissing ==
  [][pc = "analysing" =>
       \A f \in Stored(findings') \ Stored(findings) :
         Matching(findings, findings'[f].role, "active") = {}]_<<vars, scanVars>>
=============================================================================
