-------------------------- MODULE SQSServerProofs --------------------------
(***************************************************************************)
(* The SQS transport loses no event, for any messages, any number of       *)
(* workers, restarts and redeliveries, although a worker reads its message *)
(* through a pointer to a variable of the poller.                          *)
(***************************************************************************)
EXTENDS SQSServer, FiniteSetTheorems, SequenceTheorems, TLAPS

(* No worker has the address of the variable of this loop. *)
Unused(l) == \A w \in Workers : worker[w].pc # "idle" => worker[w].loop # l

(* The poller sets a loop variable only while no worker has its address:    *)
(* the response has one message, so after a send there is nothing to set.   *)
PollerFits ==
  /\ poller.pc = "next" =>
       \/ poller.rest = <<>>
       \/ Len(poller.rest) = 1 /\ Unused(poller.loop)
  /\ poller.pc = "send" =>
       /\ poller.rest = <<>> /\ Unused(poller.loop)
       /\ loopVar[poller.loop] \in Messages

(* The pointers of the workers are to messages. *)
WorkersFit ==
  \A w \in Workers : worker[w].pc # "idle" => loopVar[worker[w].loop] \in Messages

(* The inductive invariant: nothing is lost, and what poller and workers    *)
(* hold fits.                                                               *)
IInv ==
  /\ TypeOK
  /\ NoEventLost
  /\ DeletesWhatItHandled
  /\ PollerFits
  /\ WorkersFit

-----------------------------------------------------------------------------
(* What the types of the goroutines say of their fields. *)
LEMMA Fields ==
  ASSUME TypeOK
  PROVE  /\ poller.pc \in {"receive", "stopped", "send", "next"}
         /\ poller.pc \in {"send", "next"} =>
              /\ poller.loop \in Loops /\ poller.rest \in Seq(Messages)
              /\ poller = [pc |-> poller.pc, loop |-> poller.loop, rest |-> poller.rest]
         /\ \A w \in Workers :
              /\ worker[w].pc \in {"idle", "start", "delete", "handle"}
              /\ worker[w].pc # "idle" => worker[w].loop \in Loops
              /\ worker[w].pc = "handle" => worker[w].body \in Messages
<1>1. poller \in PollerState /\ \A w \in Workers : worker[w] \in WorkerState
  BY DEF TypeOK
<1> QED BY <1>1 DEF PollerState, WorkerState

(* There is one loop more than workers, so one that no worker refers to. *)
LEMMA FreeLoopExists ==
  ASSUME TypeOK
  PROVE  FreeLoop \in Loops /\ Unused(FreeLoop)
<1>1. SUFFICES \E l \in Loops : Unused(l)
  BY DEF FreeLoop, Unused
<1>2. SUFFICES ASSUME \A l \in Loops : ~Unused(l) PROVE FALSE
  OBVIOUS
<1> DEFINE user == [l \in Loops |-> CHOOSE w \in Workers : /\ worker[w].pc # "idle"
                                                           /\ worker[w].loop = l]
<1>3. \A l \in Loops : user[l] \in Workers /\ worker[user[l]].loop = l
  BY <1>2 DEF Unused
<1>4. user \in [Loops -> Workers]
  BY <1>3
<1>5. /\ IsFiniteSet(Loops) /\ Cardinality(Workers) \in Nat
      /\ Cardinality(Workers) < Cardinality(Loops)
  <2>1. Cardinality(Workers) \in Nat
    BY WorkersAssumption, FS_CardinalityType
  <2>2. /\ IsFiniteSet(0..Cardinality(Workers))
        /\ Cardinality(0..Cardinality(Workers)) = Cardinality(Workers) + 1
    BY <2>1, FS_Interval
  <2> QED BY <2>1, <2>2 DEF Loops
<1> HIDE DEF user
<1>6. \E k, l \in Loops : k # l /\ user[k] = user[l]
  BY <1>4, <1>5, WorkersAssumption, FS_PigeonHole
<1> QED BY <1>3, <1>6

(* An empty poller and idle workers satisfy the invariant. *)
LEMMA Initial == Init => IInv
<1> SUFFICES ASSUME Init PROVE IInv
  OBVIOUS
<1>1. TypeOK
  <2>1. poller \in PollerState /\ worker \in [Workers -> WorkerState]
    BY DEF Init, PollerState, WorkerState
  <2>2. restarts \in 0..MaxRestarts
    BY StopsAssumption DEF Init
  <2>3. /\ loopVar \in [Loops -> Messages \cup {None}]
        /\ queue \in [Messages -> {"unsent", "visible", "hidden", "deleted"}]
        /\ handled \subseteq Messages /\ cancelled \in BOOLEAN
    BY DEF Init
  <2> QED BY <2>1, <2>2, <2>3 DEF TypeOK
<1> QED BY <1>1 DEF IInv, Init, NoEventLost, DeletesWhatItHandled, PollerFits, WorkersFit

(* A step in which a worker becomes idle and no variable is set keeps the  *)
(* invariant, if it deletes at most a message that was handled.            *)
Rests(w) ==
  /\ worker' = [worker EXCEPT ![w] = [pc |-> "idle"]]
  /\ \A m \in Messages : queue'[m] = "deleted" => queue[m] = "deleted" \/ m \in handled
  /\ queue' \in [Messages -> {"unsent", "visible", "hidden", "deleted"}]
  /\ UNCHANGED <<handled, cancelled, poller, loopVar, restarts>>

(* A worker that rests leaves its message to the queue or deleted. *)
LEMMA RestStep ==
  ASSUME IInv, NEW w \in Workers, Rests(w)
  PROVE  IInv'
<1>1. /\ worker'[w] = [pc |-> "idle"]
      /\ \A v \in Workers \ {w} : worker'[v] = worker[v]
  BY DEF Rests, IInv, TypeOK
<1>2. TypeOK'
  BY DEF Rests, IInv, TypeOK, WorkerState
<1>3. NoEventLost'
  BY DEF Rests, IInv, NoEventLost
<1>4. DeletesWhatItHandled' /\ WorkersFit' /\ PollerFits'
  BY <1>1 DEF Rests, IInv, DeletesWhatItHandled, WorkersFit, PollerFits, Unused
<1> QED BY <1>2, <1>3, <1>4 DEF IInv

(* A step that changes only the queue, and deletes nothing. *)
LEMMA QueueStep ==
  ASSUME IInv, NEW m \in Messages, NEW state \in {"visible", "hidden"},
         queue' = [queue EXCEPT ![m] = state],
         UNCHANGED <<handled, cancelled, poller, loopVar, worker, restarts>>
  PROVE  IInv'
BY DEF IInv, TypeOK, NoEventLost, DeletesWhatItHandled, PollerFits, WorkersFit, Unused

(* The poller takes a batch, with loop variables of its own. *)
LEMMA ReceiveStep ==
  ASSUME IInv, NEW batch \in Batches, ReceiveMessage(batch)
  PROVE  IInv'
<1>1. batch \in [1..1 -> Messages] /\ batch \in Seq(Messages) /\ Len(batch) = 1
  <2>1. \A n \in 1..MaxNumberOfMessages : n = 1
    BY DEF MaxNumberOfMessages
  <2>2. batch \in [1..1 -> Messages]
    BY <2>1 DEF Batches
  <2>3. PICK m \in Messages : batch = <<m>>
    BY <2>2
  <2>4. <<m>> \in Seq(Messages) /\ Len(<<m>>) = 1
    OBVIOUS
  <2> QED BY <2>2, <2>3, <2>4
<1>2. queue' \in [Messages -> {"unsent", "visible", "hidden", "deleted"}]
      /\ \A m \in Messages : queue'[m] = "deleted" => queue[m] = "deleted"
  BY DEF ReceiveMessage, IInv, TypeOK
<1>3. poller' = [pc |-> "next", loop |-> FreeLoop, rest |-> batch] \/ poller' = poller
  BY DEF ReceiveMessage
<1>4. FreeLoop \in Loops /\ Unused(FreeLoop)
  BY FreeLoopExists DEF IInv
<1>5. UNCHANGED <<handled, cancelled, loopVar, worker, restarts>>
  BY DEF ReceiveMessage
<1>6. TypeOK'
  BY <1>1, <1>2, <1>3, <1>4, <1>5 DEF IInv, TypeOK, PollerState
<1>7. NoEventLost' /\ DeletesWhatItHandled' /\ WorkersFit'
  BY <1>2, <1>5 DEF IInv, NoEventLost, DeletesWhatItHandled, WorkersFit
<1>8. PollerFits'
  BY <1>1, <1>3, <1>4, <1>5 DEF IInv, PollerFits, Unused
<1> QED BY <1>6, <1>7, <1>8 DEF IInv

(* The poller sets its loop variable: no worker has its address. *)
LEMMA NextMessageStep ==
  ASSUME IInv, NextMessage
  PROVE  IInv'
<1>1. UNCHANGED <<queue, handled, cancelled, worker, restarts>>
  BY DEF NextMessage
<1>2. CASE poller.rest = <<>>
  BY <1>1, <1>2 DEF NextMessage, IInv, TypeOK, PollerState, NoEventLost, DeletesWhatItHandled,
                    PollerFits, WorkersFit
<1>3. CASE poller.rest # <<>>
  <2>1. /\ poller.pc = "next" /\ poller.loop \in Loops /\ poller.rest \in Seq(Messages)
        /\ poller = [pc |-> "next", loop |-> poller.loop, rest |-> poller.rest]
    BY Fields DEF NextMessage, IInv
  <2>2. Len(poller.rest) = 1 /\ Unused(poller.loop)
    BY <1>3, <2>1 DEF IInv, PollerFits
  <2>3. Head(poller.rest) \in Messages /\ Tail(poller.rest) = <<>>
    <3>1. Head(poller.rest) \in Messages /\ Tail(poller.rest) \in Seq(Messages)
          /\ Len(Tail(poller.rest)) = 0
      BY <1>3, <2>1, <2>2, HeadTailProperties
    <3> QED BY <3>1, EmptySeq
  <2>4. /\ loopVar' = [loopVar EXCEPT ![poller.loop] = Head(poller.rest)]
        /\ poller' = [pc |-> "send", loop |-> poller.loop, rest |-> <<>>]
    BY <1>3, <2>1, <2>3 DEF NextMessage
  <2>5. /\ loopVar'[poller.loop] \in Messages
        /\ \A l \in Loops \ {poller.loop} : loopVar'[l] = loopVar[l]
    BY <2>1, <2>3, <2>4 DEF IInv, TypeOK
  <2>6. TypeOK'
    BY <1>1, <2>1, <2>3, <2>4 DEF IInv, TypeOK, PollerState
  <2>7. \A w \in Workers : worker[w].pc # "idle" => loopVar'[worker[w].loop] = loopVar[worker[w].loop]
    BY <2>2, <2>5, Fields DEF IInv, Unused
  <2>8. NoEventLost' /\ DeletesWhatItHandled' /\ WorkersFit'
    BY <1>1, <2>7 DEF IInv, NoEventLost, DeletesWhatItHandled, WorkersFit
  <2>9. PollerFits'
    BY <1>1, <2>2, <2>4, <2>5 DEF PollerFits, Unused
  <2> QED BY <2>6, <2>8, <2>9 DEF IInv
<1> QED BY <1>2, <1>3

(* A worker takes the address of the variable. *)
LEMMA DispatchStep ==
  ASSUME IInv, NEW w \in Workers, Dispatch(w)
  PROVE  IInv'
<1>1. /\ poller.pc = "send" /\ poller.loop \in Loops /\ poller.rest = <<>>
      /\ poller = [pc |-> "send", loop |-> poller.loop, rest |-> <<>>]
      /\ loopVar[poller.loop] \in Messages
  BY Fields DEF Dispatch, IInv, PollerFits
<1>2. /\ worker'[w] = [pc |-> "start", loop |-> poller.loop]
      /\ \A v \in Workers \ {w} : worker'[v] = worker[v]
  BY DEF Dispatch, IInv, TypeOK
<1>3. poller' = [pc |-> "next", loop |-> poller.loop, rest |-> <<>>]
  BY <1>1 DEF Dispatch
<1>4. UNCHANGED <<queue, handled, cancelled, loopVar, restarts>>
  BY DEF Dispatch
<1>5. TypeOK'
  <2>1. worker' \in [Workers -> WorkerState]
    BY <1>1 DEF Dispatch, IInv, TypeOK, WorkerState
  <2>2. poller' \in PollerState
    BY <1>1, <1>3 DEF PollerState
  <2> QED BY <1>4, <2>1, <2>2 DEF IInv, TypeOK
<1>6. NoEventLost' /\ PollerFits'
  BY <1>3, <1>4 DEF IInv, NoEventLost, PollerFits
<1>7. DeletesWhatItHandled' /\ WorkersFit'
  BY <1>1, <1>2, <1>4 DEF IInv, DeletesWhatItHandled, WorkersFit
<1> QED BY <1>5, <1>6, <1>7 DEF IInv

(* A worker goes on with the variable it has, holding what it read in it. *)
Proceeds(w, next) ==
  /\ worker[w].pc # "idle"
  /\ next.pc \in {"handle", "delete"} /\ next.loop = worker[w].loop /\ next \in WorkerState
  /\ next.pc = "handle" => next.body = loopVar[worker[w].loop]
  /\ next.pc = "delete" => loopVar[worker[w].loop] \in handled'
  /\ worker' = [worker EXCEPT ![w] = next]
  /\ handled \subseteq handled' /\ handled' \subseteq Messages
  /\ UNCHANGED <<queue, cancelled, poller, loopVar, restarts>>

(* A worker goes on with the message it read. *)
LEMMA ProceedStep ==
  ASSUME IInv, NEW w \in Workers, NEW next, Proceeds(w, next)
  PROVE  IInv'
<1>1. worker'[w] = next /\ \A v \in Workers \ {w} : worker'[v] = worker[v]
  BY DEF Proceeds, IInv, TypeOK
<1>2. TypeOK'
  BY DEF Proceeds, IInv, TypeOK
<1>3. NoEventLost'
  BY DEF Proceeds, IInv, NoEventLost
<1>4. DeletesWhatItHandled' /\ WorkersFit'
  BY <1>1 DEF Proceeds, IInv, DeletesWhatItHandled, WorkersFit
<1>5. \A l : Unused(l) => Unused(l)'
  BY <1>1 DEF Proceeds, Unused
<1>6. PollerFits'
  BY <1>5 DEF Proceeds, IInv, PollerFits
<1> QED BY <1>2, <1>3, <1>4, <1>6 DEF IInv

(* Every step of a worker keeps the invariant. *)
LEMMA WorkerStepInv ==
  ASSUME IInv, NEW w \in Workers, WorkerStep(w)
  PROVE  IInv'
<1> DEFINE m == loopVar[worker[w].loop]
<1>0. TypeOK
  BY DEF IInv
<1>1. CASE StartHandler(w)
  <2>1. Proceeds(w, [pc |-> "handle", loop |-> worker[w].loop, body |-> m])
    BY <1>0, <1>1, Fields DEF StartHandler, Proceeds, IInv, WorkersFit, TypeOK, WorkerState
  <2> QED BY <2>1, ProceedStep
<1>2. CASE HandlerSucceeds(w)
  <2>1. m = worker[w].body /\ m \in Messages /\ worker[w].loop \in Loops
    BY <1>0, <1>2, Fields DEF HandlerSucceeds, IInv, DeletesWhatItHandled
  <2>2. Proceeds(w, [pc |-> "delete", loop |-> worker[w].loop])
    BY <1>0, <1>2, <2>1 DEF HandlerSucceeds, Proceeds, TypeOK, WorkerState
  <2> QED BY <2>2, ProceedStep
<1>3. CASE HandlerFails(w) \/ DeleteFails(w)
  <2>1. Rests(w)
    BY <1>0, <1>3 DEF HandlerFails, DeleteFails, Rests, TypeOK
  <2> QED BY <2>1, RestStep
<1>4. CASE DeleteMessage(w)
  <2>1. m \in handled
    BY <1>4 DEF DeleteMessage, IInv, DeletesWhatItHandled
  <2>2. Rests(w)
    BY <1>0, <1>4, <2>1 DEF DeleteMessage, Rests, TypeOK
  <2> QED BY <2>2, RestStep
<1>5. CASE HandlerPanics(w)
  <2>1. poller' \in PollerState /\ worker' \in [Workers -> WorkerState]
        /\ loopVar' \in [Loops -> Messages \cup {None}]
    BY <1>5 DEF HandlerPanics, PollerState, WorkerState
  <2>2. TypeOK'
    BY <1>0, <1>5, <2>1 DEF HandlerPanics, TypeOK
  <2>3. NoEventLost' /\ DeletesWhatItHandled' /\ PollerFits' /\ WorkersFit'
    BY <1>5 DEF HandlerPanics, IInv, NoEventLost, DeletesWhatItHandled, PollerFits, WorkersFit
  <2> QED BY <2>2, <2>3 DEF IInv
<1> QED BY <1>1, <1>2, <1>3, <1>4, <1>5 DEF WorkerStep

(* Every step keeps the invariant. *)
LEMMA Inductive ==
  ASSUME IInv, [Next]_vars
  PROVE  IInv'
<1>1. ASSUME NEW m \in Messages, Send(m) \/ VisibilityTimeout(m) PROVE IInv'
  BY <1>1, QueueStep DEF Send, VisibilityTimeout
<1>2. ASSUME NEW batch \in Batches, ReceiveMessage(batch) PROVE IInv'
  BY <1>2, ReceiveStep
<1>3. CASE PollerStep
  <2>1. CASE StopPolling
    BY <2>1 DEF StopPolling, IInv, TypeOK, PollerState, NoEventLost, DeletesWhatItHandled,
                PollerFits, WorkersFit
  <2> QED BY <1>3, <2>1, NextMessageStep, DispatchStep DEF PollerStep
<1>4. ASSUME NEW w \in Workers, WorkerStep(w) PROVE IInv'
  BY <1>4, WorkerStepInv
<1>5. CASE Shutdown
  BY <1>5 DEF Shutdown, IInv, TypeOK, NoEventLost, DeletesWhatItHandled, PollerFits, WorkersFit, Unused
<1>6. CASE Restart
  <2>1. TypeOK'
    <3>1. poller' \in PollerState /\ worker' \in [Workers -> WorkerState]
      BY <1>6 DEF Restart, PollerState, WorkerState
    <3>2. restarts' \in 0..MaxRestarts
      BY <1>6, StopsAssumption DEF Restart, IInv, TypeOK
    <3>3. loopVar' \in [Loops -> Messages \cup {None}]
      BY <1>6 DEF Restart
    <3> QED BY <1>6, <3>1, <3>2, <3>3 DEF Restart, IInv, TypeOK
  <2>2. NoEventLost' /\ DeletesWhatItHandled' /\ PollerFits' /\ WorkersFit'
    BY <1>6 DEF Restart, IInv, NoEventLost, DeletesWhatItHandled, PollerFits, WorkersFit
  <2> QED BY <2>1, <2>2 DEF IInv
<1>7. CASE UNCHANGED vars
  BY <1>7 DEF vars, IInv, TypeOK, NoEventLost, DeletesWhatItHandled, PollerFits, WorkersFit, Unused
<1> QED BY <1>1, <1>2, <1>3, <1>4, <1>5, <1>6, <1>7 DEF Next

(* The invariant holds in every reachable state. *)
LEMMA Invariance == Spec => []IInv
<1> QED BY Initial, Inductive, PTL DEF Spec

-----------------------------------------------------------------------------
(* Every variable keeps its type; in particular no worker is given a loop   *)
(* variable that was never set.                                             *)
THEOREM TypeCorrect == Spec => []TypeOK
<1>1. IInv => TypeOK
  BY DEF IInv
<1> QED BY <1>1, Invariance, PTL

(* A message leaves the queue only after the handler accepted it, through   *)
(* redelivery, failed deletes, panics, shutdown and any number of restarts. *)
THEOREM EventsAreKept == Spec => []NoEventLost
<1>1. IInv => NoEventLost
  BY DEF IInv
<1> QED BY <1>1, Invariance, PTL

(* The message a worker deletes is the one it handled: the poller does not  *)
(* set the variable that the worker's pointer leads to.                     *)
THEOREM PointersAreStable == Spec => []DeletesWhatItHandled
<1>1. IInv => DeletesWhatItHandled
  BY DEF IInv
<1> QED BY <1>1, Invariance, PTL

=============================================================================
