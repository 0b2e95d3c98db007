----------------------------- MODULE SQSServer -----------------------------
(***************************************************************************)
(* The collector's SQS transport: one goroutine polls the queue and hands  *)
(* each message to the workers over an unbuffered channel; a worker runs   *)
(* the handler (HandleSQSMessage) and deletes the message if it returned   *)
(* no error.  The queue itself is Amazon's: a received message is hidden,  *)
(* and comes back when its visibility timeout ends before it is deleted.   *)
(*                                                                         *)
(* jobs carries &msg, the address of the poller's loop variable, so a      *)
(* worker's message is whatever that variable holds when the worker reads  *)
(* it: the model keeps the variables (one per execution of the loop) and   *)
(* gives the worker a reference.                                           *)
(***************************************************************************)
EXTENDS Naturals, FiniteSets, Sequences

CONSTANTS
  Messages,     \* messages clients may send
  Workers,      \* the workerCount worker goroutines
  Poison,       \* messages the handler always rejects: bad JSON, no valid token
  Panicking,    \* and those it may panic on: an event with no parameters
  CanShutdown,  \* whether Shutdown may be called
  MaxRestarts,  \* how often the process may end anywhere, and another start
  None

ASSUME WorkersAssumption == IsFiniteSet(Workers)
ASSUME PoisonAssumption == Panicking \subseteq Poison /\ Poison \subseteq Messages
ASSUME StopsAssumption == CanShutdown \in BOOLEAN /\ MaxRestarts \in Nat
ASSUME NoneAssumption == None \notin Messages

VARIABLES
  queue,      \* of each message: "unsent", "visible", "hidden" or "deleted"
  handled,    \* messages the handler has returned no error for
  cancelled,  \* whether the context given to Start is cancelled
  poller,     \* the polling goroutine
  loopVar,    \* the value of msg in each execution of the range loop
  worker,     \* each worker goroutine
  restarts    \* how often the process was started again

vars == <<queue, handled, cancelled, poller, loopVar, worker, restarts>>

(* A loop is live while the poller or a worker refers to its variable. *)
Loops == 0..Cardinality(Workers)

PollerState ==
  [pc : {"receive", "stopped"}]
  \cup [pc : {"send", "next"}, loop : Loops, rest : Seq(Messages)]

WorkerState ==
  [pc : {"idle"}]
  \cup [pc : {"start", "delete"}, loop : Loops]
  \cup [pc : {"handle"}, loop : Loops, body : Messages]

TypeOK ==
  /\ queue \in [Messages -> {"unsent", "visible", "hidden", "deleted"}]
  /\ handled \subseteq Messages
  /\ cancelled \in BOOLEAN
  /\ poller \in PollerState
  /\ loopVar \in [Loops -> Messages \cup {None}]
  /\ worker \in [Workers -> WorkerState]
  /\ restarts \in 0..MaxRestarts

(* What NewSQSServer and Start set up; nothing has been sent. *)
Init ==
  /\ queue = [m \in Messages |-> "unsent"]
  /\ handled = {}
  /\ cancelled = FALSE
  /\ poller = [pc |-> "receive"]
  /\ loopVar = [l \in Loops |-> None]
  /\ worker = [w \in Workers |-> [pc |-> "idle"]]
  /\ restarts = 0

-----------------------------------------------------------------------------
(* The queue and its clients. *)

Send(m) ==
  /\ queue[m] = "unsent"
  /\ queue' = [queue EXCEPT ![m] = "visible"]
  /\ UNCHANGED <<handled, cancelled, poller, loopVar, worker, restarts>>

VisibilityTimeout(m) ==
  /\ queue[m] = "hidden"
  /\ queue' = [queue EXCEPT ![m] = "visible"]
  /\ UNCHANGED <<handled, cancelled, poller, loopVar, worker, restarts>>

-----------------------------------------------------------------------------
(* The polling goroutine. *)

(* Mutant: up to two messages are asked for. *)
MaxNumberOfMessages_Two == 2

(* MaxNumberOfMessages is left out of the request: SQS returns at most one. *)
MaxNumberOfMessages == 1

Batches ==
  {batch \in UNION {[1..n -> Messages] : n \in 1..MaxNumberOfMessages} :
     /\ \A i \in DOMAIN batch : queue[batch[i]] = "visible"
     /\ \A i, j \in DOMAIN batch : batch[i] = batch[j] => i = j}

(* A loop whose variable nothing refers to; there is always one.            *)
FreeLoop ==
  CHOOSE l \in Loops : \A w \in Workers : worker[w].pc # "idle" => worker[w].loop # l

(* Mutant: the address is sent before the loop sets the variable. *)
ReceiveMessage_Unset(batch) ==
  /\ poller.pc = "receive" /\ ~cancelled
  /\ queue' = [m \in Messages |-> IF \E i \in DOMAIN batch : batch[i] = m THEN "hidden"
                                  ELSE queue[m]]
  /\ poller' = [pc |-> "send", loop |-> FreeLoop, rest |-> batch]
  /\ UNCHANGED <<handled, cancelled, loopVar, worker, restarts>>

(* The response with the batch arrives, or is lost on the way: an error, or *)
(* a context cancelled during the call.                                     *)
ReceiveMessage(batch) ==
  /\ poller.pc = "receive" /\ ~cancelled
  /\ queue' = [m \in Messages |-> IF \E i \in DOMAIN batch : batch[i] = m THEN "hidden"
                                  ELSE queue[m]]
  /\ \/ poller' = [pc |-> "next", loop |-> FreeLoop, rest |-> batch]
     \/ UNCHANGED poller
  /\ UNCHANGED <<handled, cancelled, loopVar, worker, restarts>>

NextMessage ==
  /\ poller.pc = "next"
  /\ IF poller.rest = <<>>
     THEN /\ poller' = [pc |-> "receive"]
          /\ UNCHANGED loopVar
     ELSE /\ loopVar' = [loopVar EXCEPT ![poller.loop] = Head(poller.rest)]
          /\ poller' = [poller EXCEPT !.pc = "send", !.rest = Tail(@)]
  /\ UNCHANGED <<queue, handled, cancelled, worker, restarts>>

(* Mutant: the workers leave when the context is cancelled. *)
Dispatch_UntilCancelled(w) ==
  /\ poller.pc = "send" /\ ~cancelled
  /\ worker[w].pc = "idle"
  /\ worker' = [worker EXCEPT ![w] = [pc |-> "start", loop |-> poller.loop]]
  /\ poller' = [poller EXCEPT !.pc = "next"]
  /\ UNCHANGED <<queue, handled, cancelled, loopVar, restarts>>

(* jobs <- &msg: blocks until a worker takes it, cancelled or not.  Workers *)
(* range over a channel that is never closed, so they never leave.          *)
Dispatch(w) ==
  /\ poller.pc = "send"
  /\ worker[w].pc = "idle"
  /\ worker' = [worker EXCEPT ![w] = [pc |-> "start", loop |-> poller.loop]]
  /\ poller' = [poller EXCEPT !.pc = "next"]
  /\ UNCHANGED <<queue, handled, cancelled, loopVar, restarts>>

(* <-ctx.Done() *)
StopPolling ==
  /\ poller.pc = "receive" /\ cancelled
  /\ poller' = [pc |-> "stopped"]
  /\ UNCHANGED <<queue, handled, cancelled, loopVar, worker, restarts>>

-----------------------------------------------------------------------------
(* The workers. *)

(* The handler unmarshals msg.Body. *)
StartHandler(w) ==
  /\ worker[w].pc = "start"
  /\ worker' = [worker EXCEPT ![w] = [pc |-> "handle", loop |-> worker[w].loop,
                                      body |-> loopVar[worker[w].loop]]]
  /\ UNCHANGED <<queue, handled, cancelled, poller, loopVar, restarts>>

HandlerSucceeds(w) ==
  /\ worker[w].pc = "handle"
  /\ worker[w].body \notin Poison
  /\ handled' = handled \cup {worker[w].body}
  /\ worker' = [worker EXCEPT ![w] = [pc |-> "delete", loop |-> worker[w].loop]]
  /\ UNCHANGED <<queue, cancelled, poller, loopVar, restarts>>

(* Mutant: the message is deleted whether or not the handler failed. *)
HandlerFails_Deletes(w) ==
  /\ worker[w].pc = "handle"
  /\ worker' = [worker EXCEPT ![w] = [pc |-> "idle"]]
  /\ queue' = [queue EXCEPT ![worker[w].body] = "deleted"]
  /\ UNCHANGED <<handled, cancelled, poller, loopVar, restarts>>

(* Mutant: the worker returns on the first error. *)
HandlerFails_Returns(w) ==
  /\ worker[w].pc = "handle"
  /\ worker' = [worker EXCEPT ![w] = [pc |-> "returned", loop |-> worker[w].loop]]
  /\ UNCHANGED <<queue, handled, cancelled, poller, loopVar, restarts>>

(* The error is logged and the message left to its visibility timeout. *)
HandlerFails(w) ==
  /\ worker[w].pc = "handle"
  /\ worker' = [worker EXCEPT ![w] = [pc |-> "idle"]]
  /\ UNCHANGED <<queue, handled, cancelled, poller, loopVar, restarts>>

(* CreateAdviceFromEvent assigns to a nil map before anything is stored.    *)
(* Nothing recovers, so the process dies and all its goroutines with it.    *)
HandlerPanics(w) ==
  /\ worker[w].pc = "handle"
  /\ worker[w].body \in Panicking
  /\ poller' = [pc |-> "stopped"]
  /\ loopVar' = [l \in Loops |-> None]
  /\ worker' = [v \in Workers |-> [pc |-> "idle"]]
  /\ UNCHANGED <<queue, handled, cancelled, restarts>>

(* DeleteMessage uses the receipt of what msg holds by now. *)
DeleteMessage(w) ==
  /\ worker[w].pc = "delete" /\ ~cancelled
  /\ queue' = [queue EXCEPT ![loopVar[worker[w].loop]] = "deleted"]
  /\ worker' = [worker EXCEPT ![w] = [pc |-> "idle"]]
  /\ UNCHANGED <<handled, cancelled, poller, loopVar, restarts>>

(* The call fails, always so once its context is cancelled, or its receipt *)
(* has expired: the message stays.                                         *)
DeleteFails(w) ==
  /\ worker[w].pc = "delete"
  /\ worker' = [worker EXCEPT ![w] = [pc |-> "idle"]]
  /\ UNCHANGED <<queue, handled, cancelled, poller, loopVar, restarts>>

-----------------------------------------------------------------------------
(* Shutdown only cancels the context; it waits for nobody. *)
Shutdown ==
  /\ CanShutdown /\ ~cancelled
  /\ cancelled' = TRUE
  /\ UNCHANGED <<queue, handled, poller, loopVar, worker, restarts>>

(* The process ends, after Shutdown or by a crash, if it did not panic      *)
(* before, and another is started.                                          *)
Restart ==
  /\ restarts < MaxRestarts
  /\ cancelled' = FALSE
  /\ poller' = [pc |-> "receive"]
  /\ loopVar' = [l \in Loops |-> None]
  /\ worker' = [w \in Workers |-> [pc |-> "idle"]]
  /\ restarts' = restarts + 1
  /\ UNCHANGED <<queue, handled>>

PollerStep == NextMessage \/ StopPolling \/ \E w \in Workers : Dispatch(w)

WorkerStep(w) ==
  \/ StartHandler(w)
  \/ HandlerSucceeds(w)
  \/ HandlerFails(w)
  \/ HandlerPanics(w)
  \/ DeleteMessage(w)
  \/ DeleteFails(w)

Next ==
  \/ \E m \in Messages : Send(m) \/ VisibilityTimeout(m)
  \/ \E batch \in Batches : ReceiveMessage(batch)
  \/ PollerStep
  \/ \E w \in Workers : WorkerStep(w)
  \/ Shutdown
  \/ Restart

Spec == Init /\ [][Next]_vars

(* The goroutines are scheduled, handlers return, visibility timeouts end; *)
(* SQS does not withhold a visible message from a poller for ever, and the *)
(* handler does not fail for ever on a message it can accept.              *)
Delivered(m) == \E batch \in Batches : batch[1] = m /\ ReceiveMessage(batch) /\ poller' # poller

Succeeds(m) == \E w \in Workers : worker[w].pc = "handle" /\ worker[w].body = m /\ HandlerSucceeds(w)

FairSpec ==
  /\ Spec
  /\ WF_vars(PollerStep)
  /\ \A w \in Workers : WF_vars(WorkerStep(w))
  /\ \A m \in Messages : /\ WF_vars(VisibilityTimeout(m))
                         /\ SF_vars(Delivered(m))
                         /\ SF_vars(Succeeds(m))

-----------------------------------------------------------------------------
(* "if no errors handling, delete the message from the queue": a message   *)
(* leaves the queue only after the handler accepted that very message, so  *)
(* no event is lost, through redelivery, restarts and failed deletes.      *)
NoEventLost == \A m \in Messages : queue[m] = "deleted" => m \in handled

(* A worker deletes the message it handled, although it reads msg twice.   *)
DeletesWhatItHandled ==
  \A w \in Workers :
    /\ worker[w].pc = "handle" => loopVar[worker[w].loop] = worker[w].body
    /\ worker[w].pc = "delete" => loopVar[worker[w].loop] \in handled

(* A message the handler can accept is accepted in the end, however often   *)
(* it was redelivered and whatever else, poison included, is in the queue,  *)
(* unless the server is shut down or a panic ends it.                       *)
EventuallyHandled ==
  \A m \in Messages \ Poison :
    queue[m] = "visible" ~> (m \in handled \/ cancelled \/ poller.pc = "stopped")

(* After Shutdown the poller stops, even if it was blocked on a send while  *)
(* every worker was busy: the workers outlive it and keep receiving.  Only a *)
(* restart, which clears cancelled, comes before that.                      *)
PollerStops == cancelled ~> (poller.pc = "stopped" \/ ~cancelled)

=============================================================================
