------------------------------ MODULE Lifecycle ------------------------------
(***************************************************************************)
(* One process, a control plane or a user plane, from main to its exit:    *)
(* the goroutines that Start, NewTransport and the gRPC server spawn, and  *)
(* how a signal ends them.  Stop cancels the function's context, closes    *)
(* the transport, which waits for the receiving goroutine, and waits for   *)
(* the heartbeat loop.  What SendRequest does in detail is in Transport;   *)
(* here it sends, waits, and returns for one of its three reasons.         *)
(***************************************************************************)
EXTENDS Naturals

CONSTANTS
  Worker,      \* the goroutines that serve gRPC calls
  MaxTargets,  \* bound: associations a round of heartbeats goes through
  MaxInbox     \* bound: datagrams the socket holds

ASSUME LifecycleAssumption == MaxTargets \in Nat /\ MaxInbox \in Nat

VARIABLES
  role,       \* which of the two commands this is
  main,       \* where main is
  ctx,        \* main's context was cancelled
  start,      \* where the goroutine of Start is
  stopping,   \* the function's own context was cancelled
  transport,  \* how far Close is
  heartbeat,  \* where heartbeatLoop is
  targets,    \* the associations this round has still to serve
  receiver,   \* where receiveLoop is
  worker,     \* worker[w]: where a gRPC call is
  inbox,      \* how many datagrams wait at the socket
  late        \* history: datagrams handled after the transport's cancel

vars == <<role, main, ctx, start, stopping, transport, heartbeat, targets,
          receiver, worker, inbox, late>>

Init ==
  /\ role \in {"cp", "up"}
  /\ main = "running"
  /\ ctx = FALSE
  /\ start = IF role = "cp" THEN "spawn" ELSE "setup"
  /\ stopping = FALSE
  /\ transport = "open"
  /\ heartbeat = "off"
  /\ targets = 0
  /\ receiver = "check"
  /\ worker = [w \in Worker |-> "idle"]
  /\ inbox = 0
  /\ late = 0

Alive == main # "exited"

-----------------------------------------------------------------------------
(***************************************************************************)
(* main: a signal, GracefulStop of the gRPC server (the control plane      *)
(* only), cancel, a second of sleep, and the end of every goroutine.       *)
(***************************************************************************)
Signal ==
  /\ main = "running"
  /\ main' = IF role = "cp" THEN "graceful" ELSE "cancel"
  /\ UNCHANGED <<role, ctx, start, stopping, transport, heartbeat, targets,
                 receiver, worker, inbox, late>>

\* Mutant: Stop of the gRPC server, which does not wait for its calls.
GracefulStopAtOnce ==
  /\ main = "graceful"
  /\ main' = "cancel"
  /\ UNCHANGED <<role, ctx, start, stopping, transport, heartbeat, targets,
                 receiver, worker, inbox, late>>

\* GracefulStop returns once no call is being served.
GracefulStop ==
  /\ main = "graceful"
  /\ \A w \in Worker : worker[w] = "idle"
  /\ main' = "cancel"
  /\ UNCHANGED <<role, ctx, start, stopping, transport, heartbeat, targets,
                 receiver, worker, inbox, late>>

Cancel ==
  /\ main = "cancel"
  /\ main' = "sleep"
  /\ ctx' = TRUE
  /\ UNCHANGED <<role, start, stopping, transport, heartbeat, targets,
                 receiver, worker, inbox, late>>

\* The second is over, wherever the other goroutines are.
Exit ==
  /\ main = "sleep"
  /\ main' = "exited"
  /\ UNCHANGED <<role, ctx, start, stopping, transport, heartbeat, targets,
                 receiver, worker, inbox, late>>

-----------------------------------------------------------------------------
(***************************************************************************)
(* The goroutine of Start.                                                 *)
(***************************************************************************)
StartGoes(from, to) == Alive /\ start = from /\ start' = to

\* establishAssociation does not look at ctx; if it fails, Start returns.
EstablishAssociation ==
  /\ \E to \in {"spawn", "failed"} : StartGoes("setup", to)
  /\ UNCHANGED <<role, main, ctx, stopping, transport, heartbeat, targets,
                 receiver, worker, inbox, late>>

SpawnHeartbeatLoop ==
  /\ StartGoes("spawn", "wait")
  /\ heartbeat' = "select"
  /\ UNCHANGED <<role, main, ctx, stopping, transport, targets, receiver,
                 worker, inbox, late>>

\* Mutant: Stop does not cancel the function's context.
StopUncancelled ==
  /\ ctx
  /\ StartGoes("wait", "close")
  /\ UNCHANGED <<role, main, ctx, stopping, transport, heartbeat, targets,
                 receiver, worker, inbox, late>>

\* ctx is done: Stop, which first cancels the function's own context.
Stop ==
  /\ ctx
  /\ StartGoes("wait", "close")
  /\ stopping' = TRUE
  /\ UNCHANGED <<role, main, ctx, transport, heartbeat, targets, receiver,
                 worker, inbox, late>>

\* The three statements of Close.
CloseCancel ==
  /\ StartGoes("close", "unlisten")
  /\ transport' = "cancelled"
  /\ UNCHANGED <<role, main, ctx, stopping, heartbeat, targets, receiver,
                 worker, inbox, late>>

CloseSocket ==
  /\ StartGoes("unlisten", "join_receiver")
  /\ transport' = "closed"
  /\ UNCHANGED <<role, main, ctx, stopping, heartbeat, targets, receiver,
                 worker, inbox, late>>

\* Mutant: Close does not wait for the receiving goroutine.
CloseUnjoined ==
  /\ StartGoes("join_receiver", "join_heartbeat")
  /\ UNCHANGED <<role, main, ctx, stopping, transport, heartbeat, targets,
                 receiver, worker, inbox, late>>

CloseJoin ==
  /\ receiver = "done"
  /\ StartGoes("join_receiver", "join_heartbeat")
  /\ UNCHANGED <<role, main, ctx, stopping, transport, heartbeat, targets,
                 receiver, worker, inbox, late>>

StopJoin ==
  /\ heartbeat = "done"
  /\ StartGoes("join_heartbeat", "returned")
  /\ UNCHANGED <<role, main, ctx, stopping, transport, heartbeat, targets,
                 receiver, worker, inbox, late>>

-----------------------------------------------------------------------------
(***************************************************************************)
(* heartbeatLoop.  A round serves the associations one by one; the user    *)
(* plane has the control plane only.  When both cases of the select are    *)
(* ready, either is taken.                                                 *)
(***************************************************************************)
HeartbeatTick ==
  /\ Alive /\ heartbeat = "select"
  /\ targets' \in IF role = "cp" THEN 0 .. MaxTargets ELSE {1}
  /\ heartbeat' = IF targets' = 0 THEN "select" ELSE "send"
  /\ UNCHANGED <<role, main, ctx, start, stopping, transport, receiver,
                 worker, inbox, late>>

HeartbeatLoopReturns ==
  /\ Alive /\ heartbeat = "select"
  /\ stopping
  /\ heartbeat' = "done"
  /\ UNCHANGED <<role, main, ctx, start, stopping, transport, targets,
                 receiver, worker, inbox, late>>

HeartbeatSend ==
  /\ Alive /\ heartbeat = "send"
  /\ transport # "closed"
  /\ heartbeat' = "call"
  /\ UNCHANGED <<role, main, ctx, start, stopping, transport, targets,
                 receiver, worker, inbox, late>>

\* Mutant: the round does not end with its last association.
HeartbeatCallDoneEndless ==
  /\ Alive /\ \/ heartbeat = "call"
              \/ heartbeat = "send" /\ transport = "closed"
  /\ targets' = targets - 1
  /\ heartbeat' = "send"
  /\ UNCHANGED <<role, main, ctx, start, stopping, transport, receiver,
                 worker, inbox, late>>

\* SendRequest returns: an answer, the last timeout, the cancelled context,
\* or a send over the closed socket.  The loop goes on in any case.
HeartbeatCallDone ==
  /\ Alive /\ \/ heartbeat = "call"
              \/ heartbeat = "send" /\ transport = "closed"
  /\ targets' = targets - 1
  /\ heartbeat' = IF targets' = 0 THEN "select" ELSE "send"
  /\ UNCHANGED <<role, main, ctx, start, stopping, transport, receiver,
                 worker, inbox, late>>

-----------------------------------------------------------------------------
(***************************************************************************)
(* receiveLoop, with the handler it calls on its own goroutine.            *)
(***************************************************************************)

\* Mutant: the loop does not look at the context.
ReceiverCheckNothing ==
  /\ Alive /\ receiver = "check"
  /\ receiver' = "read"
  /\ UNCHANGED <<role, main, ctx, start, stopping, transport, heartbeat,
                 targets, worker, inbox, late>>

ReceiverCheck ==
  /\ Alive /\ receiver = "check"
  /\ receiver' = IF transport = "open" THEN "read" ELSE "done"
  /\ UNCHANGED <<role, main, ctx, start, stopping, transport, heartbeat,
                 targets, worker, inbox, late>>

\* A datagram, which Unmarshal accepts or not.
ReceiverReads ==
  /\ Alive /\ receiver = "read"
  /\ inbox > 0 /\ transport # "closed"
  /\ inbox' = inbox - 1
  /\ receiver' \in {"handle", "check"}
  /\ UNCHANGED <<role, main, ctx, start, stopping, transport, heartbeat,
                 targets, worker, late>>

\* The read deadline, or the error of a closed socket.
ReceiverReadFails ==
  /\ Alive /\ receiver = "read"
  /\ receiver' = IF transport = "closed" THEN "done" ELSE "check"
  /\ UNCHANGED <<role, main, ctx, start, stopping, transport, heartbeat,
                 targets, worker, inbox, late>>

ReceiverHandles ==
  /\ Alive /\ receiver = "handle"
  /\ receiver' = "check"
  /\ late' = IF transport = "open" THEN late ELSE late + 1
  /\ UNCHANGED <<role, main, ctx, start, stopping, transport, heartbeat,
                 targets, worker, inbox>>

Arrive ==
  /\ Alive /\ inbox < MaxInbox /\ transport # "closed"
  /\ inbox' = inbox + 1
  /\ UNCHANGED <<role, main, ctx, start, stopping, transport, heartbeat,
                 targets, receiver, worker, late>>

-----------------------------------------------------------------------------
(***************************************************************************)
(* A gRPC call of the control plane: one SendRequest, and the maps after.  *)
(***************************************************************************)
WorkerGoes(w, from, to) ==
  /\ Alive /\ worker[w] = from
  /\ worker' = [worker EXCEPT ![w] = to]
  /\ UNCHANGED <<role, main, ctx, start, stopping, transport, heartbeat,
                 targets, receiver, inbox, late>>

\* The server takes calls until GracefulStop.
Serve(w) == role = "cp" /\ main = "running" /\ WorkerGoes(w, "idle", "send")

\* The first send fails on a closed socket, and SendRequest returns.
CallSend(w) ==
  WorkerGoes(w, "send", IF transport = "closed" THEN "finish" ELSE "call")

\* An answer, the last timeout, or the cancelled context.
CallReturns(w) == WorkerGoes(w, "call", "finish")

CallDone(w) == WorkerGoes(w, "finish", "idle")

-----------------------------------------------------------------------------
MainStep == GracefulStop \/ Cancel

StartStep ==
  \/ EstablishAssociation \/ SpawnHeartbeatLoop \/ Stop
  \/ CloseCancel \/ CloseSocket \/ CloseJoin \/ StopJoin

HeartbeatStep == HeartbeatSend \/ HeartbeatCallDone

ReceiverStep ==
  ReceiverCheck \/ ReceiverReads \/ ReceiverReadFails \/ ReceiverHandles

WorkerStep(w) == CallSend(w) \/ CallReturns(w) \/ CallDone(w)

Next ==
  \/ Signal \/ MainStep \/ Exit \/ StartStep
  \/ HeartbeatTick \/ HeartbeatLoopReturns \/ HeartbeatStep
  \/ ReceiverStep \/ Arrive
  \/ \E w \in Worker : Serve(w) \/ WorkerStep(w)

Spec == Init /\ [][Next]_vars

(***************************************************************************)
(* Goroutines run, SendRequest and handlers return.  A select whose two    *)
(* cases stay ready picks each of them at some time (Go picks uniformly).  *)
(* No signal is owed, and nothing is assumed of the second main sleeps.    *)
(***************************************************************************)
FairSpec ==
  /\ Spec
  /\ WF_vars(MainStep)
  /\ WF_vars(StartStep)
  /\ WF_vars(HeartbeatStep)
  /\ SF_vars(HeartbeatLoopReturns)
  /\ WF_vars(ReceiverStep)
  /\ \A w \in Worker : WF_vars(WorkerStep(w))

-----------------------------------------------------------------------------
\* Type correctness of the goroutines' places and of the contexts.
TypeOK ==
  /\ role \in {"cp", "up"}
  /\ main \in {"running", "graceful", "cancel", "sleep", "exited"}
  /\ ctx \in BOOLEAN /\ stopping \in BOOLEAN
  /\ start \in {"setup", "spawn", "wait", "close", "unlisten",
                "join_receiver", "join_heartbeat", "returned", "failed"}
  /\ transport \in {"open", "cancelled", "closed"}
  /\ heartbeat \in {"off", "select", "send", "call", "done"}
  /\ targets \in 0 .. MaxTargets + 1
  /\ receiver \in {"check", "read", "handle", "done"}
  /\ worker \in [Worker -> {"idle", "send", "call", "finish"}]
  /\ inbox \in 0 .. MaxInbox
  /\ late \in Nat

(***************************************************************************)
(* Shutting down loses no gRPC call its answer: main waits for the running *)
(* calls, and takes no new ones, before it cancels the context that makes  *)
(* Start close the transport, so no SendRequest of a call ever ends with   *)
(* "transport closed" or on a closed socket.                               *)
(***************************************************************************)
NoCallCutOff ==
  transport # "open" => \A w \in Worker : worker[w] = "idle"

(***************************************************************************)
(* Once Close has returned no handler runs and none will: the sessions and *)
(* the dataplane are no longer touched.  Once Stop has returned, the       *)
(* heartbeat loop has ended as well, and the socket is closed.             *)
(***************************************************************************)
StopIsQuiet ==
  /\ start \in {"join_heartbeat", "returned"} =>
       receiver = "done" /\ transport = "closed"
  /\ start = "returned" => heartbeat = "done"

(***************************************************************************)
(* Between the two halves of Close the socket still delivers.  receiveLoop *)
(* looks at the context before every read, so at most the datagram it was  *)
(* already waiting for, or working on, is handled after the cancel.        *)
(***************************************************************************)
OneLateDatagram == late <= 1

(***************************************************************************)
(* Nobody waits for ever in a shutdown: after a signal GracefulStop, Close *)
(* and Stop all return, whatever the receiving goroutine, the heartbeat    *)
(* loop and the gRPC calls were doing, unless the second of sleep ended    *)
(* the process before, or Start had returned without an association.       *)
(***************************************************************************)
ShutdownCompletes ==
  main # "running" ~> start \in {"returned", "failed"} \/ main = "exited"
=============================================================================
