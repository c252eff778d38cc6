--------------------------- MODULE LifecycleProofs ---------------------------
(***************************************************************************)
(* Proofs about Lifecycle, for any number of gRPC goroutines, associations *)
(* and datagrams.                                                          *)
(***************************************************************************)
EXTENDS Lifecycle, TLAPS

\* The statements of Stop and Close come in order: what each left behind.
StopOrder ==
  /\ ctx => main \in {"sleep", "exited"}
  /\ start \in {"close", "unlisten", "join_receiver", "join_heartbeat",
                "returned"} => ctx
  /\ transport # "open" =>
       start \in {"unlisten", "join_receiver", "join_heartbeat", "returned"}
  /\ start \in {"join_receiver", "join_heartbeat", "returned"} =>
       transport = "closed"

\* Past GracefulStop no gRPC call is being served; a user plane has none.
CallsServed ==
  role = "up" \/ main \notin {"running", "graceful"} =>
    \A w \in Worker : worker[w] = "idle"

\* A round of heartbeats has an association left while it is in a call.
RoundLasts == heartbeat \in {"send", "call"} => targets > 0

\* The one datagram the receiving goroutine may be past its check with.
LateAtMost ==
  /\ transport = "open" => late = 0
  /\ transport # "open" /\ receiver \in {"read", "handle"} => late = 0
  /\ late <= 1

\* The inductive invariant.
LifecycleInv ==
  /\ TypeOK /\ StopOrder /\ CallsServed /\ RoundLasts /\ StopIsQuiet
  /\ LateAtMost

\* A process begins with nothing stopped.
LEMMA LifecycleInit == Init => LifecycleInv
<1> SUFFICES ASSUME Init PROVE LifecycleInv
  OBVIOUS
<1>1. ctx \in BOOLEAN /\ stopping \in BOOLEAN
  BY Zenon DEF Init
<1>2. TypeOK
  BY <1>1, LifecycleAssumption DEF Init, TypeOK
<1>3. StopOrder
  BY DEF Init, StopOrder
<1>4. CallsServed /\ RoundLasts /\ StopIsQuiet /\ LateAtMost
  BY DEF Init, CallsServed, RoundLasts, StopIsQuiet, LateAtMost
<1> QED
  BY <1>2, <1>3, <1>4 DEF LifecycleInv

\* Every goroutine's step keeps the types.
LEMMA LifecycleTypes ==
  ASSUME TypeOK, RoundLasts, [Next]_vars
  PROVE  TypeOK' /\ RoundLasts'
<1> USE LifecycleAssumption DEF TypeOK, RoundLasts
<1>1. CASE Signal \/ MainStep \/ Exit
  BY <1>1 DEF Signal, MainStep, GracefulStop, Cancel, Exit
<1>2. CASE StartStep
  BY <1>2 DEF StartStep, StartGoes, EstablishAssociation, SpawnHeartbeatLoop,
              Stop, CloseCancel, CloseSocket, CloseJoin, StopJoin
<1>3. CASE HeartbeatTick \/ HeartbeatLoopReturns
  BY <1>3 DEF HeartbeatTick, HeartbeatLoopReturns
<1>4. CASE HeartbeatStep
  BY <1>4 DEF HeartbeatStep, HeartbeatSend, HeartbeatCallDone
<1>5. CASE ReceiverStep \/ Arrive
  BY <1>5 DEF ReceiverStep, ReceiverCheck, ReceiverReads, ReceiverReadFails,
              ReceiverHandles, Arrive
<1>6. ASSUME NEW w \in Worker, Serve(w) \/ WorkerStep(w)
      PROVE  TypeOK' /\ RoundLasts'
  BY <1>6 DEF Serve, WorkerStep, CallSend, CallReturns, CallDone, WorkerGoes
<1>7. CASE UNCHANGED vars
  BY <1>7 DEF vars
<1> QED
  BY <1>1, <1>2, <1>3, <1>4, <1>5, <1>6, <1>7 DEF Next

\* Every goroutine's step keeps the order of the statements of a shutdown.
LEMMA LifecycleStep == LifecycleInv /\ [Next]_vars => LifecycleInv'
<1> SUFFICES ASSUME LifecycleInv, [Next]_vars
             PROVE  StopOrder' /\ CallsServed' /\ StopIsQuiet' /\ LateAtMost'
  BY LifecycleTypes DEF LifecycleInv
<1> USE DEF LifecycleInv, TypeOK, StopOrder, CallsServed, StopIsQuiet, LateAtMost
<1>1. CASE Signal \/ MainStep \/ Exit
  BY <1>1 DEF Signal, MainStep, GracefulStop, Cancel, Exit
<1>2. CASE StartStep
  BY <1>2 DEF StartStep, StartGoes, EstablishAssociation, SpawnHeartbeatLoop,
              Stop, CloseCancel, CloseSocket, CloseJoin, StopJoin
<1>3. CASE HeartbeatTick \/ HeartbeatLoopReturns
  BY <1>3 DEF HeartbeatTick, HeartbeatLoopReturns
<1>4. CASE HeartbeatStep
  BY <1>4 DEF HeartbeatStep, HeartbeatSend, HeartbeatCallDone
<1>5. CASE ReceiverStep \/ Arrive
  BY <1>5 DEF ReceiverStep, ReceiverCheck, ReceiverReads, ReceiverReadFails,
              ReceiverHandles, Arrive
<1>6. ASSUME NEW w \in Worker, Serve(w) \/ WorkerStep(w)
      PROVE  StopOrder' /\ CallsServed' /\ StopIsQuiet' /\ LateAtMost'
  BY <1>6 DEF Serve, WorkerStep, CallSend, CallReturns, CallDone, WorkerGoes
<1>7. CASE UNCHANGED vars
  BY <1>7 DEF vars
<1> QED
  BY <1>1, <1>2, <1>3, <1>4, <1>5, <1>6, <1>7 DEF Next

\* The inductive invariant holds in every reachable state.
THEOREM LifecycleInvariant == Spec => []LifecycleInv
BY LifecycleInit, LifecycleStep, PTL DEF Spec

\* The goroutines, the contexts and the counts of datagrams have their type.
THEOREM LifecycleTypeCorrect == Spec => []TypeOK
<1>1. LifecycleInv => TypeOK
  BY DEF LifecycleInv
<1> QED
  BY <1>1, LifecycleInvariant, PTL

(***************************************************************************)
(* Close does not cut a gRPC call off: main waits in GracefulStop, which   *)
(* comes before the cancel that Start waits for.                           *)
(***************************************************************************)
THEOREM GracefulShutdown == Spec => []NoCallCutOff
<1>1. LifecycleInv => NoCallCutOff
  BY DEF LifecycleInv, StopOrder, CallsServed, NoCallCutOff
<1> QED
  BY <1>1, LifecycleInvariant, PTL

(***************************************************************************)
(* What Close and Stop have waited for when they return has ended, and     *)
(* stays so.                                                               *)
(***************************************************************************)
THEOREM StopWaits == Spec => []StopIsQuiet
<1>1. LifecycleInv => StopIsQuiet
  BY DEF LifecycleInv
<1> QED
  BY <1>1, LifecycleInvariant, PTL

(***************************************************************************)
(* At most one datagram is handled after the transport's context was       *)
(* cancelled, however many are waiting.                                    *)
(***************************************************************************)
THEOREM LateDatagram == Spec => []OneLateDatagram
<1>1. LifecycleInv => OneLateDatagram
  BY DEF LifecycleInv, LateAtMost, OneLateDatagram
<1> QED
  BY <1>1, LifecycleInvariant, PTL
=============================================================================
