---------------------------- MODULE AnswerProofs ----------------------------
(***************************************************************************)
(* The proof that a call that sees a Cause IE sees the answer to its own   *)
(* request.  handleMessage matches datagrams by their number alone, so it  *)
(* all rests on numbers that an endpoint does not give out twice in one    *)
(* life.                                                                   *)
(***************************************************************************)
EXTENDS TypesProofs

\* Zenon tries a step first; a step with arithmetic or records names SMT.
USE ZenonT(20), SMTT(30)

(***************************************************************************)
(* No counter wraps around: the requests still to be sent have numbers     *)
(* left.  MaxRequests bounds what the clients and the tickers start.       *)
(***************************************************************************)
SendPCs == {"alloc", "lookup", "send"}

HeartbeatRecord ==
  [pc: {"idle", "next", "sending"}, todo: SUBSET (UP \X Nat),
   node: {CP} \cup UP, assoc: Nat]

RoomInv ==
  /\ heartbeat \in HeartbeatRecord
  /\ IsFiniteSet(heartbeat.todo)
  /\ heartbeat.pc = "idle" => heartbeat.todo = {}
  /\ seqNum[CP] + Unsent <= MaxRequests[CP] + 1
  /\ \A u \in UP : /\ seqNum[u] <= MaxRequests[u] + 1
                   /\ upState[u] = "starting" => seqNum[u] = 1

(***************************************************************************)
(* What is known of the messages of an endpoint in its first life: their   *)
(* numbers have been given out, and the call that holds such a number now  *)
(* is the one the message is about.                                        *)
(***************************************************************************)
FirstLife(e) == restarts[e] = 0

NumberTaken(c) ==
  InFlight(c) /\ FirstLife(Home[c]) => call[c].seq < seqNum[Home[c]]

RequestOK(m) ==
  m.body \in Request /\ FirstLife(m.src) =>
    /\ m.seq < seqNum[m.src]
    /\ \A c \in Caller :
         InFlight(c) /\ Home[c] = m.src /\ call[c].seq = m.seq => m = RequestOf(c)

ReplyOK(m) ==
  m.body.cause = CauseRequestAccepted /\ FirstLife(m.dst) =>
    /\ m.seq < seqNum[m.dst]
    /\ \A c \in Caller :
         InFlight(c) /\ Home[c] = m.dst /\ call[c].seq = m.seq => Answers(m, c)

HeldOK(c) ==
  InFlight(c) /\ FirstLife(Home[c]) =>
    \A m \in HeldBy(c) : m.body.cause = CauseRequestAccepted => Answers(m, c)

\* The copies of a request are equal.
SameRequest(m, n) ==
  (/\ m.body \in Request /\ n.body \in Request
   /\ m.src = n.src /\ m.seq = n.seq /\ FirstLife(m.src)) => m = n

AnswerInv ==
  /\ \A m \in DOMAIN net : RequestOK(m) /\ ReplyOK(m)
  /\ \A m, n \in DOMAIN net : SameRequest(m, n)
  /\ \A c \in Caller : NumberTaken(c) /\ HeldOK(c)

-----------------------------------------------------------------------------
(***************************************************************************)
(* RoomInv.                                                                *)
(***************************************************************************)

\* The numbers a goroutine at pc will still take: one or none.
Needs(pc) == IF pc \in SendPCs THEN 1 ELSE 0

\* A step of a gRPC call that takes no more numbers than it was to take.
LEMMA RoomOfCall ==
  ASSUME PFCPInv, RoomInv, NEW w \in Worker, NEW r, SetWorker(w, r),
         UNCHANGED <<heartbeat, upState>>,
         seqNum' \in [Endpoint -> SeqNums],
         \A u \in UP : seqNum'[u] = seqNum[u],
         \/ seqNum'[CP] + Needs(r.pc) <= seqNum[CP] + Needs(worker[w].pc)
         \/ CPHasRoom(1) /\ seqNum' = seqNum
  PROVE  RoomInv'
<1> DEFINE n == Cardinality(At(SendPCs))
           k == Cardinality(heartbeat.todo)
           most == MaxRequests[CP] + 1
<1>0. CP \in Endpoint /\ most \in Nat
  BY PFCPAssumption, TransportAssumption, SMTT(30)
<1>1. /\ n \in Nat /\ n' \in Nat
      /\ n' + Needs(worker[w].pc) = n + Needs(r.pc)
  BY CountMoves, SMTT(30) DEF Needs, PFCPInv, ControlInv
<1>2. k \in Nat /\ k' = k
  BY FS_CardinalityType DEF RoomInv
<1>3. seqNum[CP] \in Nat /\ seqNum'[CP] \in Nat
  BY <1>0, SMTT(30) DEF PFCPInv, TransportTypeOK, SeqNums
<1>4. seqNum[CP] + (n + k) <= most
  BY DEF RoomInv, Unsent, SendPCs
<1>5. CPHasRoom(1) => seqNum[CP] + (n + k) + 1 <= most
  BY DEF CPHasRoom, Unsent, SendPCs
<1>6. Needs(worker[w].pc) \in 0 .. 1 /\ Needs(r.pc) \in 0 .. 1
  BY SMTT(30) DEF Needs
<1>7. seqNum'[CP] + (n' + k') <= most
  <2> HIDE DEF n, k, most
  <2>1. CASE seqNum'[CP] + Needs(r.pc) <= seqNum[CP] + Needs(worker[w].pc)
    BY <1>0, <1>1, <1>2, <1>3, <1>4, <1>6, <2>1, SMTT(30)
  <2>2. CASE CPHasRoom(1) /\ seqNum' = seqNum
    BY <1>0, <1>1, <1>2, <1>3, <1>5, <1>6, <2>2, SMTT(30)
  <2> QED
    BY <2>1, <2>2
<1>8. seqNum'[CP] + Unsent' <= MaxRequests[CP] + 1
  BY <1>7 DEF Unsent, SendPCs
<1> QED
  BY <1>8 DEF RoomInv

\* SendRequest takes the next number of its endpoint.
LEMMA SendCounts ==
  ASSUME TransportTypeOK, NEW c \in Caller, NEW to, NEW body,
         SendRequest(c, to, body), seqNum[Home[c]] < MaxSeqNum
  PROVE  /\ seqNum' \in [Endpoint -> SeqNums]
         /\ seqNum'[Home[c]] = seqNum[Home[c]] + 1
         /\ \A e \in Endpoint \ {Home[c]} : seqNum'[e] = seqNum[e]
<1>1. Home[c] \in Endpoint /\ seqNum[Home[c]] \in SeqNums
  BY TransportAssumption DEF TransportTypeOK
<1>2. /\ NextSeqNum(seqNum[Home[c]]) = seqNum[Home[c]] + 1
      /\ seqNum[Home[c]] + 1 \in SeqNums
  BY <1>1, TransportAssumption, SMTT(30) DEF NextSeqNum, SeqNums
<1>3. seqNum' = [seqNum EXCEPT ![Home[c]] = NextSeqNum(@)]
  BY DEF SendRequest
<1> QED
  BY <1>1, <1>2, <1>3 DEF TransportTypeOK

\* Nobody who is to send a request finds the counter at its end.
LEMMA RoomLeft ==
  ASSUME PFCPInv, RoomInv
  PROVE  /\ \A w \in Worker : worker[w].pc \in SendPCs => seqNum[CP] < MaxSeqNum
         /\ \A a \in heartbeat.todo : seqNum[CP] < MaxSeqNum
         /\ \A u \in UP : HasRoom(u) \/ upState[u] = "starting" =>
              seqNum[u] < MaxSeqNum /\ seqNum[u] <= MaxRequests[u]
<1> DEFINE n == Cardinality(At(SendPCs))
           k == Cardinality(heartbeat.todo)
<1>0. /\ CP \in Endpoint /\ UP \subseteq Endpoint
      /\ \A e \in Endpoint : /\ MaxRequests[e] \in Nat \ {0} /\ seqNum[e] \in Nat
                             /\ MaxRequests[e] < MaxSeqNum
  BY PFCPAssumption, TransportAssumption, SMTT(30)
     DEF PFCPInv, TransportTypeOK, SeqNums
<1>1. /\ IsFiniteSet(At(SendPCs)) /\ n \in Nat
      /\ IsFiniteSet(heartbeat.todo) /\ k \in Nat
  BY AtFinite, FS_CardinalityType DEF RoomInv
<1>2. seqNum[CP] + (n + k) <= MaxRequests[CP] + 1
  BY DEF RoomInv, Unsent, SendPCs
<1>3. n # 0 \/ k # 0 => seqNum[CP] < MaxSeqNum
  <2> HIDE DEF n, k
  <2> QED
    BY <1>0, <1>1, <1>2, TransportAssumption, SMTT(30)
<1>4. ASSUME NEW w \in Worker, worker[w].pc \in SendPCs PROVE n # 0
  <2>1. w \in At(SendPCs)
    BY <1>4 DEF At
  <2> QED
    BY <1>1, <2>1, FS_EmptySet
<1>5. ASSUME NEW a \in heartbeat.todo PROVE k # 0
  BY <1>1, FS_EmptySet
<1>6. ASSUME NEW u \in UP, HasRoom(u) \/ upState[u] = "starting"
      PROVE  seqNum[u] < MaxSeqNum /\ seqNum[u] <= MaxRequests[u]
  <2>1. seqNum[u] <= MaxRequests[u]
    BY <1>0, <1>6, SMTT(30) DEF HasRoom, RoomInv
  <2> QED
    BY <1>0, <2>1, TransportAssumption, SMTT(30)
<1> QED
  BY <1>3, <1>4, <1>5, <1>6

\* A step that starts no request.
LEMMA RoomFrame ==
  ASSUME RoomInv, UNCHANGED <<worker, heartbeat, upState, seqNum>>
  PROVE  RoomInv'
BY DEF RoomInv, Unsent, At

\* The gRPC calls.
LEMMA RoomWorker ==
  ASSUME PFCPInv, RoomInv, UNCHANGED upVars, NEW w \in Worker,
         \/ WorkerStep(w)
         \/ \E u \in UP, r \in Rules : CreateSession(w, u, r)
         \/ \E s \in DOMAIN sessions : DeleteSession(w, s)
  PROVE  RoomInv'
<1>0. /\ TransportTypeOK /\ w \in Caller /\ Home[w] = CP
      /\ worker[w] \in WorkerRecord /\ UNCHANGED upState
      /\ seqNum \in [Endpoint -> SeqNums] /\ UP \subseteq Endpoint
      /\ CP \notin UP /\ CP \in Endpoint
  BY Homes, PFCPAssumption
     DEF PFCPInv, ControlInv, WorkersOK, upVars, TransportTypeOK
<1>1. ASSUME NEW r, SetWorker(w, r), UNCHANGED <<heartbeat, seqNum>>,
             r.pc \notin SendPCs \/ worker[w].pc \in SendPCs \/ CPHasRoom(1)
      PROVE  RoomInv'
  <2>1. seqNum[CP] \in Nat
    BY <1>0, SMTT(30) DEF SeqNums
  <2>2. \/ seqNum[CP] + Needs(r.pc) <= seqNum[CP] + Needs(worker[w].pc)
        \/ CPHasRoom(1)
    BY <1>1, <2>1, SMTT(30) DEF Needs
  <2> QED
    BY <1>0, <1>1, <2>2, RoomOfCall
<1>2. CASE CallerStep(w) /\ UNCHANGED cpVars
  <2>1. seqNum' = seqNum
    BY <1>2 DEF CallerStep, Register, Transmit, Retransmit, GiveUp, SendError,
       TakeResponse, TransportClosed, Unregister
  <2> QED
    BY <1>0, <1>2, <2>1, RoomFrame DEF cpVars
<1>3. CASE Finish(w) /\ UNCHANGED <<heartbeat, seqNum>>
  BY <1>1, <1>3 DEF Finish, SetWorker, IdleWorker, SendPCs
<1>4. ASSUME NEW pc \in WorkerPC, Goto(w, pc), UNCHANGED <<heartbeat, seqNum>>,
             pc \notin SendPCs \/ worker[w].pc \in SendPCs
      PROVE  RoomInv'
  <2>1. /\ SetWorker(w, [worker[w] EXCEPT !.pc = pc])
        /\ [worker[w] EXCEPT !.pc = pc].pc = pc
    BY <1>4, CallGoesOn DEF PFCPInv
  <2> QED
    BY <1>1, <1>4, <2>1
<1>5. CASE SendEstablishment(w) \/ SendDeletion(w)
  <2>1. PICK to, body : SendRequest(w, to, body)
    BY <1>5 DEF SendEstablishment, SendDeletion
  <2>2. worker[w].pc = "send" /\ Goto(w, "sending") /\ UNCHANGED heartbeat
    BY <1>5 DEF SendEstablishment, SendDeletion
  <2>3. seqNum[CP] < MaxSeqNum
    BY <2>2, RoomLeft DEF SendPCs
  <2>4. /\ seqNum' \in [Endpoint -> SeqNums] /\ seqNum'[CP] = seqNum[CP] + 1
        /\ \A u \in UP : seqNum'[u] = seqNum[u]
    BY <1>0, <2>1, <2>3, SendCounts
  <2>5. /\ SetWorker(w, [worker[w] EXCEPT !.pc = "sending"])
        /\ [worker[w] EXCEPT !.pc = "sending"].pc = "sending"
    BY <2>2, CallGoesOn DEF PFCPInv, WorkerPC
  <2>6. seqNum'[CP] + Needs("sending") <= seqNum[CP] + Needs(worker[w].pc)
    <3>1. seqNum[CP] \in Nat
      BY <1>0, SMTT(30) DEF SeqNums
    <3> QED
      BY <2>2, <2>4, <3>1, SMTT(30) DEF Needs, SendPCs
  <2> QED
    BY <1>0, <2>2, <2>4, <2>5, <2>6, RoomOfCall
<1>6. CASE EstablishmentDone(w)
  <2>1. UNCHANGED <<heartbeat, seqNum>>
    BY <1>6 DEF EstablishmentDone, Resume
  <2>2. CASE ~Accepted(w)
    BY <1>3, <1>6, <2>1, <2>2 DEF EstablishmentDone
  <2>3. CASE Accepted(w)
    <3> DEFINE r == [worker[w] EXCEPT !.pc = "insert",
                       !.remoteSEID = call[w].resp[1].body.seid,
                       !.req = call[w].seq]
    <3>1. SetWorker(w, r)
      BY <1>6, <2>3
         DEF EstablishmentDone, SetWorker, PFCPInv, ControlInv, WorkersOK
    <3>2. r.pc = "insert"
      BY <1>0 DEF WorkerRecord
    <3> QED
      BY <1>1, <2>1, <3>1, <3>2 DEF SendPCs
  <2> QED
    BY <2>2, <2>3
<1>7. CASE DeletionDone(w)
  <2>1. UNCHANGED <<heartbeat, seqNum>> /\ (Goto(w, "remove") \/ Finish(w))
    BY <1>7 DEF DeletionDone, Resume
  <2> QED
    BY <1>3, <1>4, <2>1 DEF SendPCs, WorkerPC
<1>8. CASE AllocSEID(w)
  <2> DEFINE r == [worker[w] EXCEPT !.pc = "send", !.seid = nextSEID]
  <2>1. SetWorker(w, r) /\ UNCHANGED <<heartbeat, seqNum>>
        /\ worker[w].pc = "alloc"
    BY <1>8
       DEF AllocSEID, SetWorker, PFCPInv, ControlInv, WorkersOK, transportVars
  <2> QED
    BY <1>1, <2>1 DEF SendPCs
<1>9. CASE FindAssociation(w)
  <2>1. /\ UNCHANGED <<heartbeat, seqNum>> /\ worker[w].pc = "lookup"
        /\ Goto(w, "send") \/ Finish(w)
    BY <1>9 DEF FindAssociation, transportVars
  <2> QED
    BY <1>3, <1>4, <2>1 DEF SendPCs, WorkerPC
<1>10. CASE InsertSession(w) \/ RemoveSession(w)
  <2>1. UNCHANGED <<heartbeat, seqNum>> /\ (Goto(w, "store") \/ Goto(w, "unstore"))
    BY <1>10 DEF InsertSession, RemoveSession, transportVars
  <2> QED
    BY <1>4, <2>1 DEF SendPCs, WorkerPC
<1>11. CASE StoreSession(w) \/ StoreDeleteSession(w)
  BY <1>3, <1>11 DEF StoreSession, StoreDeleteSession, StoreWrite, transportVars
<1>12. ASSUME NEW u \in UP, NEW rules \in Rules, CreateSession(w, u, rules)
       PROVE  RoomInv'
  BY <1>1, <1>12 DEF CreateSession, SetWorker, transportVars
<1>13. ASSUME NEW s \in DOMAIN sessions, DeleteSession(w, s) PROVE RoomInv'
  BY <1>1, <1>13 DEF DeleteSession, SetWorker, transportVars
<1> QED
  BY <1>2, <1>5, <1>6, <1>7, <1>8, <1>9, <1>10, <1>11, <1>12, <1>13
     DEF WorkerStep

\* The Association objects that sendHeartbeats collects: one for each node.
LEMMA CollectedObjects ==
  ASSUME StatesOK
  PROVE  LET todo == {<<u, associations[u][1].id>> : u \in Associated} IN
         /\ todo \subseteq UP \X Nat
         /\ IsFiniteSet(todo) /\ Cardinality(todo) \in Nat
         /\ Cardinality(Associated) \in Nat
         /\ Cardinality(todo) <= Cardinality(Associated)
<1> DEFINE todo == {<<u, associations[u][1].id>> : u \in Associated}
           f == [u \in Associated |-> <<u, associations[u][1].id>>]
<1>1. IsFiniteSet(Associated)
  BY PFCPAssumption, FS_Subset DEF Associated
<1>2. f \in Surjection(Associated, todo)
  BY DEF Surjection
<1>3. ASSUME NEW u \in Associated PROVE u \in UP /\ associations[u][1].id \in Nat
  <2>1. PICK r \in [id: Nat, heard: BOOLEAN] : associations[u] = <<r>>
    BY DEF StatesOK, Option, Associated
  <2>2. associations[u][1] = r
    BY <2>1, SMTT(30)
  <2> QED
    BY <2>2 DEF Associated
<1>4. todo \subseteq UP \X Nat
  BY <1>3, SMTT(30)
<1> HIDE DEF todo, f
<1>5. IsFiniteSet(todo) /\ Cardinality(todo) <= Cardinality(Associated)
  BY <1>1, <1>2, FS_Surjection
<1> QED
  BY <1>1, <1>4, <1>5, FS_CardinalityType DEF todo

\* A step of sendHeartbeats that takes no more numbers than it was to take.
LEMMA RoomOfHeartbeat ==
  ASSUME PFCPInv, RoomInv, UNCHANGED <<worker, upState>>,
         seqNum' \in [Endpoint -> SeqNums],
         \A u \in UP : seqNum'[u] = seqNum[u],
         heartbeat' \in HeartbeatRecord,
         IsFiniteSet(heartbeat.todo)', heartbeat'.pc = "idle" => heartbeat'.todo = {},
         LET k == Cardinality(heartbeat.todo) IN
           \/ seqNum'[CP] + k' <= seqNum[CP] + k
           \/ k = 0 /\ seqNum' = seqNum /\ CPHasRoom(k')
  PROVE  RoomInv'
<1> DEFINE n == Cardinality(At(SendPCs))
           k == Cardinality(heartbeat.todo)
           most == MaxRequests[CP] + 1
<1>0. CP \in Endpoint /\ most \in Nat
  BY PFCPAssumption, TransportAssumption, SMTT(30)
<1>1. n \in Nat /\ n' = n
  BY AtFinite DEF At
<1>2. k \in Nat /\ k' \in Nat
  <2>1. IsFiniteSet(heartbeat.todo) /\ IsFiniteSet(heartbeat.todo)'
    BY DEF RoomInv
  <2> QED
    BY <2>1, FS_CardinalityType
<1>3. seqNum[CP] \in Nat /\ seqNum'[CP] \in Nat
  BY <1>0, SMTT(30) DEF PFCPInv, TransportTypeOK, SeqNums
<1>4. seqNum[CP] + (n + k) <= most
  BY DEF RoomInv, Unsent, SendPCs
<1>5. CPHasRoom(k') => seqNum[CP] + (n + k) + k' <= most
  BY DEF CPHasRoom, Unsent, SendPCs
<1>6. \/ seqNum'[CP] + k' <= seqNum[CP] + k
      \/ k = 0 /\ seqNum' = seqNum /\ CPHasRoom(k')
  OBVIOUS
<1>7. seqNum'[CP] + (n' + k') <= most
  <2> HIDE DEF n, k, most
  <2>1. CASE seqNum'[CP] + k' <= seqNum[CP] + k
    BY <1>0, <1>1, <1>2, <1>3, <1>4, <2>1, SMTT(30)
  <2>2. CASE k = 0 /\ seqNum' = seqNum /\ CPHasRoom(k')
    BY <1>0, <1>1, <1>2, <1>3, <1>5, <2>2, SMTT(30)
  <2> QED
    BY <1>6, <2>1, <2>2
<1>8. seqNum'[CP] + Unsent' <= MaxRequests[CP] + 1
  BY <1>7 DEF Unsent, SendPCs
<1> QED
  BY <1>8 DEF RoomInv

\* heartbeatLoop takes one number for each association it found at its tick.
LEMMA RoomHeartbeat ==
  ASSUME PFCPInv, StatesOK, RoomInv, UNCHANGED upVars,
         HeartbeatTick \/ HeartbeatStep
  PROVE  RoomInv'
<1> DEFINE k == Cardinality(heartbeat.todo)
<1>0. /\ TransportTypeOK /\ HB \in Caller /\ Home[HB] = CP
      /\ UNCHANGED upState /\ seqNum \in [Endpoint -> SeqNums]
      /\ UP \subseteq Endpoint /\ CP \notin UP /\ CP \in Endpoint
      /\ heartbeat \in HeartbeatRecord /\ IsFiniteSet(heartbeat.todo)
      /\ seqNum[CP] \in Nat
  BY Homes, PFCPAssumption, SMTT(30)
     DEF PFCPInv, upVars, TransportTypeOK, RoomInv, SeqNums
<1>1. k \in Nat
  BY <1>0, FS_CardinalityType
<1>2. CASE HeartbeatTick
  <2> DEFINE todo == {<<u, associations[u][1].id>> : u \in Associated}
  <2>1. /\ todo \in SUBSET (UP \X Nat) /\ IsFiniteSet(todo)
        /\ Cardinality(todo) \in Nat /\ Cardinality(Associated) \in Nat
        /\ Cardinality(todo) <= Cardinality(Associated)
    BY CollectedObjects
  <2>2. /\ heartbeat' = [IdleHeartbeat EXCEPT !.pc = "next", !.todo = todo]
        /\ UNCHANGED <<worker, seqNum>> /\ heartbeat.pc = "idle"
        /\ CPHasRoom(Cardinality(Associated))
    BY <1>2 DEF HeartbeatTick, transportVars
  <2> HIDE DEF todo
  <2>3. /\ heartbeat' \in HeartbeatRecord /\ heartbeat'.pc = "next"
        /\ heartbeat'.todo = todo
    BY <2>1, <2>2 DEF IdleHeartbeat, HeartbeatRecord
  <2>4. heartbeat.todo = {} /\ Cardinality({}) = 0
    BY <2>2, FS_EmptySet DEF RoomInv
  <2>5. CPHasRoom(Cardinality(todo))
    <3>1. Unsent \in Nat /\ MaxRequests[CP] \in Nat
      BY <1>0, AtFinite, FS_CardinalityType, PFCPAssumption, SMTT(30)
         DEF Unsent
    <3> QED
      BY <1>0, <2>1, <2>2, <3>1, SMTT(30) DEF CPHasRoom
  <2>6. IsFiniteSet(heartbeat.todo)' /\ k = 0 /\ k' = Cardinality(todo)
    BY <2>1, <2>3, <2>4
  <2> QED
    BY <1>0, <2>2, <2>3, <2>5, <2>6, RoomOfHeartbeat
<1>3. CASE CallerStep(HB) /\ UNCHANGED cpVars
  <2>1. seqNum' = seqNum
    BY <1>3 DEF CallerStep, Register, Transmit, Retransmit, GiveUp, SendError,
       TakeResponse, TransportClosed, Unregister
  <2> QED
    BY <1>0, <1>3, <2>1, RoomFrame DEF cpVars
<1>4. CASE SendHeartbeat
  <2>1. PICK a \in heartbeat.todo :
          /\ SendRequest(HB, a[1], HeartbeatRequest)
          /\ heartbeat' = [pc |-> "sending", todo |-> heartbeat.todo \ {a},
                           node |-> a[1], assoc |-> a[2]]
    BY <1>4 DEF SendHeartbeat
  <2>2. heartbeat' \in HeartbeatRecord /\ heartbeat'.todo = heartbeat.todo \ {a}
        /\ heartbeat'.pc = "sending"
    BY <1>0, <2>1 DEF HeartbeatRecord
  <2>3. IsFiniteSet(heartbeat.todo \ {a})
        /\ Cardinality(heartbeat.todo \ {a}) = k - 1
    BY <1>0, <2>1, FS_RemoveElement
  <2>4. seqNum[CP] < MaxSeqNum
    BY RoomLeft
  <2>5. /\ seqNum' \in [Endpoint -> SeqNums] /\ seqNum'[CP] = seqNum[CP] + 1
        /\ \A u \in UP : seqNum'[u] = seqNum[u]
    BY <1>0, <2>1, <2>4, SendCounts
  <2>6. IsFiniteSet(heartbeat.todo)' /\ k' = k - 1
    BY <2>2, <2>3
  <2>7. seqNum'[CP] + k' <= seqNum[CP] + k
    BY <1>0, <1>1, <2>5, <2>6, SMTT(30)
  <2>8. UNCHANGED worker
    BY <1>4 DEF SendHeartbeat
  <2> QED
    BY <1>0, <2>2, <2>5, <2>6, <2>7, <2>8, RoomOfHeartbeat
<1>5. CASE HeartbeatDone
  <2>1. UNCHANGED <<worker, seqNum>>
        /\ heartbeat' = IF heartbeat.todo = {} THEN IdleHeartbeat
                        ELSE [heartbeat EXCEPT !.pc = "next"]
    BY <1>5 DEF HeartbeatDone, Resume
  <2>2. /\ heartbeat' \in HeartbeatRecord /\ heartbeat'.todo = heartbeat.todo
        /\ heartbeat'.pc = "idle" => heartbeat'.todo = {}
    <3>1. CASE heartbeat.todo = {}
      BY <2>1, <3>1 DEF IdleHeartbeat, HeartbeatRecord
    <3>2. CASE heartbeat.todo # {}
      BY <1>0, <2>1, <3>2 DEF HeartbeatRecord
    <3> QED
      BY <3>1, <3>2
  <2>3. IsFiniteSet(heartbeat.todo)' /\ k' = k
    BY <1>0, <2>2
  <2>4. seqNum'[CP] + k' <= seqNum[CP] + k
    BY <1>0, <1>1, <2>1, <2>3, SMTT(30)
  <2> QED
    BY <1>0, <2>1, <2>2, <2>3, <2>4, RoomOfHeartbeat
<1> QED
  BY <1>2, <1>3, <1>4, <1>5 DEF HeartbeatStep

\* A step of a user plane, which leaves the control plane alone.
LEMMA RoomOfUserPlane ==
  ASSUME PFCPInv, RoomInv, UNCHANGED <<worker, heartbeat>>,
         seqNum'[CP] = seqNum[CP], NEW u \in UP,
         \A v \in UP \ {u} : seqNum'[v] = seqNum[v] /\ upState'[v] = upState[v],
         seqNum'[u] <= MaxRequests[u] + 1,
         upState'[u] = "starting" => seqNum'[u] = 1
  PROVE  RoomInv'
BY DEF RoomInv, Unsent, At

\* A user plane sends only while its counter has room.
LEMMA RoomUserPlane ==
  ASSUME PFCPInv, StatesOK, RoomInv, UNCHANGED cpVars, NEW u \in UP,
         \/ UPGoroutine(u) \/ UPHeartbeat(u) \/ ReleaseAssociation(u)
         \/ UPRestart(u)
  PROVE  RoomInv'
<1>0. /\ TransportTypeOK /\ u \in Caller /\ Home[u] = u /\ u \in Endpoint
      /\ UNCHANGED <<worker, heartbeat>> /\ CP \in Endpoint \ {u}
      /\ UP \subseteq Endpoint
      /\ seqNum \in [Endpoint -> SeqNums] /\ seqNum[u] \in Nat
      /\ MaxRequests[u] \in Nat
  BY Homes, PFCPAssumption, SMTT(30)
     DEF PFCPInv, cpVars, TransportTypeOK, SeqNums
<1>1. upState \in [UP -> UPStates] /\ seqNum[u] <= MaxRequests[u] + 1
  BY DEF StatesOK, RoomInv
<1>2. CASE CallerStep(u) /\ UNCHANGED upVars
  <2>1. seqNum' = seqNum
    BY <1>2 DEF CallerStep, Register, Transmit, Retransmit, GiveUp, SendError,
       TakeResponse, TransportClosed, Unregister
  <2> QED
    BY <1>0, <1>2, <2>1, RoomFrame DEF upVars
<1>3. CASE UPHeartbeatDone(u)
  BY <1>0, <1>3, RoomFrame DEF UPHeartbeatDone, Resume, upVars
<1>4. CASE AssociationDone(u)
  <2>1. seqNum' = seqNum /\ upState'[u] # "starting"
        /\ \A v \in UP \ {u} : upState'[v] = upState[v]
    BY <1>1, <1>4 DEF AssociationDone, Resume
  <2> QED
    BY <1>0, <1>1, <2>1, RoomOfUserPlane
<1>5. CASE EstablishAssociation(u) \/ UPHeartbeat(u) \/ ReleaseAssociation(u)
  <2>1. PICK body : SendRequest(u, CP, body)
    BY <1>5 DEF EstablishAssociation, UPHeartbeat, ReleaseAssociation
  <2>2. HasRoom(u) \/ upState[u] = "starting"
    BY <1>5 DEF EstablishAssociation, UPHeartbeat, ReleaseAssociation
  <2>3. seqNum[u] < MaxSeqNum /\ seqNum[u] <= MaxRequests[u]
    BY <2>2, RoomLeft
  <2>4. /\ seqNum'[u] = seqNum[u] + 1 /\ seqNum'[CP] = seqNum[CP]
        /\ \A v \in UP \ {u} : seqNum'[v] = seqNum[v]
    BY <1>0, <2>1, <2>3, SendCounts
  <2>5. /\ upState'[u] # "starting"
        /\ \A v \in UP \ {u} : upState'[v] = upState[v]
    BY <1>1, <1>5 DEF EstablishAssociation, UPHeartbeat, ReleaseAssociation,
       upVars
  <2>6. seqNum'[u] <= MaxRequests[u] + 1
    BY <1>0, <2>3, <2>4, SMTT(30)
  <2> QED
    BY <1>0, <2>4, <2>5, <2>6, RoomOfUserPlane
<1>6. CASE UPRestart(u)
  <2>1. /\ seqNum' = [seqNum EXCEPT ![u] = 1]
        /\ upState' = [upState EXCEPT ![u] = "starting"]
    BY <1>6 DEF UPRestart, Restart
  <2>2. /\ seqNum'[u] = 1 /\ seqNum'[CP] = seqNum[CP]
        /\ \A v \in UP \ {u} : /\ seqNum'[v] = seqNum[v]
                               /\ upState'[v] = upState[v]
    BY <1>0, <1>1, <2>1
  <2>3. 1 <= MaxRequests[u] + 1
    BY <1>0, SMTT(30)
  <2> QED
    BY <1>0, <2>2, <2>3, RoomOfUserPlane
<1> QED
  BY <1>2, <1>3, <1>4, <1>5, <1>6 DEF UPGoroutine

\* A process that has just started has sent nothing and is to send nothing.
LEMMA RoomFresh ==
  ASSUME seqNum[CP] = 1, worker = [w \in Worker |-> IdleWorker],
         heartbeat = IdleHeartbeat
  PROVE  seqNum[CP] + Unsent <= MaxRequests[CP] + 1
<1>1. At({"alloc", "lookup", "send"}) = {} /\ heartbeat.todo = {}
  BY DEF At, IdleWorker, IdleHeartbeat
<1>2. Unsent = 0
  BY <1>1, FS_EmptySet, SMTT(30) DEF Unsent
<1>3. MaxRequests[CP] \in Nat \ {0}
  BY PFCPAssumption, TransportAssumption, SMTT(30)
<1> QED
  BY <1>2, <1>3, SMTT(30)

\* Between two ticks the loop has no requests to send.
LEMMA IdleHeartbeatOK ==
  /\ IdleHeartbeat \in HeartbeatRecord /\ IdleHeartbeat.todo = {}
  /\ IsFiniteSet(IdleHeartbeat.todo)
BY FS_EmptySet DEF IdleHeartbeat, HeartbeatRecord

\* A new control plane counts from 1 and has nothing to send.
LEMMA RoomCPRestart ==
  ASSUME PFCPInv, RoomInv, CPRestart, UNCHANGED upVars
  PROVE  RoomInv'
<1>1. /\ heartbeat' = IdleHeartbeat /\ worker' = [w \in Worker |-> IdleWorker]
      /\ seqNum' = [seqNum EXCEPT ![CP] = 1] /\ UNCHANGED upState
  BY DEF CPRestart, Restart, upVars
<1>2. seqNum'[CP] = 1 /\ \A u \in UP : seqNum'[u] = seqNum[u]
  BY <1>1, Homes DEF PFCPInv, TransportTypeOK
<1>3. At({"alloc", "lookup", "send"})' = {} /\ heartbeat'.todo = {}
  BY <1>1 DEF At, IdleWorker, IdleHeartbeat
<1>4. Unsent' = 0
  BY <1>3, FS_EmptySet, SMTT(30) DEF Unsent
<1>5. MaxRequests[CP] \in Nat \ {0}
  BY PFCPAssumption, TransportAssumption, SMTT(30)
<1>6. seqNum'[CP] + Unsent' <= MaxRequests[CP] + 1
  BY <1>2, <1>4, <1>5, SMTT(30)
<1>7. IsFiniteSet(heartbeat.todo)'
  BY <1>1, IdleHeartbeatOK
<1> QED
  BY <1>1, <1>2, <1>3, <1>6, <1>7, IdleHeartbeatOK DEF RoomInv

\* All processes start with every number left.
LEMMA RoomInvInit == Init => RoomInv
<1> SUFFICES ASSUME Init PROVE RoomInv
  OBVIOUS
<1>1. /\ seqNum = [e \in Endpoint |-> 1] /\ heartbeat = IdleHeartbeat
      /\ worker = [w \in Worker |-> IdleWorker]
  BY DEF Init, TransportInit, CPInit
<1>2. seqNum[CP] + Unsent <= MaxRequests[CP] + 1
  BY <1>1, Homes, RoomFresh
<1>3. \A u \in UP : MaxRequests[u] \in Nat /\ seqNum[u] = 1
  BY <1>1, PFCPAssumption, SMTT(30)
<1> QED
  BY <1>1, <1>2, <1>3, IdleHeartbeatOK, SMTT(30) DEF RoomInv

\* No step takes a number that was not counted.
LEMMA RoomInvStep == PFCPInv /\ StatesOK /\ RoomInv /\ [Next]_vars => RoomInv'
<1> SUFFICES ASSUME PFCPInv, StatesOK, RoomInv, [Next]_vars PROVE RoomInv'
  OBVIOUS
<1>1. CASE UNCHANGED vars
  BY <1>1, RoomFrame DEF vars, transportVars, cpVars, upVars
<1>2. ASSUME NEW m,
             \/ HandleAssociationSetupRequest(m)
             \/ HandleAssociationReleaseRequest(m)
             \/ CPHandleHeartbeatRequest(m) \/ CPDrop(m),
             UNCHANGED upVars
      PROVE  RoomInv'
  <2>1. UNCHANGED <<worker, heartbeat, upState, seqNum>>
    BY <1>2 DEF HandleAssociationSetupRequest, HandleAssociationReleaseRequest,
       CPHandleHeartbeatRequest, CPDrop, HandleAndAnswer, HandleSilently,
       cpVars, upVars
  <2> QED
    BY <2>1, RoomFrame
<1>3. CASE CPNext /\ UNCHANGED upVars
  BY <1>2, <1>3, RoomWorker, RoomHeartbeat, RoomCPRestart DEF CPNext
<1>4. ASSUME NEW u \in UP, NEW m, UPHandler(u, m) \/ UPDrop(u, m),
             UNCHANGED cpVars
      PROVE  RoomInv'
  <2>1. UNCHANGED <<worker, heartbeat, upState, seqNum>>
    BY <1>4 DEF UPHandler, UPDrop, HandleSessionEstablishmentRequest,
       HandleSessionDeletionRequest, UPHandleHeartbeatRequest, HandleAndAnswer,
       HandleSilently, cpVars, upVars
  <2> QED
    BY <2>1, RoomFrame
<1>5. CASE \E u \in UP : UPNext(u) /\ UNCHANGED cpVars
  BY <1>4, <1>5, RoomUserPlane DEF UPNext
<1>6. CASE \E m \in DOMAIN net : Deliver(m) \/ Duplicated(m)
  BY <1>6, RoomFrame DEF Deliver, Duplicated, DeliverToCaller, Duplicate,
     cpVars, upVars
<1> QED
  BY <1>1, <1>3, <1>5, <1>6 DEF Next

-----------------------------------------------------------------------------
(***************************************************************************)
(* What a step of the system is for the messages: the counter of a request *)
(* is not at its end, and an accepted Cause goes out in the response that  *)
(* belongs to the request.                                                 *)
(***************************************************************************)
AnswerStep(m, b) ==
  /\ HandleAndAnswer(m, b)
  /\ m.body \in Request
  /\ b.cause = CauseRequestAccepted => Replies(b, m.body)

MessageStep ==
  \/ UNCHANGED <<seqNum, net, call, restarts>>
  \/ \E c \in Caller : CallerStep(c) \/ Resume(c)
  \/ \E c \in Caller, to \in Endpoint, body \in Request :
       SendRequest(c, to, body) /\ seqNum[Home[c]] < MaxSeqNum
  \/ \E m \in DOMAIN net :
       DeliverToCaller(m) \/ Duplicate(m) \/ HandleSilently(m)
  \/ \E m \in DOMAIN net, b \in Response : AnswerStep(m, b)
  \/ \E e \in Endpoint : Restart(e)

\* The handlers of both sides answer a request with its response.
LEMMA HandlersReply ==
  ASSUME PFCPInv, NEW m \in DOMAIN net,
         \/ \E u \in UP : UPHandler(u, m)
         \/ HandleAssociationSetupRequest(m)
         \/ HandleAssociationReleaseRequest(m)
         \/ CPHandleHeartbeatRequest(m)
  PROVE  \E b \in Response : AnswerStep(m, b)
<1>0. m.body.seid \in HeaderSEID /\ m.body \in Request \cup Response
  BY BodySEID DEF PFCPInv, TransportTypeOK, Message
<1>1. m.body.type \in UPHandled \cup CPHandled
  BY DEF UPHandler, HandleSessionEstablishmentRequest, HandledAs,
     HandleSessionDeletionRequest, UPHandleHeartbeatRequest, UPHandled,
     HandleAssociationSetupRequest, HandleAssociationReleaseRequest,
     CPHandleHeartbeatRequest, CPHandled
<1>2. m.body \in Request
  BY <1>0, <1>1, HandledAreRequests
<1>3. CASE UPHandler(m.dst, m) \/ CPHandleHeartbeatRequest(m)
  <2>1. CASE UPHandleHeartbeatRequest(m.dst, m) \/ CPHandleHeartbeatRequest(m)
    <3>1. HeartbeatResponse.cause # CauseRequestAccepted
      BY SMTT(30) DEF HeartbeatResponse, Body, NoCause, CauseRequestAccepted
    <3> QED
      BY <1>2, <2>1, <3>1, BodiesCarried
         DEF AnswerStep, UPHandleHeartbeatRequest, CPHandleHeartbeatRequest
  <2>2. CASE HandleSessionEstablishmentRequest(m.dst, m)
    <3> DEFINE b == SessionEstablishmentResponse(m.body.seid,
                                                 CauseRequestAccepted)
    <3>1. HandleAndAnswer(m, b) /\ Replies(b, m.body) /\ b \in Response
      BY <1>0, <2>2, BodiesCarried
         DEF HandleSessionEstablishmentRequest, HandledAs, Replies,
             SessionEstablishmentResponse, Body
    <3> QED
      BY <1>2, <3>1 DEF AnswerStep
  <2>3. CASE HandleSessionDeletionRequest(m.dst, m)
    <3> DEFINE b == SessionDeletionResponse(m.body.seid, CauseRequestAccepted)
    <3>1. HandleAndAnswer(m, b) /\ Replies(b, m.body) /\ b \in Response
      BY <1>0, <2>3, BodiesCarried
         DEF HandleSessionDeletionRequest, HandledAs, Replies,
             SessionDeletionResponse, Body
    <3> QED
      BY <1>2, <3>1 DEF AnswerStep
  <2> QED
    BY <1>3, <2>1, <2>2, <2>3 DEF UPHandler
<1>4. CASE HandleAssociationSetupRequest(m)
  <2> DEFINE b == AssociationSetupResponse(CauseRequestAccepted)
  <2>1. HandleAndAnswer(m, b) /\ Replies(b, m.body) /\ b \in Response
    BY <1>4, BodiesCarried
       DEF HandleAssociationSetupRequest, HandledAs, Replies,
           AssociationSetupResponse, Body
  <2> QED
    BY <1>2, <2>1 DEF AnswerStep
<1>5. CASE HandleAssociationReleaseRequest(m)
  <2> DEFINE b == AssociationReleaseResponse(CauseRequestAccepted)
  <2>1. HandleAndAnswer(m, b) /\ Replies(b, m.body) /\ b \in Response
    BY <1>5, BodiesCarried
       DEF HandleAssociationReleaseRequest, HandledAs, Replies,
           AssociationReleaseResponse, Body
  <2> QED
    BY <1>2, <2>1 DEF AnswerStep
<1>6. ASSUME NEW u \in UP, UPHandler(u, m) PROVE UPHandler(m.dst, m)
  BY <1>6 DEF UPHandler, HandleSessionEstablishmentRequest, HandledAs,
     HandleSessionDeletionRequest, UPHandleHeartbeatRequest
<1> QED
  BY <1>3, <1>4, <1>5, <1>6

\* A gRPC call sends its request with a number left.
LEMMA WorkerMessages ==
  ASSUME PFCPInv, RoomInv, NEW w \in Worker,
         \/ WorkerStep(w)
         \/ \E u \in UP, r \in Rules : CreateSession(w, u, r)
         \/ \E s \in DOMAIN sessions : DeleteSession(w, s)
  PROVE  MessageStep
<1>0. /\ w \in Caller /\ Home[w] = CP
      /\ worker[w] \in WorkerRecord /\ WorkerOK(worker[w])
  BY Homes DEF PFCPInv, ControlInv, WorkersOK
<1>1. CASE SendEstablishment(w) \/ SendDeletion(w)
  <2>1. worker[w].pc = "send" /\ worker[w].node \in Endpoint
    BY <1>0, <1>1, Homes DEF SendEstablishment, SendDeletion, WorkerOK
  <2>2. seqNum[CP] < MaxSeqNum
    BY <2>1, RoomLeft DEF SendPCs
  <2>3. CASE SendEstablishment(w)
    <3>1. SessionEstablishmentRequest(0, worker[w].rules) \in Request
      BY <1>0, <2>3, BodiesCarried DEF SendEstablishment, WorkerOK
    <3> QED
      BY <1>0, <2>1, <2>2, <2>3, <3>1 DEF MessageStep, SendEstablishment
  <2>4. CASE SendDeletion(w)
    <3>1. SessionDeletionRequest(worker[w].remoteSEID) \in Request
      BY <1>0, BodiesCarried DEF WorkerRecord
    <3> QED
      BY <1>0, <2>1, <2>2, <2>4, <3>1 DEF MessageStep, SendDeletion
  <2> QED
    BY <1>1, <2>3, <2>4
<1>2. CASE CallerStep(w) \/ EstablishmentDone(w) \/ DeletionDone(w)
  BY <1>0, <1>2 DEF MessageStep, EstablishmentDone, DeletionDone
<1>3. CASE \/ AllocSEID(w) \/ InsertSession(w) \/ StoreSession(w)
           \/ FindAssociation(w) \/ RemoveSession(w) \/ StoreDeleteSession(w)
           \/ \E u \in UP, r \in Rules : CreateSession(w, u, r)
           \/ \E s \in DOMAIN sessions : DeleteSession(w, s)
  <2>1. UNCHANGED transportVars
    BY <1>3 DEF AllocSEID, InsertSession, StoreSession, FindAssociation,
       RemoveSession, StoreDeleteSession, StoreWrite, CreateSession,
       DeleteSession
  <2> QED
    BY <2>1 DEF MessageStep, transportVars
<1> QED
  BY <1>1, <1>2, <1>3 DEF WorkerStep

\* Every step of the system is one of those.
LEMMA StepIsMessageStep == PFCPInv /\ RoomInv /\ [Next]_vars => MessageStep
<1> SUFFICES ASSUME PFCPInv, RoomInv, [Next]_vars PROVE MessageStep
  OBVIOUS
<1>1. CASE UNCHANGED transportVars
  BY <1>1 DEF MessageStep, transportVars
<1>2. CASE HeartbeatTick \/ HeartbeatStep
  <2>1. CASE SendHeartbeat
    <3>1. PICK a \in heartbeat.todo : SendRequest(HB, a[1], HeartbeatRequest)
      BY <2>1 DEF SendHeartbeat
    <3>2. seqNum[CP] < MaxSeqNum /\ a[1] \in Endpoint
      BY RoomLeft, Homes DEF PFCPInv, HeartbeatOK
    <3> QED
      BY <3>1, <3>2, Homes, BodiesCarried DEF MessageStep
  <2>2. CASE HeartbeatTick
    BY <1>1, <2>2 DEF HeartbeatTick
  <2>3. CASE CallerStep(HB) \/ HeartbeatDone
    BY <2>3, Homes DEF MessageStep, HeartbeatDone
  <2> QED
    BY <1>2, <2>1, <2>2, <2>3 DEF HeartbeatStep
<1>3. ASSUME NEW u \in UP,
             EstablishAssociation(u) \/ UPHeartbeat(u) \/ ReleaseAssociation(u)
      PROVE  MessageStep
  <2>1. PICK body \in Request : SendRequest(u, CP, body)
    BY <1>3, BodiesCarried
       DEF EstablishAssociation, UPHeartbeat, ReleaseAssociation
  <2>2. HasRoom(u) \/ upState[u] = "starting"
    BY <1>3 DEF EstablishAssociation, UPHeartbeat, ReleaseAssociation
  <2>3. seqNum[u] < MaxSeqNum /\ u \in Caller /\ Home[u] = u /\ CP \in Endpoint
    BY <2>2, RoomLeft, Homes
  <2> QED
    BY <2>1, <2>3 DEF MessageStep
<1>4. ASSUME NEW u \in UP,
             CallerStep(u) \/ AssociationDone(u) \/ UPHeartbeatDone(u)
      PROVE  MessageStep
  BY <1>4, Homes DEF MessageStep, AssociationDone, UPHeartbeatDone
<1>5. CASE CPRestart \/ \E u \in UP : UPRestart(u)
  BY <1>5, Homes DEF MessageStep, CPRestart, UPRestart
<1>6. ASSUME NEW m \in DOMAIN net,
             \/ \E u \in UP : UPHandler(u, m)
             \/ HandleAssociationSetupRequest(m)
             \/ HandleAssociationReleaseRequest(m)
             \/ CPHandleHeartbeatRequest(m)
      PROVE  MessageStep
  BY <1>6, HandlersReply DEF MessageStep
<1>7. ASSUME NEW m \in DOMAIN net,
             \/ CPDrop(m) \/ Deliver(m) \/ Duplicated(m)
             \/ \E u \in UP : UPDrop(u, m)
      PROVE  MessageStep
  BY <1>7 DEF MessageStep, CPDrop, UPDrop, Deliver, Duplicated
<1>8. CASE CPNext
  BY <1>2, <1>5, <1>6, <1>7, <1>8, WorkerMessages DEF CPNext
<1>9. ASSUME NEW u \in UP, UPNext(u) PROVE MessageStep
  BY <1>3, <1>4, <1>5, <1>6, <1>7, <1>9 DEF UPNext, UPGoroutine
<1> QED
  BY <1>1, <1>7, <1>8, <1>9 DEF Next, vars

-----------------------------------------------------------------------------
(***************************************************************************)
(* AnswerInv.                                                              *)
(***************************************************************************)

\* A response is no request.
LEMMA ResponsesAreNoRequests ==
  ASSUME NEW b \in Response
  PROVE  b \notin Request
<1>1. b.type \in {"HeartbeatResponse", "AssociationSetupResponse",
                  "AssociationReleaseResponse", "SessionEstablishmentResponse",
                  "SessionDeletionResponse"}
  BY PFCPAssumption, SMTT(30)
     DEF ResponseBody, Body, HeartbeatResponse, AssociationSetupResponse,
         AssociationReleaseResponse, SessionEstablishmentResponse,
         SessionDeletionResponse
<1>2. \A r \in Request : r.type \in
        {"HeartbeatRequest", "AssociationSetupRequest",
         "AssociationReleaseRequest", "SessionEstablishmentRequest",
         "SessionDeletionRequest"}
  BY PFCPAssumption, SMTT(30)
     DEF RequestBody, Body, HeartbeatRequest, AssociationSetupRequest,
         AssociationReleaseRequest, SessionEstablishmentRequest,
         SessionDeletionRequest
<1> QED
  BY <1>1, <1>2

\* The call has just taken its number.
Entered(c) ==
  /\ call'[c].seq = seqNum[Home[c]]
  /\ call'[c].seq < seqNum'[Home[c]]
  /\ HeldBy(c)' = {}

(***************************************************************************)
(* A step keeps the invariant when the messages S it leaves in the network *)
(* already satisfy it, and a call that starts takes a new number.          *)
(***************************************************************************)
LEMMA AnswerFrame ==
  ASSUME TransportInv, TransportInv', AnswerInv,
         \A e \in Endpoint :
           FirstLife(e)' => FirstLife(e) /\ seqNum[e] <= seqNum'[e],
         \A c \in Caller : Quiet(c) \/ Entered(c),
         NEW S, DOMAIN net \subseteq S, DOMAIN net' \subseteq S, S \subseteq Message,
         \A m \in S : RequestOK(m) /\ ReplyOK(m),
         \A m, n \in S : SameRequest(m, n)
  PROVE  AnswerInv'
<1>0. /\ seqNum \in [Endpoint -> SeqNums] /\ seqNum' \in [Endpoint -> SeqNums]
      /\ \A e \in Endpoint : seqNum[e] \in Nat /\ seqNum'[e] \in Nat
      /\ \A c \in Caller : /\ Home[c] \in Endpoint
                           /\ call[c].seq \in Nat /\ call'[c].seq \in Nat
      /\ \A m \in S : m.seq \in Nat /\ m.src \in Endpoint /\ m.dst \in Endpoint
  <2>1. /\ seqNum \in [Endpoint -> SeqNums]
        /\ seqNum' \in [Endpoint -> SeqNums]
    BY DEF TransportInv, TransportTypeOK
  <2>2. SeqNums \subseteq Nat
    BY SMTT(30) DEF SeqNums
  <2>3. \A e \in Endpoint : seqNum[e] \in Nat /\ seqNum'[e] \in Nat
    BY <2>1, <2>2
  <2>4. \A c \in Caller : /\ Home[c] \in Endpoint
                          /\ call[c].seq \in Nat /\ call'[c].seq \in Nat
    <3>1. \A c \in Caller : call[c] \in CallRecord /\ call'[c] \in CallRecord
      BY DEF TransportInv, TransportTypeOK
    <3> QED
      BY <2>2, <3>1, TransportAssumption, FieldsType
  <2>5. \A m \in S : m.seq \in Nat /\ m.src \in Endpoint /\ m.dst \in Endpoint
    BY <2>2 DEF Message
  <2> QED
    BY <2>1, <2>3, <2>4, <2>5
<1>1. ASSUME NEW c \in Caller, Quiet(c), InFlight(c)'
      PROVE  /\ InFlight(c) /\ RequestOf(c)' = RequestOf(c)
             /\ call'[c].seq = call[c].seq
             /\ \A m : Answers(m, c)' <=> Answers(m, c)
  <2>1. InFlight(c) /\ RequestOf(c)' = RequestOf(c)
    BY <1>1 DEF Quiet
  <2>2. /\ call'[c].to = call[c].to /\ call'[c].seq = call[c].seq
        /\ call'[c].body = call[c].body
    BY <2>1 DEF RequestOf
  <2> QED
    BY <2>1, <2>2 DEF Answers
<1>2. ASSUME NEW m \in S PROVE RequestOK(m)'
  <2> SUFFICES ASSUME m.body \in Request, FirstLife(m.src)'
               PROVE  /\ m.seq < seqNum'[m.src]
                      /\ \A c \in Caller :
                           (InFlight(c)' /\ Home[c] = m.src /\ call'[c].seq = m.seq)
                             => m = RequestOf(c)'
    BY DEF RequestOK
  <2>1. /\ FirstLife(m.src) /\ m.seq < seqNum[m.src]
        /\ m.seq < seqNum'[m.src]
    BY <1>0, SMTT(30) DEF RequestOK
  <2>2. ASSUME NEW c \in Caller, InFlight(c)', Home[c] = m.src,
               call'[c].seq = m.seq
        PROVE  m = RequestOf(c)'
    <3>1. ~Entered(c)
      BY <1>0, <2>1, <2>2, SMTT(30) DEF Entered
    <3> QED
      BY <1>1, <2>1, <2>2, <3>1 DEF RequestOK
  <2> QED
    BY <2>1, <2>2
<1>3. ASSUME NEW m \in S PROVE ReplyOK(m)'
  <2> SUFFICES ASSUME m.body.cause = CauseRequestAccepted, FirstLife(m.dst)'
               PROVE  /\ m.seq < seqNum'[m.dst]
                      /\ \A c \in Caller :
                           (InFlight(c)' /\ Home[c] = m.dst /\ call'[c].seq = m.seq)
                             => Answers(m, c)'
    BY DEF ReplyOK
  <2>1. /\ FirstLife(m.dst) /\ m.seq < seqNum[m.dst]
        /\ m.seq < seqNum'[m.dst]
    BY <1>0, SMTT(30) DEF ReplyOK
  <2>2. ASSUME NEW c \in Caller, InFlight(c)', Home[c] = m.dst,
               call'[c].seq = m.seq
        PROVE  Answers(m, c)'
    <3>1. ~Entered(c)
      BY <1>0, <2>1, <2>2, SMTT(30) DEF Entered
    <3> QED
      BY <1>1, <2>1, <2>2, <3>1 DEF ReplyOK
  <2> QED
    BY <2>1, <2>2
<1>4. ASSUME NEW c \in Caller PROVE NumberTaken(c)'
  BY <1>0, <1>1, SMTT(30) DEF NumberTaken, Entered, AnswerInv
<1>5. ASSUME NEW c \in Caller PROVE HeldOK(c)'
  <2> SUFFICES ASSUME InFlight(c)', FirstLife(Home[c])', NEW m \in HeldBy(c)',
                      m.body.cause = CauseRequestAccepted
               PROVE  Answers(m, c)'
    BY DEF HeldOK
  <2>1. Quiet(c) /\ InFlight(c) /\ FirstLife(Home[c])
    BY <1>0, <1>1 DEF Entered
  <2>2. Answers(m, c)
    <3>1. CASE m \in HeldBy(c)
      BY <2>1, <3>1 DEF HeldOK, AnswerInv
    <3>2. CASE m \in DOMAIN net
      <4>1. m.dst = Home[c] /\ m.seq = call'[c].seq
        <5>1. LocalsOK(c, call[c])'
          BY DEF TransportInv
        <5>2. call'[c].chan = <<m>> \/ call'[c].resp = <<m>>
          BY DEF HeldBy
        <5>3. <<m>> # <<>> /\ <<m>>[1] = m
          OBVIOUS
        <5> QED
          BY <5>1, <5>2, <5>3, SMTT(30) DEF LocalsOK
      <4> QED
        BY <1>1, <2>1, <3>2, <4>1 DEF ReplyOK
    <3> QED
      BY <2>1, <3>1, <3>2 DEF Quiet
  <2> QED
    BY <1>1, <2>1, <2>2
<1>6. ASSUME NEW m \in S, NEW n \in S PROVE SameRequest(m, n)'
  BY <1>0, <1>6 DEF SameRequest
<1> QED
  BY <1>2, <1>3, <1>4, <1>5, <1>6 DEF AnswerInv

\* A copy of the request of a call in flight is as it should be.
LEMMA CopyOK ==
  ASSUME TransportInv, AnswerInv, NEW c \in Caller, InFlight(c)
  PROVE  LET x == RequestOf(c) IN
         /\ x \in Message /\ RequestOK(x) /\ ReplyOK(x)
         /\ \A n \in DOMAIN net : SameRequest(x, n) /\ SameRequest(n, x)
<1> DEFINE x == RequestOf(c)
<1>1. x \in Message
  BY RequestOfType DEF TransportInv
<1>2. x.src = Home[c] /\ x.seq = call[c].seq /\ x.body = call[c].body
  BY DEF RequestOf
<1>3. x.body \in Request
  BY <1>2, FieldsType DEF TransportInv, TransportTypeOK
<1>4. ReplyOK(x)
  BY <1>3, RequestsHaveNoCause DEF ReplyOK
<1>5. \A d \in Caller :
        InFlight(d) /\ Home[d] = Home[c] /\ call[d].seq = call[c].seq => d = c
  BY NumbersDistinct DEF TransportInv
<1>6. RequestOK(x)
  BY <1>2, <1>5 DEF RequestOK, AnswerInv, NumberTaken
<1>7. ASSUME NEW n \in DOMAIN net, n.body \in Request, n.src = x.src,
             n.seq = x.seq, FirstLife(x.src)
      PROVE  n = x
  BY <1>2, <1>7 DEF AnswerInv, RequestOK
<1>8. ASSUME NEW n \in DOMAIN net PROVE SameRequest(x, n) /\ SameRequest(n, x)
  BY <1>7 DEF SameRequest
<1> QED
  BY <1>1, <1>4, <1>6, <1>8

\* The answer to a request in the network is as it should be.
LEMMA AnswerOK ==
  ASSUME TransportInv, AnswerInv, NEW m \in DOMAIN net, NEW b \in Response,
         AnswerStep(m, b)
  PROVE  LET x == [src |-> m.dst, dst |-> m.src, seq |-> m.seq, body |-> b] IN
         /\ x \in Message /\ RequestOK(x) /\ ReplyOK(x)
         /\ \A n \in DOMAIN net : SameRequest(x, n) /\ SameRequest(n, x)
<1> DEFINE x == [src |-> m.dst, dst |-> m.src, seq |-> m.seq, body |-> b]
<1>0. m \in Message /\ m.body \in Request /\ RequestOK(m)
  BY DEF TransportInv, TransportTypeOK, AnswerStep, AnswerInv
<1>1. x \in Message
  BY <1>0 DEF Message
<1>2. x.body \notin Request
  BY ResponsesAreNoRequests
<1>3. ReplyOK(x)
  <2> SUFFICES ASSUME b.cause = CauseRequestAccepted, FirstLife(m.src)
               PROVE  /\ m.seq < seqNum[m.src]
                      /\ \A c \in Caller :
                           InFlight(c) /\ Home[c] = m.src /\ call[c].seq = m.seq
                             => Answers(x, c)
    BY DEF ReplyOK
  <2>1. Replies(b, m.body) /\ m.seq < seqNum[m.src]
    BY <1>0 DEF AnswerStep, RequestOK
  <2>2. ASSUME NEW c \in Caller,
               InFlight(c), Home[c] = m.src, call[c].seq = m.seq
        PROVE  Answers(x, c)
    <3>1. m = RequestOf(c)
      BY <1>0, <2>2 DEF RequestOK
    <3>2. m.dst = call[c].to /\ m.body = call[c].body
      BY <3>1 DEF RequestOf
    <3> QED
      BY <2>1, <3>2 DEF Answers
  <2> QED
    BY <2>1, <2>2
<1> QED
  BY <1>1, <1>2, <1>3 DEF RequestOK, SameRequest

\* NewTransport has given out no number.
LEMMA AnswerInvInit == Init => AnswerInv
<1> SUFFICES ASSUME Init PROVE AnswerInv
  OBVIOUS
<1>1. DOMAIN net = {}
  BY DEF Init, TransportInit, EmptyNet
<1>2. \A c \in Caller : ~InFlight(c)
  BY DEF Init, TransportInit, InFlight, IdleCall
<1> QED
  BY <1>1, <1>2 DEF AnswerInv, NumberTaken, HeldOK

(***************************************************************************)
(* What a step does to the numbers and the calls, as long as the endpoint  *)
(* lives: numbers only go up, and only a call that starts takes one.       *)
(***************************************************************************)
LEMMA MessageStepEffect ==
  ASSUME TransportInv, MessageStep
  PROVE  /\ \A e \in Endpoint :
              FirstLife(e)' => FirstLife(e) /\ seqNum[e] <= seqNum'[e]
         /\ \A c \in Caller : Quiet(c) \/ Entered(c)
<1>0. TransportTypeOK /\ \A e \in Endpoint : seqNum[e] \in Nat
  BY SMTT(30) DEF TransportInv, TransportTypeOK, SeqNums
<1>1. ASSUME UNCHANGED <<seqNum, restarts>>, NEW e \in Endpoint, FirstLife(e)'
      PROVE  FirstLife(e) /\ seqNum[e] <= seqNum'[e]
  BY <1>0, <1>1, SMTT(30) DEF FirstLife
<1>2. CASE UNCHANGED <<seqNum, net, call, restarts>>
  BY <1>1, <1>2, CallsAlone
<1>3. ASSUME NEW c \in Caller, CallerStep(c) \/ Resume(c)
      PROVE  UNCHANGED <<seqNum, restarts>> /\ \A d \in Caller : Quiet(d)
  BY <1>0, <1>3, CallerStepEffect
     DEF CallerStep, Register, Transmit, Retransmit, GiveUp, SendError,
         TakeResponse, TransportClosed, Unregister, Resume
<1>4. ASSUME NEW c \in Caller, NEW to \in Endpoint, NEW body \in Request,
             SendRequest(c, to, body), seqNum[Home[c]] < MaxSeqNum
      PROVE  /\ \A e \in Endpoint :
                  FirstLife(e)' => FirstLife(e) /\ seqNum[e] <= seqNum'[e]
             /\ \A d \in Caller : Quiet(d) \/ Entered(d)
  <2> DEFINE e == Home[c]
  <2>1. /\ \A d \in Caller \ {c} : Quiet(d)
        /\ HeldBy(c)' = {} /\ restarts' = restarts
    BY <1>0, <1>4, SendEffect
  <2>2. e \in Endpoint /\ seqNum[e] \in Nat /\ seqNum[e] + 1 <= MaxSeqNum
    BY <1>0, <1>4, TransportAssumption, SMTT(30)
  <2>3. seqNum' = [seqNum EXCEPT ![e] = seqNum[e] + 1]
    <3>1. NextSeqNum(seqNum[e]) = seqNum[e] + 1
      BY <2>2, TransportAssumption, SMTT(30) DEF NextSeqNum
    <3> QED
      BY <1>4, <3>1 DEF SendRequest
  <2>4. /\ seqNum'[e] = seqNum[e] + 1
        /\ \A f \in Endpoint \ {e} : seqNum'[f] = seqNum[f]
    BY <1>0, <2>2, <2>3 DEF TransportTypeOK
  <2>5. call'[c].seq = seqNum[e]
    <3> DEFINE r == [IdleCall(c) EXCEPT !.st = "numbered", !.to = to,
                                        !.body = body, !.seq = seqNum[e]]
    <3>1. SetCall(c, r) /\ r.seq = seqNum[e]
      BY <1>4 DEF SendRequest, IdleCall
    <3> HIDE DEF r
    <3> QED
      BY <1>0, <3>1, SetCallEffect DEF TransportTypeOK
  <2>6. Entered(c)
    BY <2>1, <2>2, <2>4, <2>5, SMTT(30) DEF Entered
  <2>7. \A f \in Endpoint :
          FirstLife(f)' => FirstLife(f) /\ seqNum[f] <= seqNum'[f]
    BY <1>0, <2>1, <2>2, <2>4, SMTT(30) DEF FirstLife
  <2> QED
    BY <2>1, <2>6, <2>7
<1>5. ASSUME NEW m \in DOMAIN net,
             DeliverToCaller(m) \/ Duplicate(m) \/ HandleSilently(m)
      PROVE  UNCHANGED <<seqNum, restarts>> /\ \A d \in Caller : Quiet(d)
  <2>1. UNCHANGED <<seqNum, restarts>>
    BY <1>5 DEF DeliverToCaller, Duplicate, HandleSilently
  <2> QED
    BY <1>0, <1>5, <2>1, DeliverEffect, CallsAlone DEF Duplicate, HandleSilently
<1>6. ASSUME NEW m \in DOMAIN net, NEW b \in Response, AnswerStep(m, b)
      PROVE  UNCHANGED <<seqNum, restarts>> /\ \A d \in Caller : Quiet(d)
  BY <1>6, CallsAlone DEF AnswerStep, HandleAndAnswer
<1>7. ASSUME NEW e \in Endpoint, Restart(e)
      PROVE  /\ \A f \in Endpoint :
                  FirstLife(f)' => FirstLife(f) /\ seqNum[f] <= seqNum'[f]
             /\ \A d \in Caller : Quiet(d)
  <2>1. /\ \A d \in Caller : Quiet(d)
        /\ restarts'[e] # 0
        /\ \A f \in Endpoint \ {e} : restarts'[f] = restarts[f]
    BY <1>0, <1>7, RestartEffect
  <2>2. \A f \in Endpoint \ {e} : seqNum'[f] = seqNum[f]
    BY <1>0, <1>7 DEF Restart, TransportTypeOK
  <2> QED
    BY <1>0, <2>1, <2>2, SMTT(30) DEF FirstLife
<1> QED
  BY <1>1, <1>2, <1>3, <1>4, <1>5, <1>6, <1>7 DEF MessageStep

\* What the messages of a step leave in the network satisfies AnswerInv.
LEMMA AnswerInvStep ==
  TransportInv /\ TransportInv' /\ AnswerInv /\ MessageStep => AnswerInv'
<1> SUFFICES ASSUME TransportInv, TransportInv', AnswerInv, MessageStep
             PROVE  AnswerInv'
  OBVIOUS
<1>0. /\ TransportTypeOK /\ DOMAIN net \subseteq Message
      /\ \A m \in DOMAIN net : RequestOK(m) /\ ReplyOK(m)
      /\ \A m, n \in DOMAIN net : SameRequest(m, n)
  BY DEF TransportInv, TransportTypeOK, AnswerInv
<1>1. ASSUME DOMAIN net' \subseteq DOMAIN net PROVE AnswerInv'
  BY <1>0, <1>1, MessageStepEffect, AnswerFrame
<1>2. ASSUME NEW x \in Message, DOMAIN net' \subseteq DOMAIN net \cup {x},
             RequestOK(x), ReplyOK(x),
             \A n \in DOMAIN net : SameRequest(x, n) /\ SameRequest(n, x)
      PROVE  AnswerInv'
  <2>1. DOMAIN net \cup {x} \subseteq Message
    BY <1>0
  <2>2. SameRequest(x, x)
    BY DEF SameRequest
  <2>3. /\ \A m \in DOMAIN net \cup {x} : RequestOK(m) /\ ReplyOK(m)
        /\ \A m, n \in DOMAIN net \cup {x} : SameRequest(m, n)
    BY <1>0, <1>2, <2>2
  <2> QED
    BY <1>2, <2>1, <2>3, MessageStepEffect, AnswerFrame
<1>3. CASE \/ UNCHANGED <<seqNum, net, call, restarts>>
           \/ \E e \in Endpoint : Restart(e)
  BY <1>1, <1>3 DEF Restart
<1>4. ASSUME NEW c \in Caller, CallerStep(c) \/ Resume(c) PROVE AnswerInv'
  <2>1. DOMAIN net' \subseteq
          DOMAIN net \cup (IF InFlight(c) THEN {RequestOf(c)} ELSE {})
    BY <1>0, <1>4, CallerStepEffect
  <2>2. CASE InFlight(c)
    BY <1>2, <2>1, <2>2, CopyOK
  <2>3. CASE ~InFlight(c)
    BY <1>1, <2>1, <2>3
  <2> QED
    BY <2>2, <2>3
<1>5. ASSUME NEW c \in Caller, NEW to \in Endpoint, NEW body \in Request,
             SendRequest(c, to, body)
      PROVE  AnswerInv'
  BY <1>1, <1>5 DEF SendRequest
<1>6. ASSUME NEW m \in DOMAIN net,
             DeliverToCaller(m) \/ Duplicate(m) \/ HandleSilently(m)
      PROVE  AnswerInv'
  <2>1. DOMAIN net' \subseteq DOMAIN net
    BY <1>6, NetDomain, SMTT(30) DEF DeliverToCaller, Duplicate, HandleSilently
  <2> QED
    BY <1>1, <2>1
<1>7. ASSUME NEW m \in DOMAIN net, NEW b \in Response, AnswerStep(m, b)
      PROVE  AnswerInv'
  <2> DEFINE x == [src |-> m.dst, dst |-> m.src, seq |-> m.seq, body |-> b]
  <2>1. net' = Put(Take(net, m), x)
    BY <1>7 DEF AnswerStep, HandleAndAnswer
  <2>2. DOMAIN net' \subseteq DOMAIN net \cup {x}
    BY <2>1, NetDomain, SMTT(30)
  <2>3. /\ x \in Message /\ RequestOK(x) /\ ReplyOK(x)
        /\ \A n \in DOMAIN net : SameRequest(x, n) /\ SameRequest(n, x)
    BY <1>7, AnswerOK
  <2> HIDE DEF x
  <2> QED
    BY <1>2, <2>2, <2>3
<1> QED
  BY <1>3, <1>4, <1>5, <1>6, <1>7 DEF MessageStep

\* In every state of the system, the invariants this module builds on.
LEMMA SystemInvariant ==
  Spec => [](TransportInv /\ PFCPInv /\ AssociationInv /\ RoomInv)
<1>1. Spec => []TransportInv
  BY PFCPImplementsTransport, TransportInvariant, PTL
<1>2. AssociationInv => StatesOK
  BY DEF AssociationInv
<1> QED
  BY <1>1, <1>2, PFCPInvariant, AssociationInvariant, RoomInvInit, RoomInvStep,
     PTL DEF Spec

\* AnswerInv holds in every state of the system.
THEOREM AnswerInvariant == Spec => []AnswerInv
BY SystemInvariant, AnswerInvInit, StepIsMessageStep, AnswerInvStep, PTL DEF Spec

(***************************************************************************)
(* In a process that never restarted, a call that reads an accepted Cause  *)
(* reads the response its addressee gave to the very request of the call,  *)
(* although handleMessage looks at nothing but the number: for every       *)
(* number of goroutines, user planes and sessions and every loss, delay,   *)
(* reordering and duplication of datagrams.                                *)
(***************************************************************************)
THEOREM CausesAreAnswers == Spec => []CauseIsAnswer
<1>1. ASSUME TransportInv, AnswerInv PROVE CauseIsAnswer
  <2> SUFFICES ASSUME NEW c \in Caller, restarts[Home[c]] = 0, Accepted(c)
               PROVE  Answers(call[c].resp[1], c)
    BY DEF CauseIsAnswer
  <2>1. call[c].resp # <<>> /\ call[c].resp \in Option(Message)
    BY <1>1, FieldsType DEF Accepted, TransportInv, TransportTypeOK
  <2>2. PICK m \in Message : call[c].resp = <<m>>
    BY <2>1 DEF Option
  <2>3. InFlight(c)
    BY <1>1, <2>1 DEF TransportInv, LocalsOK, InFlight
  <2>4. m \in HeldBy(c) /\ call[c].resp[1] = m
    BY <2>2, SMTT(30) DEF HeldBy
  <2> QED
    BY <1>1, <2>3, <2>4 DEF AnswerInv, HeldOK, FirstLife, Accepted
<1> QED
  BY <1>1, SystemInvariant, AnswerInvariant, PTL
=============================================================================
