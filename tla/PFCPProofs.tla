----------------------------- MODULE PFCPProofs -----------------------------
(***************************************************************************)
(* Proofs about PFCP: it implements TransportSpec, so that the theorems    *)
(* about the transports hold of the system; concurrent gRPC calls do not   *)
(* share a SEID; the northbound store follows the sessions; and a user     *)
(* plane whose Start took its association for established is known to the  *)
(* control plane.                                                          *)
(***************************************************************************)
EXTENDS PFCP, TransportProofs

\* Zenon tries a step first; a step with arithmetic or records names SMT.
USE ZenonT(20), SMTT(30)

WorkerPC ==
  {"idle", "alloc", "send", "sending", "insert", "store", "lookup", "remove",
   "unstore"}

WorkerRecord ==
  [op: {"none", "create", "delete"}, pc: WorkerPC, node: {CP} \cup UP,
   seid: Nat, rules: Rules \cup {NoRules}, remoteSEID: HeaderSEID, req: Nat]

\* What the locals of CreateSession and DeleteSession are at each point.
WorkerOK(r) ==
  /\ r.pc # "idle" => r.node \in UP
  /\ r.op = "create" => r.rules \in Rules
  /\ r.pc \in {"alloc", "insert", "store"} => r.op = "create"
  /\ r.pc \in {"lookup", "remove", "unstore"} => r.op = "delete"

WorkersOK ==
  /\ worker \in [Worker -> WorkerRecord]
  /\ \A w \in Worker : WorkerOK(worker[w])

SessionsOK ==
  \A s \in DOMAIN sessions : /\ sessions[s].node \in UP
                             /\ sessions[s].remoteSEID \in HeaderSEID

HeartbeatOK == \A a \in heartbeat.todo : a[1] \in UP

(***************************************************************************)
(* SEIDsUnique, and what it rests on: SEIDs are given out in order, and a  *)
(* SEID that is in sessions, or was when a DeleteSession looked it up, or  *)
(* is about to be stored, is no longer held by a CreateSession.            *)
(***************************************************************************)
Uses(w) == worker[w].op = "delete" \/ worker[w].pc = "store"

SEIDInv ==
  /\ nextSEID \in Nat
  /\ \A s \in DOMAIN sessions : s \in Nat /\ s < nextSEID
  /\ SEIDsUnique
  /\ \A w \in Worker : Uses(w) =>
       /\ worker[w].seid < nextSEID
       /\ \A v \in Worker : Holds(v) => worker[v].seid # worker[w].seid

(***************************************************************************)
(* StoreFollowsSessions, and what it rests on: the SEID a DeleteSession is *)
(* about to delete from the store is in sessions no more, and the one a    *)
(* CreateSession is about to store is there, or about to be deleted.       *)
(***************************************************************************)
StoreInv ==
  /\ raced \in BOOLEAN
  /\ StoreFollowsSessions
  /\ AboutTo("unstore") \cap DOMAIN sessions = {}
  /\ ~raced => AboutTo("store") \subseteq DOMAIN sessions \cup AboutTo("unstore")

ControlInv == WorkersOK /\ SessionsOK /\ SEIDInv /\ StoreInv

PFCPInv == TransportTypeOK /\ ControlInv /\ HeartbeatOK

-----------------------------------------------------------------------------
(***************************************************************************)
(* The messages.                                                           *)
(***************************************************************************)

\* Every body the constructors of messages.go make has a SEID of a header.
LEMMA BodySEID ==
  ASSUME NEW b \in Request \cup Response
  PROVE  b.seid \in HeaderSEID
<1>1. 0 \in HeaderSEID
  BY TransportAssumption, SMTT(30) DEF HeaderSEID
<1> QED
  BY <1>1, PFCPAssumption, SMTT(30)
     DEF RequestBody, ResponseBody, Body, HeartbeatRequest, HeartbeatResponse,
         AssociationSetupRequest, AssociationSetupResponse,
         AssociationReleaseRequest, AssociationReleaseResponse,
         SessionEstablishmentRequest, SessionEstablishmentResponse,
         SessionDeletionRequest, SessionDeletionResponse

\* The types the handlers are registered for are those of requests.
LEMMA HandledAreRequests ==
  ASSUME NEW b \in Request \cup Response, b.type \in UPHandled \cup CPHandled
  PROVE  b \in Request
BY PFCPAssumption, SMTT(30)
   DEF UPHandled, CPHandled, ResponseBody, Body, HeartbeatResponse,
       AssociationSetupResponse, AssociationReleaseResponse,
       SessionEstablishmentResponse, SessionDeletionResponse

\* The requests and the responses of both sides are ones the transports carry.
LEMMA BodiesCarried ==
  /\ {HeartbeatRequest, AssociationSetupRequest, AssociationReleaseRequest}
       \subseteq Request
  /\ \A r \in Rules : SessionEstablishmentRequest(0, r) \in Request
  /\ \A s \in HeaderSEID :
       /\ SessionDeletionRequest(s) \in Request
       /\ SessionEstablishmentResponse(s, CauseRequestAccepted) \in Response
       /\ SessionDeletionResponse(s, CauseRequestAccepted) \in Response
  /\ {HeartbeatResponse, AssociationSetupResponse(CauseRequestAccepted),
      AssociationReleaseResponse(CauseRequestAccepted)} \subseteq Response
BY PFCPAssumption DEF RequestBody, ResponseBody

\* Where the goroutines run.
LEMMA Homes ==
  /\ \A w \in Worker \cup {HB} : w \in Caller /\ Home[w] = CP
  /\ \A u \in UP : u \in Caller /\ Home[u] = u /\ u \in Endpoint \ {CP}
  /\ CP \in Endpoint
BY PFCPAssumption

\* SendRequest as the two sides use it is a step of the transports.
LEMMA SendIsStep ==
  ASSUME NEW c \in Caller, NEW to \in Endpoint \ {Home[c]},
         NEW body \in Request, SendRequest(c, to, body)
  PROVE  TransportNext
BY DEF TransportNext

\* So is a handler that answers.
LEMMA AnswerIsStep ==
  ASSUME TransportTypeOK, NEW m \in DOMAIN net, NEW body \in Response,
         m.body.type \in UPHandled \cup CPHandled, HandleAndAnswer(m, body)
  PROVE  TransportNext
<1>1. m.body \in Request
  BY HandledAreRequests DEF TransportTypeOK, Message
<1> QED
  BY <1>1 DEF TransportNext, HandlerStep

-----------------------------------------------------------------------------
(***************************************************************************)
(* Every step of PFCP is one of the transports, or leaves them alone.      *)
(***************************************************************************)

\* The steps of the gRPC goroutines.
LEMMA WorkerIsStep ==
  ASSUME PFCPInv, NEW w \in Worker,
         \/ WorkerStep(w)
         \/ \E u \in UP, r \in Rules : CreateSession(w, u, r)
         \/ \E s \in DOMAIN sessions : DeleteSession(w, s)
  PROVE  TransportNext \/ UNCHANGED transportVars
<1>0. /\ w \in Caller /\ Home[w] = CP
      /\ worker[w] \in WorkerRecord /\ WorkerOK(worker[w])
  BY Homes DEF PFCPInv, ControlInv, WorkersOK
<1>1. CASE SendEstablishment(w)
  <2>1. worker[w].node \in Endpoint \ {CP} /\ worker[w].rules \in Rules
    BY <1>0, <1>1, Homes DEF SendEstablishment, WorkerOK
  <2> QED
    BY <1>0, <1>1, <2>1, BodiesCarried, SendIsStep DEF SendEstablishment
<1>2. CASE SendDeletion(w)
  <2>1. worker[w].node \in Endpoint \ {CP}
    BY <1>0, <1>2, Homes DEF SendDeletion, WorkerOK
  <2>2. worker[w].remoteSEID \in HeaderSEID
    BY <1>0 DEF WorkerRecord
  <2> QED
    BY <1>0, <1>2, <2>1, <2>2, BodiesCarried, SendIsStep DEF SendDeletion
<1>3. CASE CallerStep(w) \/ EstablishmentDone(w) \/ DeletionDone(w)
  BY <1>0, <1>3 DEF TransportNext, EstablishmentDone, DeletionDone
<1>4. CASE \/ AllocSEID(w) \/ InsertSession(w) \/ StoreSession(w)
           \/ FindAssociation(w) \/ RemoveSession(w) \/ StoreDeleteSession(w)
           \/ \E u \in UP, r \in Rules : CreateSession(w, u, r)
           \/ \E s \in DOMAIN sessions : DeleteSession(w, s)
  BY <1>4 DEF AllocSEID, InsertSession, StoreSession, FindAssociation,
     RemoveSession, StoreDeleteSession, StoreWrite, CreateSession, DeleteSession
<1> QED
  BY <1>1, <1>2, <1>3, <1>4 DEF WorkerStep

\* The steps of sendHeartbeats.
LEMMA HeartbeatIsStep ==
  ASSUME PFCPInv, HeartbeatTick \/ HeartbeatStep
  PROVE  TransportNext \/ UNCHANGED transportVars
<1>0. HB \in Caller /\ Home[HB] = CP
  BY Homes
<1>1. CASE SendHeartbeat
  <2>1. PICK a \in heartbeat.todo : SendRequest(HB, a[1], HeartbeatRequest)
    BY <1>1 DEF SendHeartbeat
  <2>2. a[1] \in Endpoint \ {CP}
    BY Homes DEF PFCPInv, HeartbeatOK
  <2> QED
    BY <1>0, <2>1, <2>2, BodiesCarried, SendIsStep
<1>2. CASE HeartbeatTick
  BY <1>2 DEF HeartbeatTick
<1>3. CASE CallerStep(HB) \/ HeartbeatDone
  BY <1>0, <1>3 DEF TransportNext, HeartbeatDone
<1> QED
  BY <1>1, <1>2, <1>3 DEF HeartbeatStep

\* The handlers of both sides.
LEMMA HandlersAreSteps ==
  ASSUME PFCPInv, NEW m \in DOMAIN net,
         \/ \E u \in UP : UPHandler(u, m) \/ UPDrop(u, m)
         \/ HandleAssociationSetupRequest(m)
         \/ HandleAssociationReleaseRequest(m)
         \/ CPHandleHeartbeatRequest(m) \/ CPDrop(m)
  PROVE  TransportNext
<1>0. TransportTypeOK /\ m.body.seid \in HeaderSEID
  BY BodySEID DEF PFCPInv, TransportTypeOK, Message
<1>1. ASSUME HandleSilently(m) PROVE TransportNext
  BY <1>1 DEF TransportNext, HandlerStep
<1>2. ASSUME NEW u \in UP, UPHandler(u, m) PROVE TransportNext
  <2>1. m.body.type \in UPHandled
    BY <1>2 DEF UPHandler, HandleSessionEstablishmentRequest, HandledAs,
       HandleSessionDeletionRequest, UPHandleHeartbeatRequest, UPHandled
  <2> QED
    BY <1>0, <1>2, <2>1, BodiesCarried, AnswerIsStep
       DEF UPHandler, HandleSessionEstablishmentRequest,
           HandleSessionDeletionRequest, UPHandleHeartbeatRequest
<1>3. CASE \/ HandleAssociationSetupRequest(m)
           \/ HandleAssociationReleaseRequest(m)
           \/ CPHandleHeartbeatRequest(m)
  <2>1. m.body.type \in CPHandled
    BY <1>3 DEF HandleAssociationSetupRequest, HandledAs,
       HandleAssociationReleaseRequest, CPHandleHeartbeatRequest, CPHandled
  <2> QED
    BY <1>0, <1>3, <2>1, BodiesCarried, AnswerIsStep
       DEF HandleAssociationSetupRequest, HandleAssociationReleaseRequest,
           CPHandleHeartbeatRequest
<1> QED
  BY <1>1, <1>2, <1>3 DEF UPDrop, CPDrop

\* Start, heartbeatLoop and the restart of a user plane.
LEMMA UserPlaneIsStep ==
  ASSUME PFCPInv, NEW u \in UP,
         UPGoroutine(u) \/ UPHeartbeat(u) \/ ReleaseAssociation(u) \/ UPRestart(u)
  PROVE  TransportNext
<1>0. u \in Caller /\ Home[u] = u /\ u \in Endpoint /\ CP \in Endpoint \ {Home[u]}
  BY Homes
<1>1. CASE EstablishAssociation(u) \/ UPHeartbeat(u) \/ ReleaseAssociation(u)
  BY <1>0, <1>1, BodiesCarried, SendIsStep
     DEF EstablishAssociation, UPHeartbeat, ReleaseAssociation
<1>2. CASE CallerStep(u) \/ AssociationDone(u) \/ UPHeartbeatDone(u)
  BY <1>0, <1>2 DEF TransportNext, AssociationDone, UPHeartbeatDone
<1>3. CASE UPRestart(u)
  BY <1>0, <1>3 DEF TransportNext, UPRestart
<1> QED
  BY <1>1, <1>2, <1>3 DEF UPGoroutine

LEMMA StepIsTransportStep ==
  PFCPInv /\ [Next]_vars => [TransportNext]_transportVars
<1> SUFFICES ASSUME PFCPInv, [Next]_vars
             PROVE  TransportNext \/ UNCHANGED transportVars
  OBVIOUS
<1>1. CASE UNCHANGED vars
  BY <1>1 DEF vars
<1>2. CASE CPNext
  <2>1. CASE CPRestart
    BY <2>1, Homes DEF CPRestart, TransportNext
  <2> QED
    BY <1>2, <2>1, WorkerIsStep, HeartbeatIsStep, HandlersAreSteps DEF CPNext
<1>3. ASSUME NEW u \in UP, UPNext(u)
      PROVE  TransportNext
  BY <1>3, UserPlaneIsStep, HandlersAreSteps DEF UPNext
<1>4. CASE \E m \in DOMAIN net : Deliver(m) \/ Duplicated(m)
  BY <1>4 DEF Deliver, Duplicated, TransportNext
<1> QED
  BY <1>1, <1>2, <1>3, <1>4 DEF Next

-----------------------------------------------------------------------------
(***************************************************************************)
(* The critical sections of CreateSession and DeleteSession keep           *)
(* ControlInv.                                                             *)
(***************************************************************************)

\* The goroutine of a step gets the locals r.
SetWorker(w, r) == worker' = [worker EXCEPT ![w] = r]

HoldsSEID(r) == r.op = "create" /\ r.pc \in {"send", "sending", "insert"}

\* What SetWorker does.
LEMMA SetWorkerEffect ==
  ASSUME WorkersOK, NEW w \in Worker, NEW r \in WorkerRecord, WorkerOK(r),
         SetWorker(w, r)
  PROVE  /\ WorkersOK' /\ worker'[w] = r
         /\ \A v \in Worker \ {w} : worker'[v] = worker[v]
BY DEF WorkersOK, SetWorker

\* What it does to the SEIDs about to be stored or deleted.
LEMMA SetWorkerStore ==
  ASSUME WorkersOK, NEW w \in Worker, NEW r \in WorkerRecord, WorkerOK(r),
         SetWorker(w, r), NEW pc \in InStore
  PROVE  /\ r.pc = pc => r.seid \in AboutTo(pc)'
         /\ AboutTo(pc)' \subseteq AboutTo(pc) \cup {r.seid}
         /\ r.pc # pc => AboutTo(pc)' \subseteq AboutTo(pc)
         /\ AboutTo(pc) \subseteq AboutTo(pc)' \cup {worker[w].seid}
         /\ worker[w].pc # pc => AboutTo(pc) \subseteq AboutTo(pc)'
<1>1. /\ worker'[w] = r
      /\ \A v \in Worker \ {w} : worker'[v] = worker[v]
  BY SetWorkerEffect
<1> QED
  BY <1>1 DEF AboutTo, At

(***************************************************************************)
(* A step of a call that touches neither the sessions nor the store: what  *)
(* it holds it held before, and what it deletes is a session or was one.   *)
(***************************************************************************)
LEMMA CallMoves ==
  ASSUME ControlInv, UNCHANGED <<sessions, nextSEID, store, raced>>,
         NEW w \in Worker, NEW r \in WorkerRecord, WorkerOK(r), SetWorker(w, r),
         worker[w].pc \notin InStore, r.pc \notin InStore,
         HoldsSEID(r) => HoldsSEID(worker[w]) /\ r.seid = worker[w].seid,
         r.op = "delete" => \/ r.seid \in DOMAIN sessions
                            \/ worker[w].op = "delete" /\ r.seid = worker[w].seid
  PROVE  ControlInv'
<1>0. /\ WorkersOK' /\ worker'[w] = r
      /\ \A v \in Worker \ {w} : worker'[v] = worker[v]
  BY SetWorkerEffect DEF ControlInv
<1>1. /\ \A v \in Worker : Holds(v)' => Holds(v) /\ worker'[v].seid = worker[v].seid
      /\ \A v \in Worker \ {w} : Uses(v)' => Uses(v)
      /\ Uses(w)' => \/ r.seid \in DOMAIN sessions
                     \/ Uses(w) /\ r.seid = worker[w].seid
  BY <1>0 DEF Holds, HoldsSEID, Uses, InStore
<1>2. SEIDsUnique'
  BY <1>1 DEF ControlInv, SEIDInv, SEIDsUnique
<1>3. ASSUME NEW v \in Worker, Uses(v)'
      PROVE  /\ worker'[v].seid < nextSEID
             /\ \A x \in Worker : Holds(x)' => worker'[x].seid # worker'[v].seid
  <2>1. CASE v = w /\ r.seid \in DOMAIN sessions
    BY <1>0, <1>1, <2>1 DEF ControlInv, SEIDInv, SEIDsUnique
  <2>2. CASE v # w \/ (Uses(w) /\ r.seid = worker[w].seid)
    BY <1>0, <1>1, <1>3, <2>2 DEF ControlInv, SEIDInv
  <2> QED
    BY <1>1, <1>3, <2>1, <2>2
<1>4. SEIDInv'
  BY <1>2, <1>3 DEF ControlInv, SEIDInv
<1>5. AboutTo("store")' = AboutTo("store") /\ AboutTo("unstore")' = AboutTo("unstore")
  BY SetWorkerStore DEF ControlInv, InStore
<1>6. StoreFollowsSessions'
  BY <1>5 DEF ControlInv, StoreInv, StoreFollowsSessions
<1>7. StoreInv'
  BY <1>5, <1>6 DEF ControlInv, StoreInv
<1> QED
  BY <1>0, <1>4, <1>7 DEF ControlInv, SessionsOK

\* A step of anything but the gRPC calls.
LEMMA CallsIdle ==
  ASSUME ControlInv, UNCHANGED <<worker, sessions, nextSEID, store, raced>>
  PROVE  ControlInv'
BY SMTT(30)
   DEF ControlInv, WorkersOK, SessionsOK, SEIDInv, SEIDsUnique, Holds, Uses,
       StoreInv, StoreFollowsSessions, AboutTo, At

\* The locals of a goroutine that serves no call.
LEMMA IdleWorkerOK == IdleWorker \in WorkerRecord /\ WorkerOK(IdleWorker)
<1>1. 0 \in HeaderSEID
  BY TransportAssumption, SMTT(30) DEF HeaderSEID
<1> QED
  BY <1>1 DEF IdleWorker, WorkerRecord, WorkerPC, WorkerOK

\* A call that returns to its client before or without reaching the store.
LEMMA CallEnds ==
  ASSUME ControlInv, NEW w \in Worker, Finish(w),
         worker[w].pc \notin InStore,
         UNCHANGED <<sessions, nextSEID, store, raced>>
  PROVE  ControlInv'
<1>1. SetWorker(w, IdleWorker)
  BY DEF Finish, SetWorker
<1>2. ~HoldsSEID(IdleWorker) /\ IdleWorker.op # "delete"
      /\ IdleWorker.pc \notin InStore
  BY DEF IdleWorker, HoldsSEID, InStore
<1> QED
  BY <1>1, <1>2, IdleWorkerOK, CallMoves

\* A call that goes on to the point pc.
LEMMA CallGoesOn ==
  ASSUME ControlInv, NEW w \in Worker, NEW pc \in WorkerPC, Goto(w, pc)
  PROVE  /\ SetWorker(w, [worker[w] EXCEPT !.pc = pc])
         /\ [worker[w] EXCEPT !.pc = pc] \in WorkerRecord
         /\ [worker[w] EXCEPT !.pc = pc].pc = pc
         /\ [worker[w] EXCEPT !.pc = pc].op = worker[w].op
         /\ [worker[w] EXCEPT !.pc = pc].seid = worker[w].seid
         /\ [worker[w] EXCEPT !.pc = pc].node = worker[w].node
         /\ [worker[w] EXCEPT !.pc = pc].rules = worker[w].rules
BY DEF ControlInv, WorkersOK, WorkerRecord, Goto, SetWorker

\* The entry of CreateSession.
LEMMA StepCreate ==
  ASSUME ControlInv, NEW w \in Worker, NEW u \in UP, NEW rules \in Rules,
         CreateSession(w, u, rules)
  PROVE  ControlInv'
<1> DEFINE r == [IdleWorker EXCEPT !.op = "create", !.pc = "alloc", !.node = u,
                                   !.rules = rules]
<1>1. /\ r \in WorkerRecord /\ WorkerOK(r)
      /\ r.op = "create" /\ r.pc = "alloc"
  BY IdleWorkerOK DEF IdleWorker, WorkerRecord, WorkerPC, WorkerOK
<1>2. SetWorker(w, r) /\ UNCHANGED <<sessions, nextSEID, store, raced>>
  BY DEF CreateSession, SetWorker
<1>3. worker[w].pc = "idle"
  BY DEF CreateSession
<1> HIDE DEF r
<1> QED
  BY <1>1, <1>2, <1>3, CallMoves DEF HoldsSEID, InStore

\* The entry of DeleteSession: the SEID is one of a session.
LEMMA StepDelete ==
  ASSUME ControlInv, NEW w \in Worker, NEW s \in DOMAIN sessions,
         DeleteSession(w, s)
  PROVE  ControlInv'
<1> DEFINE r == [IdleWorker EXCEPT !.op = "delete", !.pc = "lookup",
                   !.node = sessions[s].node, !.seid = s,
                   !.remoteSEID = sessions[s].remoteSEID]
<1>0. /\ sessions[s].node \in UP /\ sessions[s].remoteSEID \in HeaderSEID
      /\ s \in Nat
  BY DEF ControlInv, SessionsOK, SEIDInv
<1>1. /\ r \in WorkerRecord /\ WorkerOK(r)
      /\ r.op = "delete" /\ r.pc = "lookup" /\ r.seid = s
  BY <1>0, IdleWorkerOK DEF IdleWorker, WorkerRecord, WorkerPC, WorkerOK
<1>2. SetWorker(w, r) /\ UNCHANGED <<sessions, nextSEID, store, raced>>
  BY DEF DeleteSession, SetWorker
<1>3. worker[w].pc = "idle"
  BY DEF DeleteSession
<1> HIDE DEF r
<1> QED
  BY <1>1, <1>2, <1>3, CallMoves DEF HoldsSEID, InStore

\* The steps of a call outside its critical sections.
LEMMA StepLocal ==
  ASSUME ControlInv, NEW w \in Worker,
         SendEstablishment(w) \/ SendDeletion(w) \/ DeletionDone(w)
           \/ FindAssociation(w)
  PROVE  ControlInv'
<1>0. /\ worker[w].pc \in {"send", "sending", "lookup"}
      /\ UNCHANGED <<sessions, nextSEID, store, raced>>
      /\ WorkerOK(worker[w])
  BY DEF SendEstablishment, SendDeletion, DeletionDone, FindAssociation,
     ControlInv, WorkersOK
<1>1. CASE Finish(w)
  BY <1>0, <1>1, CallEnds DEF InStore
<1>2. ASSUME NEW pc \in WorkerPC, Goto(w, pc),
             \/ pc = "sending" /\ worker[w].pc = "send"
             \/ pc \in {"send", "remove"} /\ worker[w].op = "delete"
      PROVE  ControlInv'
  <2> DEFINE r == [worker[w] EXCEPT !.pc = pc]
  <2>1. /\ SetWorker(w, r) /\ r \in WorkerRecord /\ r.pc = pc
        /\ r.op = worker[w].op /\ r.seid = worker[w].seid
        /\ r.node = worker[w].node /\ r.rules = worker[w].rules
    BY <1>2, CallGoesOn
  <2> HIDE DEF r
  <2>2. WorkerOK(r) /\ r.pc \notin InStore /\ worker[w].pc \notin InStore
    BY <1>0, <1>2, <2>1 DEF WorkerOK, InStore
  <2>3. HoldsSEID(r) => HoldsSEID(worker[w])
    BY <1>2, <2>1 DEF HoldsSEID
  <2> QED
    BY <1>0, <2>1, <2>2, <2>3, CallMoves
<1>3. \/ Finish(w)
      \/ Goto(w, "sending") /\ worker[w].pc = "send"
      \/ Goto(w, "send") /\ worker[w].op = "delete"
      \/ Goto(w, "remove") /\ worker[w].op = "delete"
  BY <1>0 DEF SendEstablishment, SendDeletion, DeletionDone, FindAssociation,
     WorkerOK
<1> QED
  BY <1>1, <1>2, <1>3 DEF WorkerPC

\* The return of CreateSession's SendRequest.
LEMMA StepEstablished ==
  ASSUME TransportTypeOK, ControlInv, NEW w \in Worker, EstablishmentDone(w)
  PROVE  ControlInv'
<1>0. /\ worker[w].op = "create" /\ worker[w].pc = "sending"
      /\ worker[w] \in WorkerRecord /\ WorkerOK(worker[w])
      /\ UNCHANGED <<sessions, nextSEID, store, raced>>
  BY DEF EstablishmentDone, ControlInv, WorkersOK
<1>1. CASE ~Accepted(w)
  BY <1>0, <1>1, CallEnds DEF EstablishmentDone, InStore
<1>2. CASE Accepted(w)
  <2> DEFINE seid == call[w].resp[1].body.seid
             r == [worker[w] EXCEPT !.pc = "insert", !.remoteSEID = seid,
                                    !.req = call[w].seq]
  <2>1. call[w] \in CallRecord
    BY Homes DEF TransportTypeOK
  <2>2. seid \in HeaderSEID
    <3>1. call[w].resp[1] \in Message
      BY <1>2, <2>1, FieldsType, SMTT(30) DEF Accepted, Option
    <3> QED
      BY <3>1, BodySEID DEF Message
  <2>3. call[w].seq \in Nat
    BY <2>1, FieldsType, SMTT(30) DEF SeqNums
  <2>4. SetWorker(w, r)
    BY <1>0, <1>2 DEF EstablishmentDone, SetWorker, ControlInv, WorkersOK
  <2> HIDE DEF seid
  <2>5. r \in WorkerRecord
    BY <1>0, <2>2, <2>3 DEF WorkerRecord, WorkerPC
  <2>6. /\ r.op = "create" /\ r.pc = "insert" /\ r.seid = worker[w].seid
        /\ r.node = worker[w].node /\ r.rules = worker[w].rules
    BY <1>0 DEF WorkerRecord
  <2> HIDE DEF r
  <2>7. WorkerOK(r)
    BY <1>0, <2>6 DEF WorkerOK
  <2> QED
    BY <1>0, <2>4, <2>5, <2>6, <2>7, CallMoves DEF HoldsSEID, InStore
<1> QED
  BY <1>1, <1>2

\* allocSEID, under cp.mu: the SEID is larger than any given out before.
LEMMA StepAlloc ==
  ASSUME ControlInv, NEW w \in Worker, AllocSEID(w)
  PROVE  ControlInv'
<1> DEFINE r == [worker[w] EXCEPT !.pc = "send", !.seid = nextSEID]
<1>0. /\ worker[w].pc = "alloc" /\ nextSEID \in Nat
      /\ worker[w] \in WorkerRecord /\ WorkerOK(worker[w])
      /\ nextSEID' = nextSEID + 1 /\ UNCHANGED <<sessions, store, raced>>
  BY DEF AllocSEID, ControlInv, WorkersOK, SEIDInv
<1>1. SetWorker(w, r)
  BY <1>0 DEF AllocSEID, SetWorker, ControlInv, WorkersOK
<1>2. r \in WorkerRecord /\ r.pc = "send" /\ r.seid = nextSEID
      /\ r.op = worker[w].op /\ r.node = worker[w].node
      /\ r.rules = worker[w].rules
  BY <1>0 DEF WorkerRecord, WorkerPC
<1> HIDE DEF r
<1>3. WorkerOK(r) /\ r.op = "create"
  BY <1>0, <1>2 DEF WorkerOK
<1>4. /\ WorkersOK' /\ worker'[w] = r
      /\ \A v \in Worker \ {w} : worker'[v] = worker[v]
  BY <1>1, <1>2, <1>3, SetWorkerEffect DEF ControlInv
<1>5. /\ \A v \in Worker \ {w} : Holds(v)' <=> Holds(v)
      /\ \A v \in Worker \ {w} : Uses(v)' <=> Uses(v)
      /\ ~Uses(w)'
  BY <1>2, <1>3, <1>4 DEF Holds, Uses
<1>6. SEIDInv'
  <2>1. \A v \in Worker : worker[v].seid \in Nat
    BY DEF ControlInv, WorkersOK, WorkerRecord
  <2>2. SEIDsUnique'
    BY <1>0, <1>2, <1>4, <1>5, <2>1, SMTT(30)
       DEF ControlInv, SEIDInv, SEIDsUnique
  <2>3. ASSUME NEW v \in Worker, Uses(v)'
        PROVE  /\ worker'[v].seid < nextSEID'
               /\ \A x \in Worker : Holds(x)' =>
                    worker'[x].seid # worker'[v].seid
    BY <1>0, <1>2, <1>4, <1>5, <2>1, <2>3, SMTT(30) DEF ControlInv, SEIDInv
  <2> QED
    BY <1>0, <2>2, <2>3, SMTT(30) DEF ControlInv, SEIDInv
<1>7. AboutTo("store")' = AboutTo("store") /\ AboutTo("unstore")' = AboutTo("unstore")
  BY <1>0, <1>1, <1>2, <1>3, SetWorkerStore DEF ControlInv, InStore
<1>8. StoreInv'
  BY <1>0, <1>7 DEF ControlInv, StoreInv, StoreFollowsSessions
<1> QED
  BY <1>0, <1>4, <1>6, <1>8 DEF ControlInv, SessionsOK

(***************************************************************************)
(* A step that moves a call to or from the store and changes sessions:     *)
(* what is left to show of it is StoreInv and the SEIDs of the sessions.   *)
(***************************************************************************)
LEMMA SEIDsGoOn ==
  ASSUME ControlInv, UNCHANGED nextSEID,
         NEW w \in Worker, NEW r \in WorkerRecord, SetWorker(w, r), WorkerOK(r),
         ~HoldsSEID(r),
         r.op = "delete" \/ r.pc = "store" =>
           r.seid = worker[w].seid /\ (Uses(w) \/ Holds(w)),
         DOMAIN sessions' \subseteq
           DOMAIN sessions \cup (IF Holds(w) THEN {worker[w].seid} ELSE {})
  PROVE  WorkersOK' /\ SEIDInv'
<1>0. /\ WorkersOK' /\ worker'[w] = r
      /\ \A v \in Worker \ {w} : worker'[v] = worker[v]
  BY SetWorkerEffect DEF ControlInv
<1>1. /\ ~Holds(w)' /\ \A v \in Worker \ {w} : Holds(v)' <=> Holds(v)
      /\ \A v \in Worker \ {w} : Uses(v)' <=> Uses(v)
      /\ Uses(w)' => Uses(w) \/ Holds(w)
  BY <1>0 DEF Holds, HoldsSEID, Uses
<1>2. \A v \in Worker : worker[v].seid \in Nat
  BY DEF ControlInv, WorkersOK, WorkerRecord
<1>3. SEIDsUnique'
  BY <1>0, <1>1 DEF ControlInv, SEIDInv, SEIDsUnique
<1>4. \A s \in DOMAIN sessions' : s \in Nat /\ s < nextSEID
  BY <1>2 DEF ControlInv, SEIDInv, SEIDsUnique
<1>5. ASSUME NEW v \in Worker, Uses(v)'
      PROVE  /\ worker'[v].seid < nextSEID
             /\ \A x \in Worker : Holds(x)' => worker'[x].seid # worker'[v].seid
  <2>1. CASE v # w
    BY <1>0, <1>1, <1>5, <2>1 DEF ControlInv, SEIDInv
  <2>2. CASE v = w
    <3>1. worker'[w].seid = worker[w].seid
      BY <1>0, <1>5, <2>2 DEF Uses
    <3> QED
      BY <1>0, <1>1, <1>5, <2>2, <3>1 DEF ControlInv, SEIDInv, SEIDsUnique
  <2> QED
    BY <2>1, <2>2
<1> QED
  BY <1>0, <1>3, <1>4, <1>5 DEF ControlInv, SEIDInv

\* The insertion into sessions: the SEID goes from being held to being used.
LEMMA StepInsert ==
  ASSUME ControlInv, NEW w \in Worker, InsertSession(w)
  PROVE  ControlInv'
<1> DEFINE r == [worker[w] EXCEPT !.pc = "store"]
           s == worker[w].seid
<1>0. /\ worker[w].pc = "insert"
      /\ worker[w] \in WorkerRecord /\ WorkerOK(worker[w])
      /\ UNCHANGED <<nextSEID, store, raced>>
      /\ Goto(w, "store") /\ sessions' = Assign(sessions, s, SessionOf(w))
  BY DEF InsertSession, ControlInv, WorkersOK
<1>1. /\ SetWorker(w, r) /\ r \in WorkerRecord /\ r.pc = "store"
      /\ r.op = worker[w].op /\ r.seid = s
      /\ r.node = worker[w].node /\ r.rules = worker[w].rules
  BY <1>0, CallGoesOn DEF WorkerPC
<1> HIDE DEF r
<1>2. WorkerOK(r) /\ Holds(w) /\ ~HoldsSEID(r)
  BY <1>0, <1>1 DEF WorkerOK, Holds, HoldsSEID
<1>3. /\ DOMAIN sessions' = DOMAIN sessions \cup {s}
      /\ sessions'[s] = SessionOf(w)
      /\ \A t \in DOMAIN sessions \ {s} : sessions'[t] = sessions[t]
  BY <1>0 DEF Assign
<1>4. SessionsOK'
  <2>1. SessionOf(w).node \in UP /\ SessionOf(w).remoteSEID \in HeaderSEID
    BY <1>0 DEF SessionOf, WorkerOK, WorkerRecord
  <2> QED
    BY <1>3, <2>1 DEF ControlInv, SessionsOK
<1>5. WorkersOK' /\ SEIDInv'
  BY <1>0, <1>1, <1>2, <1>3, SEIDsGoOn
<1>6. /\ s \in AboutTo("store")' /\ AboutTo("unstore")' = AboutTo("unstore")
      /\ AboutTo("store") \subseteq AboutTo("store")'
      /\ AboutTo("store")' \subseteq AboutTo("store") \cup {s}
  BY <1>0, <1>1, <1>2, SetWorkerStore DEF ControlInv, InStore
<1>7. s \notin AboutTo("unstore")
  BY <1>2 DEF AboutTo, At, ControlInv, WorkersOK, WorkerOK, SEIDInv, Uses
<1>8. StoreFollowsSessions'
  BY <1>0, <1>3, <1>6 DEF ControlInv, StoreInv, StoreFollowsSessions
<1>9. StoreInv'
  BY <1>0, <1>3, <1>6, <1>7, <1>8, SMTT(30) DEF ControlInv, StoreInv
<1> QED
  BY <1>4, <1>5, <1>9 DEF ControlInv

\* The removal from sessions: the SEID is about to be deleted from the store.
LEMMA StepRemove ==
  ASSUME ControlInv, NEW w \in Worker, RemoveSession(w)
  PROVE  ControlInv'
<1> DEFINE r == [worker[w] EXCEPT !.pc = "unstore"]
           s == worker[w].seid
<1>0. /\ worker[w].pc = "remove" /\ WorkerOK(worker[w])
      /\ UNCHANGED <<nextSEID, store, raced>>
      /\ Goto(w, "unstore") /\ sessions' = Without(sessions, s)
  BY DEF RemoveSession, ControlInv, WorkersOK
<1>1. /\ SetWorker(w, r) /\ r \in WorkerRecord /\ r.pc = "unstore"
      /\ r.op = worker[w].op /\ r.seid = s
      /\ r.node = worker[w].node /\ r.rules = worker[w].rules
  BY <1>0, CallGoesOn DEF WorkerPC
<1> HIDE DEF r
<1>2. WorkerOK(r) /\ Uses(w) /\ ~HoldsSEID(r)
  BY <1>0, <1>1 DEF WorkerOK, Uses, HoldsSEID
<1>3. /\ DOMAIN sessions' = DOMAIN sessions \ {s}
      /\ \A t \in DOMAIN sessions' : sessions'[t] = sessions[t]
  BY <1>0 DEF Without, Restrict
<1>4. SessionsOK'
  BY <1>3 DEF ControlInv, SessionsOK
<1>5. WorkersOK' /\ SEIDInv'
  BY <1>0, <1>1, <1>2, <1>3, SEIDsGoOn
<1>6. /\ s \in AboutTo("unstore")' /\ AboutTo("store")' = AboutTo("store")
      /\ AboutTo("unstore") \subseteq AboutTo("unstore")'
      /\ AboutTo("unstore")' \subseteq AboutTo("unstore") \cup {s}
  BY <1>0, <1>1, <1>2, SetWorkerStore DEF ControlInv, InStore
<1>7. StoreFollowsSessions'
  BY <1>0, <1>3, <1>6 DEF ControlInv, StoreInv, StoreFollowsSessions
<1>8. StoreInv'
  BY <1>0, <1>3, <1>6, <1>7 DEF ControlInv, StoreInv
<1> QED
  BY <1>4, <1>5, <1>8 DEF ControlInv

(***************************************************************************)
(* A write of the MemoryStore.  If no other call is in the store, none is  *)
(* about to store or to delete but the one that does it here.              *)
(***************************************************************************)
LEMMA StepStore ==
  ASSUME ControlInv, NEW w \in Worker, StoreSession(w) \/ StoreDeleteSession(w)
  PROVE  ControlInv'
<1> DEFINE s == worker[w].seid
<1>0. /\ worker[w].pc \in InStore /\ Finish(w)
      /\ UNCHANGED <<sessions, nextSEID>>
      /\ raced' = (raced \/ Races(w)) /\ raced' \in BOOLEAN
  BY DEF StoreSession, StoreDeleteSession, StoreWrite, InStore, ControlInv,
         StoreInv, Races
<1>1. /\ SetWorker(w, IdleWorker) /\ ~HoldsSEID(IdleWorker)
      /\ IdleWorker.op # "delete" /\ IdleWorker.pc = "idle"
  BY <1>0 DEF Finish, SetWorker, IdleWorker, HoldsSEID
<1>2. WorkersOK' /\ SEIDInv'
  BY <1>0, <1>1, IdleWorkerOK, SEIDsGoOn
<1>3. /\ AboutTo("unstore")' \subseteq AboutTo("unstore")
      /\ AboutTo("store")' \subseteq AboutTo("store")
  BY <1>1, IdleWorkerOK, SetWorkerStore DEF ControlInv, InStore
<1>4. CASE raced'
  <2>1. StoreFollowsSessions'
    BY <1>4 DEF StoreFollowsSessions
  <2>2. AboutTo("unstore")' \cap DOMAIN sessions' = {}
    BY <1>0, <1>3 DEF ControlInv, StoreInv
  <2>3. StoreInv'
    BY <1>0, <1>4, <2>1, <2>2 DEF StoreInv
  <2> QED
    BY <1>0, <1>2, <2>3 DEF ControlInv, SessionsOK
<1>5. CASE ~raced'
  <2>1. ~raced /\ ~Races(w)
    BY <1>0, <1>5
  <2>2. \A v \in Worker \ {w} : worker[v].pc \notin InStore
    BY <2>1 DEF Races, At
  <2>3. AboutTo("store")' = {} /\ AboutTo("unstore")' = {}
    <3>1. \A v \in Worker : worker'[v].pc \notin InStore
      BY <1>1, <2>2, IdleWorkerOK, SetWorkerEffect DEF ControlInv, InStore
    <3> QED
      BY <3>1 DEF AboutTo, At, InStore
  <2>4. CASE StoreSession(w)
    <3>1. worker[w].pc = "store" /\ store' = store \cup {s}
      BY <2>1, <2>4 DEF StoreSession, StoreWrite
    <3>2. AboutTo("store") = {s} /\ AboutTo("unstore") = {}
      BY <2>2, <3>1 DEF AboutTo, At, InStore
    <3> QED
      BY <1>0, <2>1, <3>1, <3>2, <1>2, <2>3
         DEF ControlInv, SessionsOK, StoreInv, StoreFollowsSessions
  <2>5. CASE StoreDeleteSession(w)
    <3>1. worker[w].pc = "unstore" /\ store' = store \ {s}
      BY <2>1, <2>5 DEF StoreDeleteSession, StoreWrite
    <3>2. AboutTo("store") = {} /\ AboutTo("unstore") = {s}
      BY <2>2, <3>1 DEF AboutTo, At, InStore
    <3> QED
      BY <1>0, <2>1, <3>1, <3>2, <1>2, <2>3
         DEF ControlInv, SessionsOK, StoreInv, StoreFollowsSessions
  <2> QED
    BY <2>4, <2>5
<1> QED
  BY <1>4, <1>5

\* A state in which no gRPC call is served and no session exists.
LEMMA FreshControlPlane ==
  ASSUME worker = [w \in Worker |-> IdleWorker], sessions = EmptyMap,
         nextSEID = 1, store = {}, raced = FALSE
  PROVE  ControlInv
<1>1. /\ DOMAIN sessions = {}
      /\ \A w \in Worker : worker[w].pc = "idle" /\ worker[w].op = "none"
  BY DEF EmptyMap, IdleWorker
<1>2. WorkersOK
  BY IdleWorkerOK DEF WorkersOK
<1>3. AboutTo("store") = {} /\ AboutTo("unstore") = {}
  BY <1>1 DEF AboutTo, At
<1> QED
  BY <1>1, <1>2, <1>3
     DEF ControlInv, SessionsOK, SEIDInv, SEIDsUnique, Holds, Uses, StoreInv,
         StoreFollowsSessions

\* The same of the process that CPRestart starts.
LEMMA StepRestart ==
  ASSUME CPRestart
  PROVE  ControlInv' /\ HeartbeatOK'
<1>1. /\ DOMAIN sessions' = {}
      /\ \A w \in Worker : worker'[w].pc = "idle" /\ worker'[w].op = "none"
  BY DEF CPRestart, EmptyMap, IdleWorker
<1>2. WorkersOK'
  BY IdleWorkerOK DEF WorkersOK, CPRestart
<1>3. AboutTo("store")' = {} /\ AboutTo("unstore")' = {}
  BY <1>1 DEF AboutTo, At
<1>4. nextSEID' = 1 /\ store' = {} /\ raced' = FALSE
  BY DEF CPRestart
<1>5. SEIDInv' /\ SessionsOK'
  BY <1>1, <1>4 DEF SEIDInv, SEIDsUnique, Holds, Uses, SessionsOK
<1>6. StoreInv'
  BY <1>1, <1>3, <1>4 DEF StoreInv, StoreFollowsSessions
<1> QED
  BY <1>2, <1>5, <1>6
     DEF ControlInv, CPRestart, HeartbeatOK, IdleHeartbeat

\* sendHeartbeats collects nodes that associated.
LEMMA StepHeartbeat ==
  ASSUME HeartbeatOK, HeartbeatTick \/ SendHeartbeat \/ HeartbeatDone
  PROVE  HeartbeatOK'
<1>1. CASE HeartbeatTick
  BY <1>1, SMTT(30) DEF HeartbeatTick, HeartbeatOK, IdleHeartbeat, Associated
<1>2. CASE SendHeartbeat
  BY <1>2, SMTT(30) DEF SendHeartbeat, HeartbeatOK
<1>3. CASE HeartbeatDone
  <2>1. CASE heartbeat.todo = {}
    BY <1>3, <2>1 DEF HeartbeatDone, HeartbeatOK, IdleHeartbeat
  <2>2. CASE heartbeat.todo # {}
    BY <1>3, <2>2, SMTT(30) DEF HeartbeatDone, HeartbeatOK
  <2> QED
    BY <2>1, <2>2
<1> QED
  BY <1>1, <1>2, <1>3

LEMMA PFCPInvInit == Init => PFCPInv
<1> SUFFICES ASSUME Init PROVE PFCPInv
  OBVIOUS
<1>1. TransportTypeOK
  BY TypeInit DEF Init
<1>2. ControlInv
  BY FreshControlPlane DEF Init, CPInit
<1>3. HeartbeatOK
  BY DEF Init, CPInit, HeartbeatOK, IdleHeartbeat
<1> QED
  BY <1>1, <1>2, <1>3 DEF PFCPInv

LEMMA PFCPInvStep == PFCPInv /\ [Next]_vars => PFCPInv'
<1> SUFFICES ASSUME PFCPInv, [Next]_vars PROVE PFCPInv'
  OBVIOUS
<1>0. TransportTypeOK /\ ControlInv /\ HeartbeatOK /\ TransportTypeOK'
  BY StepIsTransportStep, TypeStep DEF PFCPInv
<1>1. CASE UNCHANGED cpVars
  BY <1>0, <1>1, CallsIdle DEF cpVars, PFCPInv, HeartbeatOK
<1>2. ASSUME NEW w \in Worker,
             \/ WorkerStep(w)
             \/ \E u \in UP, r \in Rules : CreateSession(w, u, r)
             \/ \E s \in DOMAIN sessions : DeleteSession(w, s)
      PROVE  PFCPInv'
  <2>1. CASE CallerStep(w) /\ UNCHANGED cpVars
    BY <1>1, <2>1
  <2>2. ASSUME ~(CallerStep(w) /\ UNCHANGED cpVars) PROVE ControlInv'
    BY <1>0, <1>2, <2>2, StepCreate, StepDelete, StepLocal, StepEstablished,
       StepAlloc, StepInsert, StepRemove, StepStore DEF WorkerStep
  <2>3. heartbeat' = heartbeat \/ UNCHANGED cpVars
    BY <1>2 DEF WorkerStep, AllocSEID, SendEstablishment, EstablishmentDone,
       InsertSession, StoreSession, FindAssociation, SendDeletion, DeletionDone,
       RemoveSession, StoreDeleteSession, StoreWrite, CreateSession,
       DeleteSession
  <2> QED
    BY <1>0, <1>1, <2>1, <2>2, <2>3 DEF PFCPInv, HeartbeatOK
<1>3. CASE HeartbeatTick \/ SendHeartbeat \/ HeartbeatDone
  <2>1. UNCHANGED <<worker, sessions, nextSEID, store, raced>>
    BY <1>3 DEF HeartbeatTick, SendHeartbeat, HeartbeatDone
  <2> QED
    BY <1>0, <1>3, <2>1, CallsIdle, StepHeartbeat DEF PFCPInv
<1>4. ASSUME NEW m,
             \/ HandleAssociationSetupRequest(m)
             \/ HandleAssociationReleaseRequest(m)
      PROVE  PFCPInv'
  <2>1. UNCHANGED <<worker, sessions, nextSEID, store, raced, heartbeat>>
    BY <1>4 DEF HandleAssociationSetupRequest, HandleAssociationReleaseRequest
  <2> QED
    BY <1>0, <2>1, CallsIdle DEF PFCPInv, HeartbeatOK
<1>5. CASE CPRestart
  BY <1>0, <1>5, StepRestart DEF PFCPInv
<1>6. CASE CPNext
  BY <1>1, <1>2, <1>3, <1>4, <1>5, <1>6
     DEF CPNext, HeartbeatStep, CPHandleHeartbeatRequest, CPDrop
<1> QED
  BY <1>1, <1>6 DEF Next, Deliver, Duplicated, vars

(***************************************************************************)
(* PFCPInv holds always: whatever the user planes, the clients of the gRPC *)
(* API and the network do, the goroutines of the control plane keep it.    *)
(***************************************************************************)
THEOREM PFCPInvariant == Spec => []PFCPInv
BY PFCPInvInit, PFCPInvStep, PTL DEF Spec

(***************************************************************************)
(* The control plane and the user planes use SendRequest and SendResponse  *)
(* as Transport lets its applications use them: only requests are sent as  *)
(* requests, to another node, and only requests are answered, with         *)
(* responses.  So what is proved of the transports holds in the system.    *)
(***************************************************************************)
THEOREM PFCPImplementsTransport == Spec => TransportSpec
<1>1. Init => TransportInit
  BY DEF Init
<1> QED
  BY <1>1, PFCPInvariant, StepIsTransportStep, PTL DEF Spec, TransportSpec

(***************************************************************************)
(* For every number of concurrent gRPC calls, user planes and sessions, no *)
(* CreateSession overwrites a session of another: from allocSEID to the    *)
(* insertion into sessions its SEID is its own.                            *)
(***************************************************************************)
THEOREM SEIDsAreUnique == Spec => []SEIDsUnique
<1>1. PFCPInv => SEIDsUnique
  BY DEF PFCPInv, ControlInv, SEIDInv
<1> QED
  BY <1>1, PFCPInvariant, PTL

(***************************************************************************)
(* The northbound store has exactly the sessions of the control plane, but *)
(* for the calls between their two writes, as long as no two of them were  *)
(* in the unsynchronised MemoryStore at once.                              *)
(***************************************************************************)
THEOREM StoreIsFaithful == Spec => []StoreFollowsSessions
<1>1. PFCPInv => StoreFollowsSessions
  BY DEF PFCPInv, ControlInv, StoreInv
<1> QED
  BY <1>1, PFCPInvariant, PTL

\* So the map of pending requests is exact in the system as well.
THEOREM PendingIsExactInPFCP == Spec => []SlotsMatchCalls
BY PFCPImplementsTransport, PendingIsExact, PTL

-----------------------------------------------------------------------------
(***************************************************************************)
(* The associations of the two sides.                                      *)
(***************************************************************************)
\* Who sends a request: the handlers look at its type only.
SentBy(m) ==
  /\ m.body.type \in {"SessionEstablishmentRequest", "SessionDeletionRequest"}
       => m.src = CP
  /\ m.body.type = "AssociationSetupRequest" => m.src \in UP
  /\ m.body.type = "AssociationReleaseRequest" => m.src \in released

\* An accepted Cause on its way to a user plane says that it is associated.
Granted(m) ==
  m.body.cause = CauseRequestAccepted /\ m.dst \in UP \ released =>
    associations[m.dst] # <<>>

\* The messages a call has in its channel and as its result.
HeldBy(c) ==
  {m \in Message : call[c].chan = <<m>> \/ call[c].resp = <<m>>}

GrantsOK ==
  /\ \A m \in DOMAIN net : Granted(m)
  /\ \A c \in Caller : \A m \in HeldBy(c) : Granted(m)

UPStates == {"starting", "associating", "up", "failed", "released"}

MessagesOK ==
  /\ \A m \in DOMAIN net : SentBy(m)
  /\ \A c \in Caller : InFlight(c) => SentBy(RequestOf(c))
  /\ restarts[CP] = 0 => GrantsOK

StatesOK ==
  /\ associations \in [UP -> Option([id: Nat, heard: BOOLEAN])]
  /\ setups \in Nat
  /\ upState \in [UP -> UPStates]
  /\ AssociationAgreed

AssociationInv == MessagesOK /\ StatesOK

\* The constructors of requests put no Cause IE in.
LEMMA RequestsHaveNoCause ==
  ASSUME NEW b \in Request
  PROVE  b.cause # CauseRequestAccepted
BY PFCPAssumption, SMTT(30)
   DEF RequestBody, Body, HeartbeatRequest, AssociationSetupRequest,
       AssociationReleaseRequest, SessionEstablishmentRequest,
       SessionDeletionRequest, NoCause, CauseRequestAccepted

\* A response is none of the requests SentBy is about.
LEMMA ResponseTypes ==
  ASSUME NEW b \in Response
  PROVE  b.type \notin {"SessionEstablishmentRequest", "SessionDeletionRequest",
                        "AssociationSetupRequest", "AssociationReleaseRequest"}
BY PFCPAssumption, SMTT(30)
   DEF ResponseBody, Body, HeartbeatResponse, AssociationSetupResponse,
       AssociationReleaseResponse, SessionEstablishmentResponse,
       SessionDeletionResponse

-----------------------------------------------------------------------------
(***************************************************************************)
(* What the actions of Transport do to the messages in calls.              *)
(***************************************************************************)

\* No call starts, and one gets hold of a message from the network only.
Quiet(c) ==
  /\ InFlight(c)' => InFlight(c) /\ RequestOf(c)' = RequestOf(c)
  /\ HeldBy(c)' \subseteq HeldBy(c) \cup DOMAIN net

\* A step of a call inside SendRequest.
LEMMA QuietCall ==
  ASSUME TransportTypeOK, NEW c \in Caller, NEW r, SetCall(c, r),
         r.st # "idle" => /\ call[c].st # "idle" /\ r.to = call[c].to
                          /\ r.seq = call[c].seq /\ r.body = call[c].body,
         r.chan \in {<<>>, call[c].chan} \cup {<<m>> : m \in DOMAIN net},
         r.resp \in {<<>>, call[c].chan, call[c].resp}
  PROVE  \A d \in Caller : Quiet(d)
<1>1. call'[c] = r /\ \A d \in Caller \ {c} : call'[d] = call[d]
  BY SetCallEffect DEF TransportTypeOK
<1>2. ASSUME NEW d \in Caller, d # c PROVE Quiet(d)
  BY <1>1, <1>2 DEF Quiet, InFlight, RequestOf, HeldBy
<1>3. InFlight(c)' => InFlight(c) /\ RequestOf(c)' = RequestOf(c)
  BY <1>1 DEF InFlight, RequestOf
<1>4. ASSUME NEW m \in HeldBy(c)' PROVE m \in HeldBy(c) \cup DOMAIN net
  <2>1. m \in Message /\ (r.chan = <<m>> \/ r.resp = <<m>>)
    BY <1>1, <1>4 DEF HeldBy
  <2>2. <<m>> # <<>> /\ \A n : <<n>> = <<m>> => n = m
    OBVIOUS
  <2> QED
    BY <2>1, <2>2 DEF HeldBy
<1> QED
  BY <1>2, <1>3, <1>4 DEF Quiet

\* The steps of SendRequest, and its return: they send the call's request.
LEMMA CallerStepEffect ==
  ASSUME TransportTypeOK, NEW c \in Caller, CallerStep(c) \/ Resume(c)
  PROVE  /\ \A d \in Caller : Quiet(d)
         /\ DOMAIN net' \subseteq
              DOMAIN net \cup (IF InFlight(c) THEN {RequestOf(c)} ELSE {})
         /\ restarts' = restarts
<1>0. call[c] \in CallRecord
  BY DEF TransportTypeOK
<1>1. CASE Register(c)
  <2> DEFINE r == [call[c] EXCEPT !.st = "registered"]
  <2>1. /\ r.to = call[c].to /\ r.seq = call[c].seq /\ r.body = call[c].body
        /\ r.chan = call[c].chan /\ r.resp = call[c].resp
    BY <1>0 DEF CallRecord
  <2>2. SetCall(c, r) /\ net' = net /\ restarts' = restarts
        /\ call[c].st # "idle"
    BY <1>1 DEF Register
  <2> HIDE DEF r
  <2> QED
    BY <2>1, <2>2, QuietCall
<1>2. CASE Transmit(c)
  <2> DEFINE r == [call[c] EXCEPT !.st = "waiting", !.sent = 1]
  <2>1. /\ r.to = call[c].to /\ r.seq = call[c].seq /\ r.body = call[c].body
        /\ r.chan = call[c].chan /\ r.resp = call[c].resp
    BY <1>0 DEF CallRecord
  <2>2. /\ SetCall(c, r) /\ net' = Put(net, RequestOf(c)) /\ restarts' = restarts
        /\ InFlight(c) /\ call[c].st # "idle"
    BY <1>2 DEF Transmit, InFlight
  <2> HIDE DEF r
  <2> QED
    BY <2>1, <2>2, QuietCall, NetDomain
<1>3. CASE Retransmit(c)
  <2> DEFINE r == [call[c] EXCEPT !.attempts = @ + 1, !.sent = @ + 1]
  <2>1. /\ r.to = call[c].to /\ r.seq = call[c].seq /\ r.body = call[c].body
        /\ r.chan = call[c].chan /\ r.resp = call[c].resp
    BY <1>0 DEF CallRecord
  <2>2. /\ SetCall(c, r) /\ net' = Put(net, RequestOf(c)) /\ restarts' = restarts
        /\ InFlight(c) /\ call[c].st # "idle"
    BY <1>3 DEF Retransmit, InFlight
  <2> HIDE DEF r
  <2> QED
    BY <2>1, <2>2, QuietCall, NetDomain
<1>4. CASE GiveUp(c)
  <2> DEFINE r == [call[c] EXCEPT !.st = "returning", !.attempts = @ + 1,
                                  !.err = "retries"]
  <2>1. /\ r.to = call[c].to /\ r.seq = call[c].seq /\ r.body = call[c].body
        /\ r.chan = call[c].chan /\ r.resp = call[c].resp
    BY <1>0 DEF CallRecord
  <2>2. SetCall(c, r) /\ net' = net /\ restarts' = restarts
        /\ call[c].st # "idle"
    BY <1>4 DEF GiveUp
  <2> HIDE DEF r
  <2> QED
    BY <2>1, <2>2, QuietCall
<1>5. CASE SendError(c)
  <2> DEFINE r == [call[c] EXCEPT !.st = "returning", !.err = "send",
                     !.attempts = IF call[c].st = "waiting" THEN @ + 1 ELSE @]
  <2>1. /\ r.to = call[c].to /\ r.seq = call[c].seq /\ r.body = call[c].body
        /\ r.chan = call[c].chan /\ r.resp = call[c].resp
    BY <1>0 DEF CallRecord
  <2>2. SetCall(c, r) /\ net' = net /\ restarts' = restarts
        /\ call[c].st # "idle"
    BY <1>5 DEF SendError
  <2> HIDE DEF r
  <2> QED
    BY <2>1, <2>2, QuietCall
<1>6. CASE TakeResponse(c)
  <2> DEFINE r == [call[c] EXCEPT !.st = "returning", !.resp = call[c].chan,
                                  !.chan = <<>>]
  <2>1. /\ r.to = call[c].to /\ r.seq = call[c].seq /\ r.body = call[c].body
        /\ r.chan = <<>> /\ r.resp = call[c].chan
    BY <1>0 DEF CallRecord
  <2>2. SetCall(c, r) /\ net' = net /\ restarts' = restarts
        /\ call[c].st # "idle"
    BY <1>6 DEF TakeResponse
  <2> HIDE DEF r
  <2> QED
    BY <2>1, <2>2, QuietCall
<1>7. CASE TransportClosed(c)
  <2> DEFINE r == [call[c] EXCEPT !.st = "returning", !.err = "closed"]
  <2>1. /\ r.to = call[c].to /\ r.seq = call[c].seq /\ r.body = call[c].body
        /\ r.chan = call[c].chan /\ r.resp = call[c].resp
    BY <1>0 DEF CallRecord
  <2>2. SetCall(c, r) /\ net' = net /\ restarts' = restarts
        /\ call[c].st # "idle"
    BY <1>7 DEF TransportClosed
  <2> HIDE DEF r
  <2> QED
    BY <2>1, <2>2, QuietCall
<1>8. CASE Unregister(c)
  <2> DEFINE r == [call[c] EXCEPT !.st = "returned", !.chan = <<>>]
  <2>1. /\ r.to = call[c].to /\ r.seq = call[c].seq /\ r.body = call[c].body
        /\ r.chan = <<>> /\ r.resp = call[c].resp
    BY <1>0 DEF CallRecord
  <2>2. SetCall(c, r) /\ net' = net /\ restarts' = restarts
        /\ call[c].st # "idle"
    BY <1>8 DEF Unregister
  <2> HIDE DEF r
  <2> QED
    BY <2>1, <2>2, QuietCall
<1>9. CASE Resume(c)
  <2>1. /\ SetCall(c, IdleCall(c)) /\ net' = net /\ restarts' = restarts
        /\ IdleCall(c).st = "idle" /\ IdleCall(c).chan = <<>>
        /\ IdleCall(c).resp = <<>>
    BY <1>9 DEF Resume, IdleCall
  <2> QED
    BY <2>1, QuietCall
<1> QED
  BY <1>1, <1>2, <1>3, <1>4, <1>5, <1>6, <1>7, <1>8, <1>9 DEF CallerStep

\* The entry of SendRequest: the only step by which a request comes up.
LEMMA SendEffect ==
  ASSUME TransportTypeOK, NEW c \in Caller, NEW to, NEW body,
         SendRequest(c, to, body)
  PROVE  /\ \A d \in Caller \ {c} : Quiet(d)
         /\ HeldBy(c)' = {}
         /\ RequestOf(c)'.src = Home[c] /\ RequestOf(c)'.body = body
         /\ net' = net /\ restarts' = restarts
<1> DEFINE r == [IdleCall(c) EXCEPT !.st = "numbered", !.to = to,
                                    !.body = body, !.seq = seqNum[Home[c]]]
<1>1. SetCall(c, r) /\ net' = net /\ restarts' = restarts
  BY DEF SendRequest
<1>2. r.body = body /\ r.chan = <<>> /\ r.resp = <<>>
  BY DEF IdleCall
<1> HIDE DEF r
<1>3. call'[c] = r /\ \A d \in Caller \ {c} : call'[d] = call[d]
  BY <1>1, SetCallEffect DEF TransportTypeOK
<1>4. ASSUME NEW d \in Caller \ {c} PROVE Quiet(d)
  BY <1>3, SMTT(30) DEF Quiet, InFlight, RequestOf, HeldBy
<1>5. HeldBy(c)' = {}
  <2>1. \A m : <<m>> # <<>>
    OBVIOUS
  <2> QED
    BY <1>2, <1>3, <2>1 DEF HeldBy
<1>6. RequestOf(c)'.src = Home[c] /\ RequestOf(c)'.body = body
  BY <1>2, <1>3 DEF RequestOf
<1> QED
  BY <1>1, <1>4, <1>5, <1>6

\* The process of e dies, and with it the calls there.
LEMMA RestartEffect ==
  ASSUME TransportTypeOK, NEW e \in Endpoint, Restart(e)
  PROVE  /\ \A d \in Caller : Quiet(d)
         /\ net' = net
         /\ restarts'[e] # 0 /\ \A f \in Endpoint \ {e} : restarts'[f] = restarts[f]
<1>1. ASSUME NEW d \in Caller PROVE Quiet(d)
  <2>1. CASE Home[d] = e
    <3>1. call'[d].st = "idle" /\ call'[d].chan = <<>> /\ call'[d].resp = <<>>
      BY <2>1 DEF Restart, IdleCall
    <3> QED
      BY <3>1, SMTT(30) DEF Quiet, InFlight, HeldBy
  <2>2. CASE Home[d] # e
    <3>1. call'[d] = call[d]
      BY <2>2 DEF Restart
    <3> QED
      BY <3>1, SMTT(30) DEF Quiet, InFlight, RequestOf, HeldBy
  <2> QED
    BY <2>1, <2>2
<1>2. restarts'[e] # 0 /\ \A f \in Endpoint \ {e} : restarts'[f] = restarts[f]
  BY SMTT(30) DEF Restart, TransportTypeOK
<1> QED
  BY <1>1, <1>2 DEF Restart

\* handleMessage gives a message to a pending request.
LEMMA DeliverEffect ==
  ASSUME TransportTypeOK, NEW m \in DOMAIN net, DeliverToCaller(m)
  PROVE  /\ \A d \in Caller : Quiet(d)
         /\ DOMAIN net' \subseteq DOMAIN net /\ restarts' = restarts
<1> DEFINE c == Claimant(m)
           r == [call[c] EXCEPT !.chan = IF @ = <<>> THEN <<m>> ELSE @]
<1>1. c \in Caller /\ call[c] \in CallRecord
  BY SMTT(30) DEF DeliverToCaller, Claimant, TransportTypeOK, Message
<1>2. /\ r.st = call[c].st /\ r.to = call[c].to /\ r.seq = call[c].seq
      /\ r.body = call[c].body /\ r.resp = call[c].resp
      /\ r.chan \in {call[c].chan, <<m>>}
  BY <1>1 DEF CallRecord
<1>3. SetCall(c, r) /\ net' = Take(net, m) /\ restarts' = restarts
  BY DEF DeliverToCaller
<1> HIDE DEF c, r
<1> QED
  BY <1>1, <1>2, <1>3, QuietCall, NetDomain

-----------------------------------------------------------------------------
(***************************************************************************)
(* Every step keeps AssociationInv.                                        *)
(***************************************************************************)

\* No association of a node that did not ask for it goes.
Kept ==
  /\ released \subseteq released'
  /\ restarts'[CP] = 0 =>
       /\ restarts[CP] = 0
       /\ \A u \in UP \ released' : associations[u] # <<>> => associations'[u] # <<>>

\* New messages are as they should be, and so are new requests.
LEMMA MessagesStep ==
  ASSUME TransportTypeOK, MessagesOK, Kept,
         \A m \in DOMAIN net' \ DOMAIN net : SentBy(m)' /\ Granted(m)',
         \A c \in Caller : \/ Quiet(c)
                           \/ SentBy(RequestOf(c))' /\ HeldBy(c)' = {}
  PROVE  MessagesOK'
<1>1. ASSUME NEW m, SentBy(m) PROVE SentBy(m)'
  BY <1>1 DEF SentBy, Kept
<1>2. ASSUME NEW m, restarts'[CP] = 0, Granted(m) PROVE Granted(m)'
  BY <1>2 DEF Granted, Kept
<1>3. \A m \in DOMAIN net' : SentBy(m)'
  BY <1>1 DEF MessagesOK
<1>4. ASSUME NEW c \in Caller, InFlight(c)' PROVE SentBy(RequestOf(c))'
  <2>1. CASE Quiet(c)
    <3>1. SentBy(RequestOf(c)) /\ RequestOf(c)' = RequestOf(c)
      BY <1>4, <2>1 DEF MessagesOK, Quiet
    <3> QED
      BY <3>1 DEF SentBy, Kept
  <2> QED
    BY <2>1
<1>5. ASSUME restarts'[CP] = 0 PROVE GrantsOK'
  <2>1. GrantsOK
    BY <1>5 DEF MessagesOK, Kept
  <2>2. \A m \in DOMAIN net' : Granted(m)'
    BY <1>2, <1>5, <2>1 DEF GrantsOK
  <2>3. ASSUME NEW c \in Caller, NEW m \in HeldBy(c)' PROVE Granted(m)'
    <3>1. m \in HeldBy(c) \cup DOMAIN net
      BY <2>3 DEF Quiet
    <3> QED
      BY <1>2, <1>5, <2>1, <3>1 DEF GrantsOK
  <2> QED
    BY <2>2, <2>3 DEF GrantsOK
<1> QED
  BY <1>3, <1>4, <1>5 DEF MessagesOK

\* A step that leaves associations and upState alone.
LEMMA StatesStep ==
  ASSUME TransportTypeOK, StatesOK, Kept,
         UNCHANGED <<associations, setups, upState>>
  PROVE  StatesOK'
BY DEF StatesOK, Kept, AssociationAgreed

\* A call goes on, and may put its request on the wire, which claims nothing.
LEMMA CallKeeps ==
  ASSUME TransportTypeOK, MessagesOK, Kept, NEW c \in Caller,
         CallerStep(c) \/ Resume(c)
  PROVE  MessagesOK'
<1>1. /\ \A d \in Caller : Quiet(d)
      /\ DOMAIN net' \subseteq
           DOMAIN net \cup (IF InFlight(c) THEN {RequestOf(c)} ELSE {})
  BY CallerStepEffect
<1>2. ASSUME NEW m, m = RequestOf(c), InFlight(c)
      PROVE  SentBy(m)' /\ Granted(m)'
  <2>1. SentBy(m)
    BY <1>2 DEF MessagesOK
  <2>2. m.body \in Request
    BY <1>2, FieldsType DEF RequestOf, TransportTypeOK
  <2>3. m.body.cause # CauseRequestAccepted
    BY <2>2, RequestsHaveNoCause
  <2> QED
    BY <2>1, <2>3 DEF SentBy, Granted, Kept
<1>3. \A m \in DOMAIN net' \ DOMAIN net : SentBy(m)' /\ Granted(m)'
  BY <1>1, <1>2
<1> QED
  BY <1>1, <1>3, MessagesStep

\* A call of a goroutine that may send this request.
LEMMA SendKeeps ==
  ASSUME TransportTypeOK, MessagesOK, Kept, NEW c \in Caller, NEW to, NEW body,
         SendRequest(c, to, body),
         body.type \in {"SessionEstablishmentRequest", "SessionDeletionRequest"}
           => Home[c] = CP,
         body.type = "AssociationSetupRequest" => Home[c] \in UP,
         body.type = "AssociationReleaseRequest" => Home[c] \in released'
  PROVE  MessagesOK'
<1>1. /\ \A d \in Caller \ {c} : Quiet(d)
      /\ HeldBy(c)' = {} /\ net' = net
      /\ RequestOf(c)'.src = Home[c] /\ RequestOf(c)'.body = body
  BY SendEffect
<1>2. SentBy(RequestOf(c))'
  BY <1>1 DEF SentBy
<1> QED
  BY <1>1, <1>2, MessagesStep

\* A handler whose accepted Cause, if it goes to a user plane, is deserved.
LEMMA AnswerKeeps ==
  ASSUME TransportTypeOK, MessagesOK, Kept, NEW m \in DOMAIN net,
         NEW body \in Response, HandleAndAnswer(m, body),
         body.cause = CauseRequestAccepted /\ m.src \in UP \ released' =>
           associations'[m.src] # <<>>
  PROVE  MessagesOK'
<1> DEFINE answer == [src |-> m.dst, dst |-> m.src, seq |-> m.seq, body |-> body]
<1>1. DOMAIN net' \subseteq DOMAIN net \cup {answer} /\ call' = call
  BY NetDomain, SMTT(30) DEF HandleAndAnswer
<1>2. SentBy(answer)' /\ Granted(answer)'
  BY ResponseTypes DEF SentBy, Granted
<1>3. \A c \in Caller : Quiet(c)
  BY <1>1 DEF Quiet, InFlight, RequestOf, HeldBy
<1> HIDE DEF answer
<1>4. ASSUME NEW n \in DOMAIN net' \ DOMAIN net PROVE SentBy(n)' /\ Granted(n)'
  <2>1. n = answer
    BY <1>1
  <2> QED
    BY <1>2, <2>1 DEF SentBy, Granted
<1> QED
  BY <1>3, <1>4, MessagesStep

\* No message comes up.
LEMMA NothingNew ==
  ASSUME TransportTypeOK, MessagesOK, Kept, DOMAIN net' \subseteq DOMAIN net,
         \A c \in Caller : Quiet(c)
  PROVE  MessagesOK'
BY MessagesStep

LEMMA CallsAlone ==
  ASSUME UNCHANGED call
  PROVE  \A c \in Caller : Quiet(c)
BY DEF Quiet, InFlight, RequestOf, HeldBy

\* A step of a call, of the network, or of neither, and nothing else.
LEMMA PlainStep ==
  ASSUME TransportTypeOK, AssociationInv,
         UNCHANGED <<associations, setups, upState, released>>,
         \/ UNCHANGED <<net, call, restarts>>
         \/ \E c \in Caller : CallerStep(c) \/ Resume(c)
         \/ \E m \in DOMAIN net :
              DeliverToCaller(m) \/ Duplicate(m) \/ HandleSilently(m)
  PROVE  AssociationInv'
<1>0. MessagesOK /\ StatesOK
  BY DEF AssociationInv
<1>1. restarts' = restarts
  BY CallerStepEffect DEF DeliverToCaller, Duplicate, HandleSilently
<1>2. Kept
  BY <1>1 DEF Kept
<1>3. StatesOK'
  BY <1>0, <1>2, StatesStep
<1>4. CASE UNCHANGED <<net, call, restarts>>
  BY <1>0, <1>2, <1>3, <1>4, CallsAlone, NothingNew DEF AssociationInv
<1>5. ASSUME NEW c \in Caller, CallerStep(c) \/ Resume(c) PROVE AssociationInv'
  BY <1>0, <1>2, <1>3, <1>5, CallKeeps DEF AssociationInv
<1>6. ASSUME NEW m \in DOMAIN net, DeliverToCaller(m) PROVE AssociationInv'
  BY <1>0, <1>2, <1>3, <1>6, DeliverEffect, NothingNew DEF AssociationInv
<1>7. ASSUME NEW m \in DOMAIN net, Duplicate(m) \/ HandleSilently(m)
      PROVE  AssociationInv'
  <2>1. DOMAIN net' \subseteq DOMAIN net /\ UNCHANGED call
    BY <1>7, NetDomain, SMTT(30) DEF Duplicate, HandleSilently
  <2> QED
    BY <1>0, <1>2, <1>3, <2>1, CallsAlone, NothingNew DEF AssociationInv
<1> QED
  BY <1>4, <1>5, <1>6, <1>7

\* The steps of the control plane's goroutines but for HeartbeatDone.
LEMMA ControlPlaneKeeps ==
  ASSUME PFCPInv, AssociationInv, UNCHANGED upVars,
         \/ HeartbeatTick \/ SendHeartbeat
         \/ \E w \in Worker :
              \/ WorkerStep(w)
              \/ \E u \in UP, r \in Rules : CreateSession(w, u, r)
              \/ \E s \in DOMAIN sessions : DeleteSession(w, s)
  PROVE  AssociationInv'
<1>0. /\ TransportTypeOK /\ MessagesOK /\ StatesOK
      /\ \A w \in Worker \cup {HB} : w \in Caller /\ Home[w] = CP
  BY Homes DEF PFCPInv, AssociationInv
<1>1. UNCHANGED <<associations, setups, upState, released>>
  BY DEF HeartbeatTick, SendHeartbeat, WorkerStep, AllocSEID,
     SendEstablishment, EstablishmentDone, InsertSession, StoreSession,
     FindAssociation, SendDeletion, DeletionDone, RemoveSession,
     StoreDeleteSession, StoreWrite, CreateSession, DeleteSession, cpVars, upVars
<1>2. ASSUME NEW c \in Caller, Home[c] = CP, NEW to, NEW body,
             SendRequest(c, to, body),
             body.type \notin {"AssociationSetupRequest",
                               "AssociationReleaseRequest"}
      PROVE  AssociationInv'
  <2>1. Kept
    BY <1>1, <1>2, SendEffect, <1>0 DEF Kept
  <2> QED
    BY <1>0, <1>1, <1>2, <2>1, SendKeeps, StatesStep DEF AssociationInv
<1>3. CASE SendHeartbeat
  <2>1. PICK a \in heartbeat.todo : SendRequest(HB, a[1], HeartbeatRequest)
    BY <1>3 DEF SendHeartbeat
  <2>2. HeartbeatRequest.type = "HeartbeatRequest"
    BY DEF HeartbeatRequest, Body
  <2> QED
    BY <1>0, <1>2, <2>1, <2>2
<1>4. ASSUME NEW w \in Worker, SendEstablishment(w) PROVE AssociationInv'
  <2>1. SessionEstablishmentRequest(0, worker[w].rules).type =
          "SessionEstablishmentRequest"
    BY DEF SessionEstablishmentRequest, Body
  <2> QED
    BY <1>0, <1>2, <1>4, <2>1 DEF SendEstablishment
<1>5. ASSUME NEW w \in Worker, SendDeletion(w) PROVE AssociationInv'
  <2>1. SessionDeletionRequest(worker[w].remoteSEID).type =
          "SessionDeletionRequest"
    BY DEF SessionDeletionRequest, Body
  <2> QED
    BY <1>0, <1>2, <1>5, <2>1 DEF SendDeletion
<1>6. ASSUME NEW w \in Worker,
             CallerStep(w) \/ EstablishmentDone(w) \/ DeletionDone(w)
      PROVE  AssociationInv'
  BY <1>0, <1>1, <1>6, PlainStep DEF EstablishmentDone, DeletionDone
<1>7. CASE UNCHANGED transportVars
  BY <1>0, <1>1, <1>7, PlainStep DEF transportVars
<1>8. CASE \/ HeartbeatTick
           \/ \E w \in Worker :
                \/ AllocSEID(w) \/ InsertSession(w) \/ StoreSession(w)
                \/ FindAssociation(w) \/ RemoveSession(w)
                \/ StoreDeleteSession(w)
                \/ \E u \in UP, r \in Rules : CreateSession(w, u, r)
                \/ \E s \in DOMAIN sessions : DeleteSession(w, s)
  <2>1. UNCHANGED transportVars
    BY <1>8 DEF HeartbeatTick, AllocSEID, InsertSession, StoreSession,
       FindAssociation, RemoveSession, StoreDeleteSession, StoreWrite,
       CreateSession, DeleteSession
  <2> QED
    BY <1>7, <2>1
<1> QED
  BY <1>3, <1>4, <1>5, <1>6, <1>8 DEF WorkerStep

\* HeartbeatDone touches the Association it finds, and removes none.
LEMMA HeartbeatDoneKeeps ==
  ASSUME PFCPInv, AssociationInv, HeartbeatDone, UNCHANGED upVars
  PROVE  AssociationInv'
<1> DEFINE u == heartbeat.node
           a == associations[u]
           Record == [id: Nat, heard: BOOLEAN]
<1>0. /\ TransportTypeOK /\ MessagesOK /\ StatesOK /\ HB \in Caller
      /\ Resume(HB) /\ UNCHANGED <<setups, upState, released>>
  BY Homes DEF PFCPInv, AssociationInv, HeartbeatDone, upVars
<1>1. restarts' = restarts
  BY <1>0 DEF Resume
<1>2. CASE associations' = associations
  BY <1>0, <1>2, PlainStep
<1>3. CASE a # <<>> /\ associations' = [associations EXCEPT ![u] =
                                         <<[id |-> a[1].id, heard |-> TRUE]>>]
  <2>1. associations \in [UP -> Option(Record)]
    BY <1>0 DEF StatesOK
  <2>2. CASE u \notin UP
    <3>1. associations' = associations
      BY <1>3, <2>1, <2>2
    <3> QED
      BY <1>2, <3>1
  <2>3. CASE u \in UP
    <3>1. PICK r \in Record : a = <<r>>
      BY <1>3, <2>1, <2>3 DEF Option
    <3>2. a[1].id \in Nat
      BY <3>1, SMTT(30)
    <3>3. /\ <<[id |-> a[1].id, heard |-> TRUE]>> \in Option(Record)
          /\ <<[id |-> a[1].id, heard |-> TRUE]>> # <<>>
      BY <3>2 DEF Option
    <3>4. /\ associations' \in [UP -> Option(Record)]
          /\ \A x \in UP : associations[x] # <<>> => associations'[x] # <<>>
      BY <1>3, <2>1, <3>3
    <3>5. Kept
      BY <1>0, <1>1, <3>4 DEF Kept
    <3>6. MessagesOK'
      BY <1>0, <3>5, CallKeeps
    <3>7. StatesOK'
      BY <1>0, <1>1, <3>4 DEF StatesOK, AssociationAgreed
    <3> QED
      BY <3>6, <3>7 DEF AssociationInv
  <2> QED
    BY <2>2, <2>3
<1> QED
  BY <1>2, <1>3 DEF HeartbeatDone

\* upState of one node is set, and associations are left alone.
LEMMA StatesOfUserPlane ==
  ASSUME TransportTypeOK, StatesOK, Kept, UNCHANGED <<associations, setups>>,
         NEW u \in UP, NEW st \in UPStates,
         upState' = [upState EXCEPT ![u] = st],
         st = "up" /\ u \notin released' /\ restarts'[CP] = 0 =>
           associations[u] # <<>>
  PROVE  StatesOK'
BY DEF StatesOK, Kept, AssociationAgreed

\* Start, heartbeatLoop and a release; AssociationDone is what it is all for.
LEMMA UserPlaneKeeps ==
  ASSUME PFCPInv, OutcomeSound, AssociationInv, UNCHANGED cpVars, NEW u \in UP,
         UPGoroutine(u) \/ UPHeartbeat(u) \/ ReleaseAssociation(u)
  PROVE  AssociationInv'
<1>0. /\ TransportTypeOK /\ MessagesOK /\ StatesOK
      /\ u \in Caller /\ Home[u] = u /\ UNCHANGED <<associations, setups>>
  BY Homes DEF PFCPInv, AssociationInv, cpVars
<1>1. CASE (CallerStep(u) /\ UNCHANGED upVars) \/ UPHeartbeatDone(u)
  BY <1>0, <1>1, PlainStep DEF UPHeartbeatDone, upVars
<1>2. CASE EstablishAssociation(u)
  <2>1. SendRequest(u, CP, AssociationSetupRequest) /\ UNCHANGED released
        /\ AssociationSetupRequest.type = "AssociationSetupRequest"
    BY <1>2 DEF EstablishAssociation, AssociationSetupRequest, Body
  <2>2. Kept
    BY <1>0, <2>1, SendEffect DEF Kept
  <2>3. StatesOK'
    BY <1>0, <1>2, <2>2, StatesOfUserPlane DEF EstablishAssociation, UPStates
  <2> QED
    BY <1>0, <2>1, <2>2, <2>3, SendKeeps DEF AssociationInv
<1>3. CASE UPHeartbeat(u)
  <2>1. SendRequest(u, CP, HeartbeatRequest) /\ UNCHANGED <<released, upState>>
        /\ HeartbeatRequest.type = "HeartbeatRequest"
    BY <1>3 DEF UPHeartbeat, HeartbeatRequest, Body, upVars
  <2>2. Kept
    BY <1>0, <2>1, SendEffect DEF Kept
  <2> QED
    BY <1>0, <2>1, <2>2, SendKeeps, StatesStep DEF AssociationInv
<1>4. CASE ReleaseAssociation(u)
  <2>1. SendRequest(u, CP, AssociationReleaseRequest)
        /\ released' = released \cup {u}
        /\ AssociationReleaseRequest.type = "AssociationReleaseRequest"
    BY <1>4 DEF ReleaseAssociation, AssociationReleaseRequest, Body
  <2>2. Kept
    BY <1>0, <2>1, SendEffect DEF Kept
  <2>3. StatesOK'
    BY <1>0, <1>4, <2>2, StatesOfUserPlane DEF ReleaseAssociation, UPStates
  <2> QED
    BY <1>0, <2>1, <2>2, <2>3, SendKeeps DEF AssociationInv
<1>5. CASE AssociationDone(u)
  <2>1. Resume(u) /\ UNCHANGED released /\ call[u].st = "returned"
    BY <1>5 DEF AssociationDone, Resume
  <2>2. Kept
    BY <1>0, <2>1 DEF Kept, Resume
  <2>3. ASSUME Accepted(u), u \notin released, restarts[CP] = 0
        PROVE  associations[u] # <<>>
    <3>1. call[u].resp \in Option(Message) /\ call[u].resp # <<>>
      BY <1>0, <2>3, FieldsType DEF Accepted, TransportTypeOK
    <3>2. PICK m \in Message : call[u].resp = <<m>>
      BY <3>1 DEF Option
    <3>3. Granted(m)
      BY <1>0, <2>3, <3>2 DEF HeldBy, MessagesOK, GrantsOK
    <3>4. call[u].resp[1] = m
      BY <3>2, SMTT(30)
    <3>5. m.dst = u
      BY <1>0, <2>1, <3>1, <3>4 DEF OutcomeSound
    <3> QED
      BY <2>3, <3>3, <3>4, <3>5 DEF Granted, Accepted
  <2>4. StatesOK'
    <3>1. CASE Accepted(u)
      <4>1. upState' = [upState EXCEPT ![u] = "up"]
        BY <1>5, <3>1 DEF AssociationDone
      <4> QED
        BY <1>0, <2>1, <2>2, <2>3, <3>1, <4>1, StatesOfUserPlane
           DEF UPStates, Kept
    <3>2. CASE ~Accepted(u)
      <4>1. upState' = [upState EXCEPT ![u] = "failed"]
        BY <1>5, <3>2 DEF AssociationDone
      <4> QED
        BY <1>0, <2>2, <4>1, StatesOfUserPlane DEF UPStates
    <3> QED
      BY <3>1, <3>2
  <2> QED
    BY <1>0, <2>1, <2>2, <2>4, CallKeeps DEF AssociationInv
<1> QED
  BY <1>1, <1>2, <1>3, <1>4, <1>5 DEF UPGoroutine

\* The handlers of a user plane answer the control plane, or without a Cause.
LEMMA UPHandlerKeeps ==
  ASSUME PFCPInv, AssociationInv, UNCHANGED cpVars, NEW u \in UP,
         NEW m \in DOMAIN net, UPHandler(u, m) \/ UPDrop(u, m)
  PROVE  AssociationInv'
<1>0. /\ TransportTypeOK /\ MessagesOK /\ StatesOK /\ CP \notin UP
      /\ m.body.seid \in HeaderSEID /\ SentBy(m)
      /\ UNCHANGED <<associations, setups>>
  BY PFCPAssumption, BodySEID
     DEF PFCPInv, AssociationInv, MessagesOK, cpVars, TransportTypeOK, Message
<1>1. UNCHANGED <<upState, released>>
  BY DEF UPHandler, HandleSessionEstablishmentRequest,
     HandleSessionDeletionRequest, UPHandleHeartbeatRequest, UPDrop, upVars
<1>2. CASE UPDrop(u, m)
  BY <1>0, <1>1, <1>2, PlainStep DEF UPDrop
<1>3. ASSUME NEW body \in Response, HandleAndAnswer(m, body),
             m.src = CP \/ body.cause # CauseRequestAccepted
      PROVE  AssociationInv'
  <2>1. Kept
    BY <1>0, <1>1, <1>3 DEF Kept, HandleAndAnswer
  <2> QED
    BY <1>0, <1>1, <1>3, <2>1, AnswerKeeps, StatesStep DEF AssociationInv
<1>4. CASE HandleSessionEstablishmentRequest(u, m)
  BY <1>0, <1>3, <1>4, BodiesCarried
     DEF HandleSessionEstablishmentRequest, HandledAs, SentBy
<1>5. CASE HandleSessionDeletionRequest(u, m)
  BY <1>0, <1>3, <1>5, BodiesCarried
     DEF HandleSessionDeletionRequest, HandledAs, SentBy
<1>6. CASE UPHandleHeartbeatRequest(u, m)
  <2>1. HeartbeatResponse.cause # CauseRequestAccepted
    BY SMTT(30) DEF HeartbeatResponse, Body, NoCause, CauseRequestAccepted
  <2> QED
    BY <1>3, <1>6, <2>1, BodiesCarried DEF UPHandleHeartbeatRequest
<1> QED
  BY <1>2, <1>4, <1>5, <1>6 DEF UPHandler

\* The handlers of the control plane: a setup is answered once it is recorded,
\* and an association ends only when its node asked for it.
LEMMA CPHandlerKeeps ==
  ASSUME PFCPInv, AssociationInv, UNCHANGED upVars, NEW m \in DOMAIN net,
         \/ HandleAssociationSetupRequest(m)
         \/ HandleAssociationReleaseRequest(m)
         \/ CPHandleHeartbeatRequest(m) \/ CPDrop(m)
  PROVE  AssociationInv'
<1>0. /\ TransportTypeOK /\ MessagesOK /\ StatesOK /\ SentBy(m)
      /\ UNCHANGED <<upState, released>>
  BY DEF PFCPInv, AssociationInv, MessagesOK, upVars
<1>1. CASE CPDrop(m)
  BY <1>0, <1>1, PlainStep DEF CPDrop, cpVars
<1>2. CASE CPHandleHeartbeatRequest(m)
  <2>1. HeartbeatResponse.cause # CauseRequestAccepted
    BY SMTT(30) DEF HeartbeatResponse, Body, NoCause, CauseRequestAccepted
  <2>2. HandleAndAnswer(m, HeartbeatResponse)
        /\ UNCHANGED <<associations, setups>>
    BY <1>2 DEF CPHandleHeartbeatRequest, cpVars
  <2>3. Kept
    BY <1>0, <2>2 DEF Kept, HandleAndAnswer
  <2> QED
    BY <1>0, <2>1, <2>2, <2>3, AnswerKeeps, StatesStep, BodiesCarried
       DEF AssociationInv
<1>3. CASE HandleAssociationSetupRequest(m)
  <2> DEFINE record == <<[id |-> setups + 1, heard |-> FALSE]>>
             answer == AssociationSetupResponse(CauseRequestAccepted)
  <2>1. /\ m.src \in UP /\ HandleAndAnswer(m, answer)
        /\ answer \in Response
        /\ associations' = [associations EXCEPT ![m.src] = record]
        /\ setups' = setups + 1
    BY <1>0, <1>3, BodiesCarried
       DEF HandleAssociationSetupRequest, HandledAs, SentBy
  <2>2. /\ setups \in Nat /\ record # <<>>
        /\ record \in Option([id: Nat, heard: BOOLEAN])
    <3>1. setups \in Nat
      BY <1>0 DEF StatesOK
    <3>2. [id |-> setups + 1, heard |-> FALSE] \in [id: Nat, heard: BOOLEAN]
      BY <3>1, SMTT(30)
    <3> QED
      BY <3>1, <3>2 DEF Option
  <2> HIDE DEF record, answer
  <2>3. /\ \A u \in UP : associations[u] # <<>> => associations'[u] # <<>>
        /\ associations'[m.src] # <<>>
        /\ associations' \in [UP -> Option([id: Nat, heard: BOOLEAN])]
    BY <1>0, <2>1, <2>2 DEF StatesOK
  <2>4. Kept
    BY <1>0, <2>1, <2>3 DEF Kept, HandleAndAnswer
  <2>5. MessagesOK'
    BY <1>0, <2>1, <2>3, <2>4, AnswerKeeps
  <2>6. StatesOK'
    <3>1. AssociationAgreed'
      BY <1>0, <2>3, <2>4 DEF StatesOK, Kept, AssociationAgreed
    <3>2. setups' \in Nat
      BY <2>1, <2>2, SMTT(30)
    <3> QED
      BY <1>0, <2>3, <3>1, <3>2 DEF StatesOK
  <2> QED
    BY <2>5, <2>6 DEF AssociationInv
<1>4. CASE HandleAssociationReleaseRequest(m)
  <2> DEFINE answer == AssociationReleaseResponse(CauseRequestAccepted)
  <2>1. /\ m.src \in released /\ HandleAndAnswer(m, answer)
        /\ answer \in Response /\ setups' = setups
        /\ associations' = [associations EXCEPT ![m.src] = <<>>]
    BY <1>0, <1>4, BodiesCarried
       DEF HandleAssociationReleaseRequest, HandledAs, SentBy
  <2> HIDE DEF answer
  <2>2. <<>> \in Option([id: Nat, heard: BOOLEAN])
    BY DEF Option
  <2>3. /\ \A u \in UP \ released : associations'[u] = associations[u]
        /\ associations' \in [UP -> Option([id: Nat, heard: BOOLEAN])]
    BY <1>0, <2>1, <2>2 DEF StatesOK
  <2>4. Kept
    BY <1>0, <2>1, <2>3 DEF Kept, HandleAndAnswer
  <2>5. MessagesOK'
    BY <1>0, <2>1, <2>4, AnswerKeeps
  <2>6. StatesOK'
    BY <1>0, <2>1, <2>3, <2>4 DEF StatesOK, Kept, AssociationAgreed
  <2> QED
    BY <2>5, <2>6 DEF AssociationInv
<1> QED
  BY <1>1, <1>2, <1>3, <1>4

\* A restart on either side.
LEMMA RestartKeeps ==
  ASSUME PFCPInv, AssociationInv,
         \/ CPRestart /\ UNCHANGED upVars
         \/ \E u \in UP : UPRestart(u) /\ UNCHANGED cpVars
  PROVE  AssociationInv'
<1>0. TransportTypeOK /\ MessagesOK /\ StatesOK /\ CP \in Endpoint
  BY Homes DEF PFCPInv, AssociationInv
<1>1. CASE CPRestart /\ UNCHANGED upVars
  <2>1. Restart(CP) /\ UNCHANGED <<setups, upState, released>>
        /\ associations' = [u \in UP |-> <<>>]
    BY <1>1 DEF CPRestart, upVars
  <2>2. /\ \A d \in Caller : Quiet(d)
        /\ net' = net /\ restarts'[CP] # 0
    BY <1>0, <2>1, RestartEffect
  <2>3. Kept
    BY <2>1, <2>2 DEF Kept
  <2>4. associations' \in [UP -> Option([id: Nat, heard: BOOLEAN])]
    BY <2>1 DEF Option
  <2>5. StatesOK'
    BY <1>0, <2>1, <2>2, <2>4 DEF StatesOK, AssociationAgreed
  <2> QED
    BY <1>0, <2>2, <2>3, <2>5, NothingNew DEF AssociationInv
<1>2. ASSUME NEW u \in UP, UPRestart(u), UNCHANGED cpVars
      PROVE  AssociationInv'
  <2>1. Restart(u) /\ UNCHANGED <<associations, setups, released>>
        /\ upState' = [upState EXCEPT ![u] = "starting"]
    BY <1>2 DEF UPRestart, cpVars
  <2>2. /\ \A d \in Caller : Quiet(d)
        /\ net' = net /\ restarts'[CP] = restarts[CP]
    BY <1>0, <2>1, RestartEffect, Homes
  <2>3. Kept
    BY <2>1, <2>2 DEF Kept
  <2>4. StatesOK'
    BY <1>0, <2>1, <2>3, StatesOfUserPlane DEF UPStates
  <2> QED
    BY <1>0, <2>2, <2>3, <2>4, NothingNew DEF AssociationInv
<1> QED
  BY <1>1, <1>2

LEMMA AssociationInvInit == Init => AssociationInv
<1> SUFFICES ASSUME Init PROVE AssociationInv
  OBVIOUS
<1>1. /\ DOMAIN net = {}
      /\ \A c \in Caller : /\ call[c].st = "idle" /\ call[c].chan = <<>>
                           /\ call[c].resp = <<>>
  BY DEF Init, TransportInit, IdleCall, EmptyNet
<1>2. \A c \in Caller : HeldBy(c) = {} /\ ~InFlight(c)
  <2>1. \A m : <<m>> # <<>>
    OBVIOUS
  <2> QED
    BY <1>1, <2>1 DEF HeldBy, InFlight
<1>3. MessagesOK
  BY <1>1, <1>2 DEF MessagesOK, GrantsOK
<1>4. StatesOK
  BY DEF Init, CPInit, UPInit, StatesOK, UPStates, Option, AssociationAgreed
<1> QED
  BY <1>3, <1>4 DEF AssociationInv

LEMMA AssociationInvStep ==
  PFCPInv /\ OutcomeSound /\ AssociationInv /\ [Next]_vars => AssociationInv'
<1> SUFFICES ASSUME PFCPInv, OutcomeSound, AssociationInv, [Next]_vars
             PROVE  AssociationInv'
  OBVIOUS
<1>0. TransportTypeOK /\ HB \in Caller
  BY Homes DEF PFCPInv
<1>1. CASE UNCHANGED vars
  BY <1>0, <1>1, PlainStep DEF vars, transportVars, cpVars, upVars
<1>2. CASE CPNext /\ UNCHANGED upVars
  <2>1. CASE CallerStep(HB) /\ UNCHANGED cpVars
    BY <1>0, <1>2, <2>1, PlainStep DEF cpVars, upVars
  <2> QED
    BY <1>2, <2>1, ControlPlaneKeeps, HeartbeatDoneKeeps, CPHandlerKeeps,
       RestartKeeps DEF CPNext, HeartbeatStep
<1>3. CASE \E u \in UP : UPNext(u) /\ UNCHANGED cpVars
  BY <1>3, UserPlaneKeeps, UPHandlerKeeps, RestartKeeps DEF UPNext
<1>4. CASE \E m \in DOMAIN net : Deliver(m) \/ Duplicated(m)
  BY <1>0, <1>4, PlainStep DEF Deliver, Duplicated, cpVars, upVars
<1> QED
  BY <1>1, <1>2, <1>3, <1>4 DEF Next

\* The invariant holds in every state of the system.
LEMMA AssociationInvariant == Spec => []AssociationInv
<1>1. Spec => []OutcomeSound
  BY PFCPImplementsTransport, OutcomeIsSound, PTL
<1> QED
  BY <1>1, PFCPInvariant, AssociationInvInit, AssociationInvStep, PTL DEF Spec

(***************************************************************************)
(* For every number of user planes, calls, copies and restarts of user     *)
(* planes: when establishAssociation returned without an error, the        *)
(* control plane has the node in its associations, although the answer may *)
(* have been one to an earlier life of the node, unless the node asked to  *)
(* be released or the control plane restarted.                             *)
(***************************************************************************)
THEOREM AssociationsAgree == Spec => []AssociationAgreed
<1>1. AssociationInv => AssociationAgreed
  BY DEF AssociationInv, StatesOK
<1> QED
  BY <1>1, AssociationInvariant, PTL
=============================================================================
