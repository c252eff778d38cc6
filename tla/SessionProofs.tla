---------------------------- MODULE SessionProofs ----------------------------
(***************************************************************************)
(* The proofs about the sessions of the two sides: the ones the control    *)
(* plane lists exist at the user plane, because a deletion always names    *)
(* SEID 0 and a user plane so gives none of them up.                       *)
(***************************************************************************)
EXTENDS AnswerProofs, WellFoundedInduction

\* Zenon tries a step first; a step with arithmetic or records names SMT.
USE ZenonT(20), SMTT(30)

(***************************************************************************)
(* The messages that are in the network, that a call holds, and that a     *)
(* call may send again.                                                    *)
(***************************************************************************)
Carried ==
  DOMAIN net \cup {m \in Message : \E c \in Caller :
                     m \in HeldBy(c) \/ (InFlight(c) /\ m = RequestOf(c))}

(***************************************************************************)
(* Every header has SEID 0: the establishment request is sent with it, the *)
(* answer repeats it, and the deletion takes it from there.                *)
(***************************************************************************)
SEIDsZero ==
  /\ \A m \in Carried : m.body.seid = 0
  /\ \A w \in Worker : worker[w].remoteSEID = 0
  /\ \A s \in DOMAIN sessions : sessions[s].remoteSEID = 0

\* A user plane's own SEIDs are positive.
KeysOK ==
  /\ DOMAIN upSessions = UP
  /\ \A u \in UP : /\ IsFiniteSet(DOMAIN upSessions[u])
                   /\ DOMAIN upSessions[u] \subseteq Nat \ {0}

(***************************************************************************)
(* q is the number of a request for these rules, given out already; so a   *)
(* session of a user plane, which keeps both, fits the call that asked for *)
(* it as long as that call lasts.                                          *)
(***************************************************************************)
Asked(q, rules) ==
  /\ q \in Nat /\ q < seqNum[CP]
  /\ \A c \in Caller : InFlight(c) /\ Home[c] = CP /\ call[c].seq = q =>
       call[c].body.rules = rules

RecordOK(u, t) ==
  FirstLife(CP) => Asked(upSessions[u][t].req, upSessions[u][t].rules)

RecordsOK == \A u \in UP : \A t \in DOMAIN upSessions[u] : RecordOK(u, t)

(***************************************************************************)
(* u has a session that the request with number q made, with these rules.  *)
(***************************************************************************)
Backed(u, q, rules) ==
  FirstLife(CP) /\ FirstLife(u) =>
    \E t \in DOMAIN upSessions[u] :
      upSessions[u][t].req = q /\ upSessions[u][t].rules = rules

\* A session is there when the answer to its establishment is on its way.
EstablishedOK(m) ==
  m.body.type = "SessionEstablishmentResponse" =>
    /\ m.src \in UP
    /\ FirstLife(CP) /\ FirstLife(m.src) =>
         \E t \in DOMAIN upSessions[m.src] : upSessions[m.src][t].req = m.seq

\* A CreateSession in SendRequest has sent what its locals say.
CallOf(w) ==
  worker[w].op = "create" /\ worker[w].pc = "sending" /\ InFlight(w) =>
    /\ call[w].to = worker[w].node
    /\ call[w].body = SessionEstablishmentRequest(0, worker[w].rules)

BackedInv ==
  /\ \A m \in Carried : EstablishedOK(m)
  /\ \A w \in Worker :
       /\ CallOf(w)
       /\ worker[w].pc = "insert" =>
            Backed(worker[w].node, worker[w].req, worker[w].rules)
  /\ \A s \in DOMAIN sessions :
       Backed(sessions[s].node, sessions[s].req, sessions[s].rules)

\* The inductive invariant.
SessionInv == SEIDsZero /\ KeysOK /\ RecordsOK /\ BackedInv

-----------------------------------------------------------------------------
(***************************************************************************)
(* allocSEID of a user plane.                                              *)
(***************************************************************************)

\* There is a SEID to find: so many sessions cannot have one more than that.
LEMMA FreeSEIDExists ==
  ASSUME NEW held, IsFiniteSet(held)
  PROVE  \E s \in 1 .. Cardinality(held) + 1 : s \notin held
<1> DEFINE n == Cardinality(held)
           S == 1 .. n + 1
<1>0. n \in Nat
  BY FS_CardinalityType
<1>1. IsFiniteSet(S) /\ Cardinality(S) = n + 1
  BY <1>0, FS_Interval, SMTT(30)
<1>2. ASSUME S \subseteq held PROVE FALSE
  <2>1. Cardinality(S) <= n
    BY <1>2, FS_Subset
  <2> QED
    BY <1>0, <1>1, <2>1, SMTT(30)
<1> QED
  BY <1>2

\* The SEID it returns is positive and of no session.
LEMMA AllocUPSEIDFresh ==
  ASSUME NEW held, IsFiniteSet(held)
  PROVE  AllocUPSEID(held) \in Nat \ {0} /\ AllocUPSEID(held) \notin held
<1> DEFINE n == Cardinality(held)
           Free == {s \in 1 .. n + 1 : s \notin held}
           Below == {1 .. t : t \in Free}
<1>0. n \in Nat
  BY FS_CardinalityType
<1> HIDE DEF n
<1>1. PICK s \in Free : \A t \in Free : ~ (t < s)
  <2>1. Free \subseteq Nat /\ Free # {}
    BY <1>0, FreeSEIDExists, SMTT(30) DEF n
  <2>2. Below \subseteq FiniteSubsetsOf(Nat) /\ Below # {}
    <3>1. ASSUME NEW t \in Free PROVE IsFiniteSet(1 .. t) /\ 1 .. t \subseteq Nat
      BY <2>1, FS_Interval, SMTT(30)
    <3> QED
      BY <2>1, <3>1 DEF FiniteSubsetsOf
  <2>3. PICK X \in Below :
          \A Y \in Below : ~ (<<Y, X>> \in StrictSubsetOrdering(Nat))
    <3> HIDE DEF Below
    <3> QED
      BY <2>2, FS_StrictSubsetOrderingWellFounded, WFMin
  <2>4. PICK s \in Free : X = 1 .. s
    OBVIOUS
  <2>5. ASSUME NEW t \in Free, t < s PROVE FALSE
    <3>1. 1 .. t \subseteq 1 .. s /\ s \in 1 .. s /\ s \notin 1 .. t
      BY <1>0, <2>5, SMTT(30)
    <3>2. <<1 .. t, 1 .. s>> \in StrictSubsetOrdering(Nat)
      BY <2>1, <3>1, SMTT(30) DEF StrictSubsetOrdering
    <3> QED
      BY <2>3, <2>4, <3>2
  <2> QED
    BY <2>5
<1>2. \A t \in 1 .. s - 1 : t \in held
  BY <1>0, <1>1, SMTT(30)
<1>3. AllocUPSEID(held) \in 1 .. n + 1 /\ AllocUPSEID(held) \notin held
  BY <1>1, <1>2 DEF AllocUPSEID, n
<1> QED
  BY <1>0, <1>3, SMTT(30)

-----------------------------------------------------------------------------
(***************************************************************************)
(* What the actions of Transport do to the messages carried.               *)
(***************************************************************************)

\* A step in which no call starts and that puts no new message in.
LEMMA CarriedQuiet ==
  ASSUME TransportTypeOK, \A c \in Caller : Quiet(c), NEW S,
         DOMAIN net' \subseteq Carried \cup S
  PROVE  Carried' \subseteq Carried \cup S
<1>1. ASSUME NEW m \in Carried', m \notin DOMAIN net' PROVE m \in Carried
  <2>1. m \in Message
    BY <1>1 DEF Carried
  <2>2. PICK c \in Caller : m \in HeldBy(c)' \/ (InFlight(c)' /\ m = RequestOf(c)')
    BY <1>1 DEF Carried
  <2> QED
    BY <2>1, <2>2 DEF Carried, Quiet
<1> QED
  BY <1>1

\* The steps of SendRequest after its entry, and its return.
LEMMA CarriedCallerStep ==
  ASSUME TransportTypeOK, NEW c \in Caller, CallerStep(c) \/ Resume(c)
  PROVE  Carried' \subseteq Carried
<1>1. /\ \A d \in Caller : Quiet(d)
      /\ DOMAIN net' \subseteq
           DOMAIN net \cup (IF InFlight(c) THEN {RequestOf(c)} ELSE {})
  BY CallerStepEffect
<1>2. DOMAIN net' \subseteq Carried \cup {}
  BY <1>1, RequestOfType DEF Carried
<1> QED
  BY <1>1, <1>2, CarriedQuiet

\* The entry of SendRequest brings up one message.
LEMMA CarriedSend ==
  ASSUME TransportTypeOK, NEW c \in Caller, NEW to, NEW body,
         SendRequest(c, to, body)
  PROVE  \A m \in Carried' : m \in Carried \/ m.body = body
<1>1. /\ \A d \in Caller \ {c} : Quiet(d)
      /\ HeldBy(c)' = {} /\ RequestOf(c)'.body = body /\ net' = net
  BY SendEffect
<1>2. ASSUME NEW m \in Carried', m \notin DOMAIN net, m.body # body
      PROVE  m \in Carried
  <2>1. m \in Message
    BY <1>1, <1>2 DEF Carried
  <2>2. PICK d \in Caller : m \in HeldBy(d)' \/ (InFlight(d)' /\ m = RequestOf(d)')
    BY <1>1, <1>2 DEF Carried
  <2>3. d # c
    BY <1>1, <1>2, <2>2
  <2> QED
    BY <1>1, <2>1, <2>2, <2>3 DEF Carried, Quiet
<1> QED
  BY <1>2 DEF Carried

\* The receiving goroutine and the network.
LEMMA CarriedReceive ==
  ASSUME TransportTypeOK, NEW m \in DOMAIN net,
         DeliverToCaller(m) \/ Duplicate(m) \/ HandleSilently(m)
  PROVE  Carried' \subseteq Carried
<1>1. \A d \in Caller : Quiet(d)
  BY DeliverEffect, CallsAlone DEF Duplicate, HandleSilently
<1>2. DOMAIN net' \subseteq DOMAIN net
  BY NetDomain, SMTT(30) DEF DeliverToCaller, Duplicate, HandleSilently
<1>3. DOMAIN net' \subseteq Carried \cup {}
  BY <1>2 DEF Carried
<1> QED
  BY <1>1, <1>3, CarriedQuiet

\* The answer of a handler.
LEMMA CarriedAnswer ==
  ASSUME TransportTypeOK, NEW m \in DOMAIN net, NEW b, HandleAndAnswer(m, b)
  PROVE  Carried' \subseteq
           Carried \cup {[src |-> m.dst, dst |-> m.src, seq |-> m.seq, body |-> b]}
<1> DEFINE x == [src |-> m.dst, dst |-> m.src, seq |-> m.seq, body |-> b]
<1>1. \A d \in Caller : Quiet(d)
  BY CallsAlone DEF HandleAndAnswer
<1>2. net' = Put(Take(net, m), x)
  BY DEF HandleAndAnswer
<1>3. DOMAIN net' \subseteq DOMAIN net \cup {x}
  BY <1>2, NetDomain, SMTT(30)
<1>4. DOMAIN net' \subseteq Carried \cup {x}
  BY <1>3 DEF Carried
<1> QED
  BY <1>1, <1>4, CarriedQuiet

\* A process that dies takes the messages of its calls along.
LEMMA CarriedRestart ==
  ASSUME TransportTypeOK, NEW e \in Endpoint, Restart(e)
  PROVE  Carried' \subseteq Carried
<1>1. (\A d \in Caller : Quiet(d)) /\ net' = net
  BY RestartEffect
<1>2. DOMAIN net' \subseteq Carried \cup {}
  BY <1>1 DEF Carried
<1> QED
  BY <1>1, <1>2, CarriedQuiet

-----------------------------------------------------------------------------
(***************************************************************************)
(* The steps of the system by what they do to the sessions.                *)
(***************************************************************************)

OtherRequest ==
  {HeartbeatRequest, AssociationSetupRequest, AssociationReleaseRequest}

OtherResponse ==
  {HeartbeatResponse, AssociationSetupResponse(CauseRequestAccepted),
   AssociationReleaseResponse(CauseRequestAccepted)}

\* Messages that are not about a session, and the calls on their own.
OtherMessages ==
  \/ UNCHANGED transportVars
  \/ \E c \in Caller : CallerStep(c)
  \/ \E c \in Caller \ Worker : Resume(c)
  \/ \E c \in Caller \ Worker, to \in Endpoint, body \in OtherRequest :
       SendRequest(c, to, body)
  \/ \E m \in DOMAIN net :
       DeliverToCaller(m) \/ Duplicate(m) \/ HandleSilently(m)
  \/ \E m \in DOMAIN net, b \in OtherResponse : HandleAndAnswer(m, b)

\* They have no SEID, and are not of the types that the sessions need.
LEMMA OtherBodies ==
  \A b \in OtherRequest \cup OtherResponse :
    /\ b.seid = 0
    /\ b.type \notin {"SessionEstablishmentRequest", "SessionDeletionRequest",
                      "SessionEstablishmentResponse"}
BY SMTT(30)
   DEF OtherRequest, OtherResponse, HeartbeatRequest, AssociationSetupRequest,
       AssociationReleaseRequest, HeartbeatResponse, AssociationSetupResponse,
       AssociationReleaseResponse, Body

SessionStep ==
  \/ OtherMessages /\ UNCHANGED <<worker, sessions, upSessions>>
  \/ \E w \in Worker : GRPCStep(w) /\ UNCHANGED upVars
  \/ \E u \in UP, m \in DOMAIN net :
       /\ \/ HandleSessionEstablishmentRequest(u, m)
          \/ HandleSessionDeletionRequest(u, m)
       /\ UNCHANGED cpVars
  \/ CPRestart /\ UNCHANGED upVars
  \/ \E u \in UP : UPRestart(u) /\ UNCHANGED cpVars

\* Every step of the system is one of these.
LEMMA StepIsSessionStep == PFCPInv /\ [Next]_vars => SessionStep
<1> SUFFICES ASSUME PFCPInv, [Next]_vars PROVE SessionStep
  OBVIOUS
<1>1. CASE UNCHANGED vars
  BY <1>1 DEF SessionStep, OtherMessages, vars, cpVars, upVars
<1>2. ASSUME NEW w \in Worker, UNCHANGED upVars,
             \/ WorkerStep(w)
             \/ \E u \in UP, r \in Rules : CreateSession(w, u, r)
             \/ \E s \in DOMAIN sessions : DeleteSession(w, s)
      PROVE  SessionStep
  <2>1. CASE CallerStep(w) /\ UNCHANGED cpVars
    BY <1>2, <2>1, Homes DEF SessionStep, OtherMessages, cpVars, upVars
  <2>2. CASE GRPCStep(w)
    BY <1>2, <2>2 DEF SessionStep
  <2> QED
    BY <1>2, <2>1, <2>2 DEF WorkerStep, GRPCStep
<1>3. ASSUME HeartbeatTick \/ HeartbeatStep, UNCHANGED upVars PROVE SessionStep
  <2>0. HB \in Caller \ Worker
    BY Homes, PFCPAssumption
  <2>1. UNCHANGED <<worker, sessions, upSessions>>
    BY <1>3 DEF HeartbeatTick, HeartbeatStep, SendHeartbeat, HeartbeatDone,
       cpVars, upVars
  <2>2. CASE SendHeartbeat
    <3>1. PICK a \in heartbeat.todo : SendRequest(HB, a[1], HeartbeatRequest)
      BY <2>2 DEF SendHeartbeat
    <3>2. a[1] \in Endpoint
      BY Homes DEF PFCPInv, HeartbeatOK
    <3> QED
      BY <2>0, <2>1, <3>1, <3>2 DEF SessionStep, OtherMessages, OtherRequest
  <2>3. CASE HeartbeatTick \/ CallerStep(HB) \/ HeartbeatDone
    BY <2>0, <2>1, <2>3
       DEF SessionStep, OtherMessages, HeartbeatTick, HeartbeatDone
  <2> QED
    BY <1>3, <2>2, <2>3 DEF HeartbeatStep
<1>4. ASSUME NEW m \in DOMAIN net, UNCHANGED upVars,
             \/ HandleAssociationSetupRequest(m)
             \/ HandleAssociationReleaseRequest(m)
             \/ CPHandleHeartbeatRequest(m) \/ CPDrop(m)
      PROVE  SessionStep
  <2>1. UNCHANGED <<worker, sessions, upSessions>>
    BY <1>4 DEF HandleAssociationSetupRequest, HandleAssociationReleaseRequest,
       CPHandleHeartbeatRequest, CPDrop, cpVars, upVars
  <2>2. OtherMessages
    BY <1>4 DEF OtherMessages, OtherResponse, HandleAssociationSetupRequest,
       HandleAssociationReleaseRequest, CPHandleHeartbeatRequest, CPDrop
  <2> QED
    BY <2>1, <2>2 DEF SessionStep
<1>5. CASE CPNext /\ UNCHANGED upVars
  <2>1. CASE CPRestart
    BY <1>5, <2>1 DEF SessionStep
  <2> QED
    BY <1>2, <1>3, <1>4, <1>5, <2>1 DEF CPNext
<1>6. ASSUME NEW u \in UP, UNCHANGED cpVars,
             UPGoroutine(u) \/ UPHeartbeat(u) \/ ReleaseAssociation(u)
      PROVE  SessionStep
  <2>0. u \in Caller \ Worker /\ CP \in Endpoint
    BY Homes, PFCPAssumption
  <2>1. UNCHANGED <<worker, sessions, upSessions>>
    BY <1>6 DEF UPGoroutine, EstablishAssociation, AssociationDone, UPHeartbeat,
       UPHeartbeatDone, ReleaseAssociation, cpVars, upVars
  <2>2. OtherMessages
    BY <1>6, <2>0 DEF OtherMessages, OtherRequest, UPGoroutine,
       EstablishAssociation, AssociationDone, UPHeartbeat, UPHeartbeatDone, ReleaseAssociation
  <2> QED
    BY <2>1, <2>2 DEF SessionStep
<1>7. ASSUME NEW u \in UP, UNCHANGED cpVars, NEW m \in DOMAIN net,
             UPHandler(u, m) \/ UPDrop(u, m)
      PROVE  SessionStep
  <2>1. CASE UPHandleHeartbeatRequest(u, m) \/ UPDrop(u, m)
    <3>1. UNCHANGED <<worker, sessions, upSessions>>
      BY <1>7, <2>1 DEF UPHandleHeartbeatRequest, UPDrop, cpVars, upVars
    <3>2. OtherMessages
      BY <2>1 DEF OtherMessages, OtherResponse, UPHandleHeartbeatRequest, UPDrop
    <3> QED
      BY <3>1, <3>2 DEF SessionStep
  <2>2. CASE \/ HandleSessionEstablishmentRequest(u, m)
             \/ HandleSessionDeletionRequest(u, m)
    BY <1>7, <2>2 DEF SessionStep
  <2> QED
    BY <1>7, <2>1, <2>2 DEF UPHandler
<1>8. ASSUME NEW u \in UP, UPNext(u), UNCHANGED cpVars PROVE SessionStep
  <2>1. CASE UPRestart(u)
    BY <1>8, <2>1 DEF SessionStep
  <2> QED
    BY <1>6, <1>7, <1>8, <2>1 DEF UPNext
<1>9. ASSUME NEW m \in DOMAIN net, Deliver(m) \/ Duplicated(m) PROVE SessionStep
  BY <1>9 DEF SessionStep, OtherMessages, Deliver, Duplicated, cpVars, upVars
<1> QED
  BY <1>1, <1>5, <1>8, <1>9 DEF Next

\* What a gRPC call does to the messages carried.
LEMMA CarriedGRPC ==
  ASSUME PFCPInv, NEW w \in Worker, GRPCStep(w)
  PROVE  \A m \in Carried' :
           \/ m \in Carried
           \/ /\ SendEstablishment(w)
              /\ m.body = SessionEstablishmentRequest(0, worker[w].rules)
           \/ /\ SendDeletion(w)
              /\ m.body = SessionDeletionRequest(worker[w].remoteSEID)
<1>0. TransportTypeOK /\ w \in Caller
  BY Homes DEF PFCPInv
<1>1. CASE SendEstablishment(w)
  <2>1. \A m \in Carried' :
          m \in Carried \/ m.body = SessionEstablishmentRequest(0, worker[w].rules)
    BY <1>0, <1>1, CarriedSend DEF SendEstablishment
  <2> QED
    BY <1>1, <2>1
<1>2. CASE SendDeletion(w)
  <2>1. \A m \in Carried' :
          m \in Carried \/ m.body = SessionDeletionRequest(worker[w].remoteSEID)
    BY <1>0, <1>2, CarriedSend DEF SendDeletion
  <2> QED
    BY <1>2, <2>1
<1>3. CASE Resume(w)
  <2>1. Carried' \subseteq Carried
    BY <1>0, <1>3, CarriedCallerStep
  <2> QED
    BY <2>1
<1>4. CASE UNCHANGED transportVars
  <2>1. net' = net /\ \A c \in Caller : Quiet(c)
    BY <1>4, CallsAlone DEF transportVars
  <2>2. DOMAIN net' \subseteq Carried \cup {}
    BY <2>1 DEF Carried
  <2>3. Carried' \subseteq Carried \cup {}
    BY <1>0, <2>1, <2>2, CarriedQuiet
  <2> QED
    BY <2>3
<1>5. \/ SendEstablishment(w) \/ SendDeletion(w) \/ Resume(w)
      \/ UNCHANGED transportVars
  BY DEF GRPCStep, CreateSession, DeleteSession, AllocSEID, EstablishmentDone,
     InsertSession, StoreSession, FindAssociation, DeletionDone, RemoveSession,
     StoreDeleteSession, StoreWrite
<1> QED
  BY <1>1, <1>2, <1>3, <1>4, <1>5

\* What steps with other messages do to the messages carried.
LEMMA CarriedOther ==
  ASSUME PFCPInv, OtherMessages
  PROVE  \A m \in Carried' :
           m \in Carried \/ m.body \in OtherRequest \cup OtherResponse
<1>0. TransportTypeOK
  BY DEF PFCPInv
<1>1. CASE UNCHANGED transportVars
  <2>1. net' = net /\ \A c \in Caller : Quiet(c)
    BY <1>1, CallsAlone DEF transportVars
  <2>2. DOMAIN net' \subseteq Carried \cup {}
    BY <2>1 DEF Carried
  <2>3. Carried' \subseteq Carried \cup {}
    BY <1>0, <2>1, <2>2, CarriedQuiet
  <2> QED
    BY <2>3
<1>2. ASSUME NEW c \in Caller, CallerStep(c) \/ Resume(c)
      PROVE  Carried' \subseteq Carried
  BY <1>0, <1>2, CarriedCallerStep
<1>3. ASSUME NEW c \in Caller, NEW to \in Endpoint,
             NEW body \in OtherRequest,
             SendRequest(c, to, body)
      PROVE  \A m \in Carried' : m \in Carried \/ m.body = body
  BY <1>0, <1>3, CarriedSend
<1>4. ASSUME NEW m \in DOMAIN net,
             DeliverToCaller(m) \/ Duplicate(m) \/ HandleSilently(m)
      PROVE  Carried' \subseteq Carried
  BY <1>0, <1>4, CarriedReceive
<1>5. ASSUME NEW m \in DOMAIN net, NEW b, HandleAndAnswer(m, b)
      PROVE  \A n \in Carried' : n \in Carried \/ n.body = b
  BY <1>0, <1>5, CarriedAnswer, SMTT(30)
<1> QED
  BY <1>1, <1>2, <1>3, <1>4, <1>5 DEF OtherMessages

\* The message a call returns is one it holds.
LEMMA ResultCarried ==
  ASSUME TransportTypeOK, NEW c \in Caller, Accepted(c)
  PROVE  /\ call[c].resp[1] \in HeldBy(c) /\ call[c].resp[1] \in Carried
         /\ call[c].resp = <<call[c].resp[1]>>
<1>1. call[c].resp \in Option(Message) /\ call[c].resp # <<>>
  BY FieldsType DEF TransportTypeOK, Accepted
<1>2. PICK m \in Message : call[c].resp = <<m>>
  BY <1>1 DEF Option
<1>3. call[c].resp[1] = m
  BY <1>2, SMTT(30)
<1> QED
  BY <1>2, <1>3 DEF HeldBy, Carried

\* No step makes a header with another SEID.
LEMMA SEIDsZeroStep == PFCPInv /\ SEIDsZero /\ SessionStep => SEIDsZero'
<1> SUFFICES ASSUME PFCPInv, SEIDsZero, SessionStep PROVE SEIDsZero'
  OBVIOUS
<1>0. TransportTypeOK
  BY DEF PFCPInv
<1>1. CASE OtherMessages /\ UNCHANGED <<worker, sessions, upSessions>>
  <2>1. \A b \in OtherRequest \cup OtherResponse : b.seid = 0
    BY OtherBodies
  <2>2. ASSUME NEW m \in Carried' PROVE m.body.seid = 0
    BY <1>1, <2>1, <2>2, CarriedOther DEF SEIDsZero
  <2> QED
    BY <1>1, <2>2 DEF SEIDsZero
<1>2. ASSUME NEW w \in Worker, GRPCStep(w) PROVE SEIDsZero'
  <2>1. ASSUME NEW m \in Carried' PROVE m.body.seid = 0
    <3>1. /\ \A r : SessionEstablishmentRequest(0, r).seid = 0
          /\ \A i : SessionDeletionRequest(i).seid = i
      BY DEF SessionEstablishmentRequest, SessionDeletionRequest, Body
    <3> QED
      BY <1>2, <2>1, <3>1, CarriedGRPC, SMTT(30) DEF SEIDsZero
  <2>2. worker'[w].remoteSEID = 0
    <3>1. CASE Established(w)
      <4>1. call[w].resp[1] \in Carried
        BY <1>0, <3>1, Homes, ResultCarried DEF Established
      <4> QED
        BY <3>1, <4>1 DEF Established, SEIDsZero
    <3>2. CASE worker'[w] = IdleWorker \/ Starts(w) \/ GoesOn(w)
      BY <3>2, SMTT(30) DEF IdleWorker, Starts, GoesOn, SEIDsZero
    <3> QED
      BY <1>2, <3>1, <3>2, GRPCStepEffect
  <2>3. \A v \in Worker : worker'[v].remoteSEID = 0
    BY <1>2, <2>2, GRPCStepEffect DEF SEIDsZero
  <2>4. ASSUME NEW s \in DOMAIN sessions' PROVE sessions'[s].remoteSEID = 0
    <3>1. \/ s \in DOMAIN sessions /\ sessions'[s] = sessions[s]
          \/ sessions'[s] = SessionOf(w)
      BY <1>2, <2>4, GRPCStepEffect DEF Inserts
    <3> QED
      BY <3>1, SMTT(30) DEF SessionOf, SEIDsZero
  <2> QED
    BY <2>1, <2>3, <2>4 DEF SEIDsZero
<1>3. ASSUME NEW u \in UP, NEW m \in DOMAIN net, UNCHANGED cpVars,
             \/ HandleSessionEstablishmentRequest(u, m)
             \/ HandleSessionDeletionRequest(u, m)
      PROVE  SEIDsZero'
  <2>1. PICK b : HandleAndAnswer(m, b) /\ b.seid = m.body.seid
    BY <1>3, SMTT(30)
       DEF HandleSessionEstablishmentRequest, HandleSessionDeletionRequest,
           SessionEstablishmentResponse, SessionDeletionResponse, Body
  <2>2. m.body.seid = 0
    BY DEF SEIDsZero, Carried
  <2>3. ASSUME NEW n \in Carried' PROVE n.body.seid = 0
    BY <1>0, <2>1, <2>2, CarriedAnswer, SMTT(30) DEF SEIDsZero
  <2> QED
    BY <1>3, <2>3 DEF SEIDsZero, cpVars
<1>4. CASE CPRestart
  <2>1. Carried' \subseteq Carried
    BY <1>0, <1>4, Homes, CarriedRestart DEF CPRestart
  <2> QED
    BY <1>4, <2>1 DEF CPRestart, SEIDsZero, IdleWorker, EmptyMap
<1>5. ASSUME NEW u \in UP, UPRestart(u), UNCHANGED cpVars PROVE SEIDsZero'
  <2>1. Carried' \subseteq Carried
    BY <1>0, <1>5, Homes, CarriedRestart DEF UPRestart
  <2> QED
    BY <1>5, <2>1 DEF SEIDsZero, cpVars
<1> QED
  BY <1>1, <1>2, <1>3, <1>4, <1>5 DEF SessionStep

-----------------------------------------------------------------------------
(***************************************************************************)
(* What a step does to the sessions of the user planes.                    *)
(***************************************************************************)

\* Every session of u stays, ...
Stays(u) ==
  \A t \in DOMAIN upSessions[u] :
    t \in DOMAIN upSessions'[u] /\ upSessions'[u][t] = upSessions[u][t]

\* ... and there is no other, ...
Same(u) == Stays(u) /\ DOMAIN upSessions'[u] = DOMAIN upSessions[u]

\* ... or there is the one that the request m made.
Adds(u, m, t) ==
  /\ HandleSessionEstablishmentRequest(u, m)
  /\ UNCHANGED cpVars
  /\ Stays(u)
  /\ t \in Nat \ {0} /\ t \notin DOMAIN upSessions[u]
  /\ DOMAIN upSessions'[u] = DOMAIN upSessions[u] \cup {t}
  /\ upSessions'[u][t].req = m.seq /\ upSessions'[u][t].rules = m.body.rules

\* All of them go with the process.
Clears(u) == UPRestart(u) /\ DOMAIN upSessions'[u] = {}

\* handleSessionEstablishmentRequest.
LEMMA EstablishEffect ==
  ASSUME KeysOK, NEW u \in UP, NEW m, HandleSessionEstablishmentRequest(u, m),
         UNCHANGED cpVars
  PROVE  /\ DOMAIN upSessions' = UP
         /\ \E t : Adds(u, m, t)
         /\ \A v \in UP \ {u} : Same(v)
<1> DEFINE t == AllocUPSEID(DOMAIN upSessions[u])
           session == [remoteSEID |-> m.body.seid, rules |-> m.body.rules,
                       req |-> m.seq]
           after == Assign(upSessions[u], t, session)
<1>1. upSessions' = [upSessions EXCEPT ![u] = after]
  BY DEF HandleSessionEstablishmentRequest
<1>2. t \in Nat \ {0} /\ t \notin DOMAIN upSessions[u]
  BY AllocUPSEIDFresh DEF KeysOK
<1> HIDE DEF t
<1>3. /\ DOMAIN after = DOMAIN upSessions[u] \cup {t}
      /\ after[t] = session
      /\ \A x \in DOMAIN upSessions[u] : after[x] = upSessions[u][x]
  BY <1>2 DEF Assign
<1>4. session.req = m.seq /\ session.rules = m.body.rules
  OBVIOUS
<1> HIDE DEF after, session
<1>5. /\ DOMAIN upSessions' = UP /\ upSessions'[u] = after
      /\ \A v \in UP \ {u} : upSessions'[v] = upSessions[v]
  BY <1>1 DEF KeysOK
<1>6. Adds(u, m, t)
  BY <1>2, <1>3, <1>4, <1>5 DEF Adds, Stays
<1> QED
  BY <1>5, <1>6 DEF Same, Stays

\* handleSessionDeletionRequest: no session has the SEID of the header.
LEMMA DeleteEffect ==
  ASSUME KeysOK, NEW u \in UP, NEW m, HandleSessionDeletionRequest(u, m),
         m.body.seid = 0
  PROVE  DOMAIN upSessions' = UP /\ \A v \in UP : Same(v)
<1> DEFINE after == Without(upSessions[u], 0)
<1>1. upSessions' = [upSessions EXCEPT ![u] = after]
  BY DEF HandleSessionDeletionRequest
<1>2. 0 \notin DOMAIN upSessions[u]
  BY DEF KeysOK
<1>3. /\ DOMAIN after = DOMAIN upSessions[u]
      /\ \A x \in DOMAIN upSessions[u] : after[x] = upSessions[u][x]
  BY <1>2 DEF Without, Restrict
<1> HIDE DEF after
<1>4. /\ DOMAIN upSessions' = UP /\ upSessions'[u] = after
      /\ \A v \in UP \ {u} : upSessions'[v] = upSessions[v]
  BY <1>1 DEF KeysOK
<1> QED
  BY <1>3, <1>4 DEF Same, Stays

\* These are all the steps that touch the sessions of a user plane.
LEMMA UserPlaneEffect ==
  ASSUME KeysOK, SEIDsZero, SessionStep
  PROVE  /\ DOMAIN upSessions' = UP
         /\ \A u \in UP : \/ Same(u) \/ Clears(u)
                          \/ \E m \in DOMAIN net : \E t : Adds(u, m, t)
<1>1. ASSUME upSessions' = upSessions
      PROVE  DOMAIN upSessions' = UP /\ \A u \in UP : Same(u)
  BY <1>1 DEF KeysOK, Same, Stays
<1>2. ASSUME NEW u \in UP, NEW m \in DOMAIN net, UNCHANGED cpVars,
             HandleSessionEstablishmentRequest(u, m)
      PROVE  /\ DOMAIN upSessions' = UP
             /\ \A v \in UP : Same(v) \/ \E t : Adds(v, m, t)
  BY <1>2, EstablishEffect
<1>3. ASSUME NEW u \in UP, NEW m \in DOMAIN net,
             HandleSessionDeletionRequest(u, m)
      PROVE  DOMAIN upSessions' = UP /\ \A v \in UP : Same(v)
  <2>1. m.body.seid = 0
    BY DEF SEIDsZero, Carried
  <2> QED
    BY <1>3, <2>1, DeleteEffect
<1>4. ASSUME NEW u \in UP, UPRestart(u)
      PROVE  DOMAIN upSessions' = UP /\ \A v \in UP : Same(v) \/ Clears(v)
  <2>1. upSessions' = [upSessions EXCEPT ![u] = EmptyMap] /\ DOMAIN EmptyMap = {}
    BY <1>4 DEF UPRestart, EmptyMap
  <2>2. /\ DOMAIN upSessions' = UP /\ DOMAIN upSessions'[u] = {}
        /\ \A v \in UP \ {u} : upSessions'[v] = upSessions[v]
    BY <2>1 DEF KeysOK
  <2> QED
    BY <1>4, <2>2 DEF Clears, Same, Stays
<1> QED
  BY <1>1, <1>2, <1>3, <1>4 DEF SessionStep, upVars

\* The SEIDs of a user plane stay positive and finitely many.
LEMMA KeysOKStep == KeysOK /\ SEIDsZero /\ SessionStep => KeysOK'
<1> SUFFICES ASSUME KeysOK, SEIDsZero, SessionStep PROVE KeysOK'
  OBVIOUS
<1>1. ASSUME NEW u \in UP
      PROVE  /\ IsFiniteSet(DOMAIN upSessions'[u])
             /\ DOMAIN upSessions'[u] \subseteq Nat \ {0}
  <2>0. /\ IsFiniteSet(DOMAIN upSessions[u])
        /\ DOMAIN upSessions[u] \subseteq Nat \ {0}
    BY DEF KeysOK
  <2>1. CASE Same(u)
    BY <2>0, <2>1 DEF Same
  <2>2. CASE Clears(u)
    BY <2>2, FS_EmptySet DEF Clears
  <2>3. ASSUME NEW m \in DOMAIN net, NEW t, Adds(u, m, t)
        PROVE  /\ IsFiniteSet(DOMAIN upSessions'[u])
               /\ DOMAIN upSessions'[u] \subseteq Nat \ {0}
    <3>1. /\ t \in Nat \ {0}
          /\ DOMAIN upSessions'[u] = DOMAIN upSessions[u] \cup {t}
      BY <2>3 DEF Adds
    <3>2. IsFiniteSet(DOMAIN upSessions[u] \cup {t})
      BY <2>0, FS_AddElement
    <3> QED
      BY <2>0, <3>1, <3>2
  <2> QED
    BY <2>1, <2>2, <2>3, UserPlaneEffect
<1> QED
  BY <1>1, UserPlaneEffect DEF KeysOK

-----------------------------------------------------------------------------
(***************************************************************************)
(* RecordsOK.                                                              *)
(***************************************************************************)

\* What is known of a number stays known.
LEMMA AskedStays ==
  ASSUME TransportInv, TransportInv', MessageStep, FirstLife(CP)',
         NEW q, NEW rules, Asked(q, rules)
  PROVE  Asked(q, rules)'
<1>0. CP \in Endpoint /\ seqNum[CP] \in Nat /\ seqNum'[CP] \in Nat
  BY Homes, SMTT(30) DEF TransportInv, TransportTypeOK, SeqNums
<1>1. seqNum[CP] <= seqNum'[CP] /\ \A c \in Caller : Quiet(c) \/ Entered(c)
  BY <1>0, MessageStepEffect
<1>2. q \in Nat /\ q < seqNum[CP] /\ q < seqNum'[CP]
  BY <1>0, <1>1, SMTT(30) DEF Asked
<1>3. ASSUME NEW c \in Caller, InFlight(c)', Home[c] = CP, call'[c].seq = q
      PROVE  call'[c].body.rules = rules
  <2>1. Quiet(c)
    BY <1>0, <1>1, <1>2, <1>3, SMTT(30) DEF Entered
  <2>2. InFlight(c) /\ RequestOf(c)' = RequestOf(c)
    BY <1>3, <2>1 DEF Quiet
  <2>3. call'[c].seq = call[c].seq /\ call'[c].body = call[c].body
    BY <2>2 DEF RequestOf
  <2> QED
    BY <1>3, <2>2, <2>3 DEF Asked
<1> QED
  BY <1>2, <1>3 DEF Asked

\* An establishment request in the network is a request of the control plane.
LEMMA EstablishmentAsked ==
  ASSUME PFCPInv, MessagesOK, AnswerInv, NEW m \in DOMAIN net,
         m.body.type = "SessionEstablishmentRequest"
  PROVE  /\ m \in Message /\ m.body \in Request /\ m.src = CP
         /\ FirstLife(CP) => Asked(m.seq, m.body.rules)
<1>1. m \in Message
  BY DEF PFCPInv, TransportTypeOK
<1>2. m.body \in Request
  BY <1>1, HandledAreRequests DEF Message, UPHandled
<1>3. m.src = CP
  BY DEF MessagesOK, SentBy
<1>4. ASSUME FirstLife(CP) PROVE Asked(m.seq, m.body.rules)
  <2>1. /\ m.seq < seqNum[CP]
        /\ \A c \in Caller :
             InFlight(c) /\ Home[c] = CP /\ call[c].seq = m.seq => m = RequestOf(c)
    BY <1>2, <1>3, <1>4 DEF AnswerInv, RequestOK
  <2>2. \A c \in Caller : RequestOf(c).body = call[c].body
    BY DEF RequestOf
  <2>3. m.seq \in Nat
    BY <1>1, SMTT(30) DEF Message, SeqNums
  <2> QED
    BY <2>1, <2>2, <2>3 DEF Asked
<1> QED
  BY <1>1, <1>2, <1>3, <1>4

\* No step makes a session that does not fit its call.
LEMMA RecordsOKStep ==
  ASSUME TransportInv, TransportInv', PFCPInv, MessagesOK, AnswerInv,
         KeysOK, SEIDsZero, RecordsOK, MessageStep, SessionStep
  PROVE  RecordsOK'
<1> SUFFICES ASSUME NEW u \in UP, NEW t \in DOMAIN upSessions'[u], FirstLife(CP)'
             PROVE  Asked(upSessions[u][t].req, upSessions[u][t].rules)'
  BY DEF RecordsOK, RecordOK
<1>0. FirstLife(CP)
  BY Homes, MessageStepEffect
<1>1. Asked(upSessions'[u][t].req, upSessions'[u][t].rules)
  <2>1. CASE t \in DOMAIN upSessions[u] /\ upSessions'[u][t] = upSessions[u][t]
    BY <1>0, <2>1 DEF RecordsOK, RecordOK
  <2>2. ASSUME NEW m \in DOMAIN net, NEW x, Adds(u, m, x), t = x
        PROVE  Asked(upSessions'[u][t].req, upSessions'[u][t].rules)
    <3>1. m.body.type = "SessionEstablishmentRequest"
      BY <2>2 DEF Adds, HandleSessionEstablishmentRequest, HandledAs
    <3>2. Asked(m.seq, m.body.rules)
      BY <1>0, <3>1, EstablishmentAsked
    <3> QED
      BY <2>2, <3>2 DEF Adds
  <2> QED
    BY <2>1, <2>2, UserPlaneEffect, SMTT(30) DEF Same, Stays, Clears, Adds
<1>2. PICK q, rules : q = upSessions'[u][t].req /\ rules = upSessions'[u][t].rules
  OBVIOUS
<1>3. Asked(q, rules)'
  BY <1>1, <1>2, AskedStays
<1> QED
  BY <1>2, <1>3 DEF Asked

-----------------------------------------------------------------------------
(***************************************************************************)
(* BackedInv.                                                              *)
(***************************************************************************)

\* A user plane in its first life gives no session up.
LEMMA SessionsStay ==
  ASSUME TransportInv, KeysOK, SEIDsZero, MessageStep, SessionStep,
         NEW u \in UP, FirstLife(u)'
  PROVE  FirstLife(u) /\ Stays(u)
<1>1. FirstLife(u)
  BY Homes, MessageStepEffect
<1>2. ~Clears(u)
  <2>1. UPRestart(u) => restarts'[u] # 0
    BY Homes, RestartEffect DEF UPRestart, TransportInv
  <2> QED
    BY <2>1 DEF Clears, FirstLife
<1> QED
  BY <1>1, <1>2, UserPlaneEffect DEF Same, Adds

\* So what is backed stays backed.
LEMMA BackedStays ==
  ASSUME TransportInv, KeysOK, SEIDsZero, MessageStep, SessionStep
  PROVE  /\ \A u \in UP : \A q, rules : Backed(u, q, rules) => Backed(u, q, rules)'
         /\ \A m : EstablishedOK(m) => EstablishedOK(m)'
<1>0. FirstLife(CP)' => FirstLife(CP)
  BY Homes, MessageStepEffect
<1>1. ASSUME NEW u \in UP, NEW q, NEW rules, Backed(u, q, rules)
      PROVE  Backed(u, q, rules)'
  BY <1>0, <1>1, SessionsStay DEF Backed, Stays
<1>2. ASSUME NEW m, EstablishedOK(m) PROVE EstablishedOK(m)'
  BY <1>0, <1>2, SessionsStay DEF EstablishedOK, Stays
<1> QED
  BY <1>1, <1>2

\* A gRPC goroutine enters SendRequest by its own two steps only.
LEMMA QuietWorkers ==
  ASSUME PFCPInv, SessionStep, NEW w \in Worker
  PROVE  Quiet(w) \/ SendEstablishment(w) \/ SendDeletion(w)
<1>0. TransportTypeOK /\ w \in Caller
  BY Homes DEF PFCPInv
<1>1. ASSUME UNCHANGED call PROVE Quiet(w)
  BY <1>0, <1>1, CallsAlone
<1>2. CASE OtherMessages
  <2>1. CASE \E c \in Caller : CallerStep(c) \/ Resume(c)
    BY <1>0, <2>1, CallerStepEffect
  <2>2. ASSUME NEW c \in Caller \ Worker, NEW to, NEW body,
               SendRequest(c, to, body)
        PROVE  Quiet(w)
    BY <1>0, <2>2, SendEffect
  <2>3. ASSUME NEW m \in DOMAIN net,
               DeliverToCaller(m) \/ Duplicate(m) \/ HandleSilently(m)
        PROVE  Quiet(w)
    BY <1>0, <1>1, <2>3, DeliverEffect DEF Duplicate, HandleSilently
  <2>4. ASSUME NEW m, NEW b, HandleAndAnswer(m, b) PROVE Quiet(w)
    BY <1>1, <2>4 DEF HandleAndAnswer
  <2> QED
    BY <1>1, <1>2, <2>1, <2>2, <2>3, <2>4 DEF OtherMessages, transportVars
<1>3. ASSUME NEW v \in Worker, GRPCStep(v)
      PROVE  Quiet(w) \/ SendEstablishment(w) \/ SendDeletion(w)
  <2>0. v \in Caller
    BY Homes
  <2>1. \/ SendEstablishment(v) \/ SendDeletion(v) \/ Resume(v)
        \/ UNCHANGED transportVars
    BY <1>3 DEF GRPCStep, CreateSession, DeleteSession, AllocSEID,
       EstablishmentDone, InsertSession, StoreSession, FindAssociation,
       DeletionDone, RemoveSession, StoreDeleteSession, StoreWrite
  <2>2. CASE (SendEstablishment(v) \/ SendDeletion(v)) /\ v # w
    BY <1>0, <2>0, <2>2, SendEffect DEF SendEstablishment, SendDeletion
  <2>3. CASE Resume(v)
    BY <1>0, <2>0, <2>3, CallerStepEffect
  <2> QED
    BY <1>1, <2>1, <2>2, <2>3 DEF transportVars
<1>4. ASSUME NEW u \in UP, NEW m \in DOMAIN net,
             \/ HandleSessionEstablishmentRequest(u, m)
             \/ HandleSessionDeletionRequest(u, m)
      PROVE  Quiet(w)
  BY <1>1, <1>4 DEF HandleSessionEstablishmentRequest,
     HandleSessionDeletionRequest, HandleAndAnswer
<1>5. ASSUME CPRestart \/ \E u \in UP : UPRestart(u) PROVE Quiet(w)
  BY <1>0, <1>5, Homes, RestartEffect DEF CPRestart, UPRestart
<1> QED
  BY <1>2, <1>3, <1>4, <1>5 DEF SessionStep

\* CreateSession sends a request for its rules to its node.
LEMMA CallOfStep ==
  ASSUME PFCPInv, SessionStep, NEW w \in Worker, CallOf(w)
  PROVE  CallOf(w)'
<1> SUFFICES ASSUME worker'[w].op = "create", worker'[w].pc = "sending",
                    InFlight(w)'
             PROVE  /\ call'[w].to = worker'[w].node
                    /\ call'[w].body =
                         SessionEstablishmentRequest(0, worker'[w].rules)
  BY DEF CallOf
<1>0. TransportTypeOK /\ w \in Caller
  BY Homes DEF PFCPInv
<1>1. CASE worker'[w] = worker[w] /\ Quiet(w)
  <2>1. InFlight(w) /\ RequestOf(w)' = RequestOf(w)
    BY <1>1 DEF Quiet
  <2>2. call'[w].to = call[w].to /\ call'[w].body = call[w].body
    BY <2>1 DEF RequestOf
  <2> QED
    BY <1>1, <2>1, <2>2 DEF CallOf
<1>2. CASE SendEstablishment(w) /\ GoesOn(w)
  <2> DEFINE body == SessionEstablishmentRequest(0, worker[w].rules)
             r == [IdleCall(w) EXCEPT !.st = "numbered", !.to = worker[w].node,
                                      !.body = body, !.seq = seqNum[Home[w]]]
  <2>1. SetCall(w, r)
    BY <1>2 DEF SendEstablishment, SendRequest
  <2>2. r.to = worker[w].node /\ r.body = body
    BY DEF IdleCall
  <2> HIDE DEF r, body
  <2>3. call'[w] = r
    BY <1>0, <2>1, SetCallEffect DEF TransportTypeOK
  <2>4. worker'[w].node = worker[w].node /\ worker'[w].rules = worker[w].rules
    BY <1>2 DEF GoesOn
  <2> QED
    BY <2>2, <2>3, <2>4 DEF body
<1>3. ASSUME NEW v \in Worker, GRPCStep(v)
      PROVE  \/ worker'[w] = worker[w] /\ Quiet(w)
             \/ SendEstablishment(w) /\ GoesOn(w)
  <2>0. w # v => worker'[w] = worker[w]
    BY <1>3, GRPCStepEffect
  <2>1. CASE v # w
    <3>1. worker'[w].pc = worker[w].pc
      BY <2>0, <2>1
    <3>2. ~SendEstablishment(w) /\ ~SendDeletion(w)
      BY <3>1 DEF SendEstablishment, SendDeletion
    <3> QED
      BY <2>0, <2>1, <3>2, QuietWorkers
  <2>2. CASE v = w
    <3>1. GoesOn(w)
      BY <1>3, <2>2, GRPCStepEffect, SMTT(30)
         DEF IdleWorker, Starts, Established
    <3>2. worker[w].op = "create" /\ (SendEstablishment(w) \/ SendDeletion(w))
      BY <3>1 DEF GoesOn
    <3> QED
      BY <3>1, <3>2 DEF SendDeletion
  <2> QED
    BY <2>1, <2>2
<1>4. CASE worker'[w] = worker[w]
  <2>1. ~SendEstablishment(w) /\ ~SendDeletion(w)
    BY <1>4 DEF SendEstablishment, SendDeletion
  <2> QED
    BY <1>1, <1>4, <2>1, QuietWorkers
<1>5. \/ worker'[w] = worker[w] \/ CPRestart
      \/ \E v \in Worker : GRPCStep(v)
  BY DEF SessionStep, cpVars
<1>6. ~CPRestart
  BY SMTT(30) DEF CPRestart, IdleWorker
<1> QED
  BY <1>1, <1>2, <1>3, <1>4, <1>5, <1>6

\* The answer that a CreateSession reads comes from its node, which has the
\* session.
LEMMA AcceptedIsBacked ==
  ASSUME TransportInv, PFCPInv, AnswerInv, RecordsOK, BackedInv,
         NEW w \in Worker, Established(w)
  PROVE  Backed(worker[w].node, call[w].seq, worker[w].rules)
<1> SUFFICES ASSUME FirstLife(CP), FirstLife(worker[w].node)
             PROVE  \E t \in DOMAIN upSessions[worker[w].node] :
                      LET us == upSessions[worker[w].node][t] IN
                      us.req = call[w].seq /\ us.rules = worker[w].rules
  BY DEF Backed
<1> DEFINE u == worker[w].node
           m == call[w].resp[1]
<1>0. /\ w \in Caller /\ Home[w] = CP
      /\ worker[w].op = "create" /\ worker[w].pc = "sending"
      /\ Accepted(w) /\ call[w].st = "returned" /\ InFlight(w)
  BY Homes DEF Established, EstablishmentDone, Resume, InFlight
<1>1. u \in UP
  BY <1>0 DEF PFCPInv, ControlInv, WorkersOK, WorkerOK
<1>2. call[w].to = u /\ call[w].body = SessionEstablishmentRequest(0, worker[w].rules)
  BY <1>0 DEF BackedInv, CallOf
<1>3. m \in HeldBy(w) /\ m \in Carried
  BY <1>0, ResultCarried DEF TransportInv
<1>4. m.body.cause = CauseRequestAccepted /\ m.seq = call[w].seq
  <2>1. LocalsOK(w, call[w]) /\ call[w].resp # <<>>
    BY <1>0 DEF TransportInv, Accepted
  <2> QED
    BY <1>0, <2>1 DEF LocalsOK, Accepted
<1>5. Answers(m, w)
  BY <1>0, <1>3, <1>4 DEF AnswerInv, HeldOK
<1> HIDE DEF m
<1>6. m.src = u /\ m.body.type = "SessionEstablishmentResponse"
  <2>1. call[w].body.type = "SessionEstablishmentRequest"
    BY <1>2, SMTT(30) DEF SessionEstablishmentRequest, Body
  <2> QED
    BY <1>2, <1>5, <2>1 DEF Answers, Replies
<1>7. PICK t \in DOMAIN upSessions[u] : upSessions[u][t].req = m.seq
  BY <1>3, <1>6 DEF BackedInv, EstablishedOK
<1>8. call[w].body.rules = upSessions[u][t].rules
  BY <1>0, <1>1, <1>4, <1>7 DEF RecordsOK, RecordOK, Asked
<1>9. call[w].body.rules = worker[w].rules
  BY <1>2, SMTT(30) DEF SessionEstablishmentRequest, Body
<1> QED
  BY <1>4, <1>7, <1>8, <1>9

\* The answer to an establishment leaves after the session was made.
LEMMA EstablishedOKStep ==
  ASSUME TransportInv, PFCPInv, KeysOK, SEIDsZero, BackedInv,
         MessageStep, SessionStep, NEW m \in Carried'
  PROVE  EstablishedOK(m)'
<1>0. TransportTypeOK
  BY DEF PFCPInv
<1>1. CASE m \in Carried
  BY <1>1, BackedStays DEF BackedInv
<1>2. CASE m.body.type # "SessionEstablishmentResponse"
  BY <1>2 DEF EstablishedOK
<1>3. CASE OtherMessages
  BY <1>1, <1>2, <1>3, CarriedOther, OtherBodies
<1>4. ASSUME NEW w \in Worker, GRPCStep(w) PROVE EstablishedOK(m)'
  <2>1. /\ \A r : SessionEstablishmentRequest(0, r).type
                    = "SessionEstablishmentRequest"
        /\ \A i : SessionDeletionRequest(i).type = "SessionDeletionRequest"
    BY DEF SessionEstablishmentRequest, SessionDeletionRequest, Body
  <2>2. m \in Carried \/ m.body.type # "SessionEstablishmentResponse"
    BY <1>4, <2>1, CarriedGRPC
  <2> QED
    BY <1>1, <1>2, <2>2
<1>5. ASSUME NEW u \in UP, NEW n \in DOMAIN net, UNCHANGED cpVars,
             HandleSessionEstablishmentRequest(u, n)
      PROVE  EstablishedOK(m)'
  <2>1. PICK b : HandleAndAnswer(n, b)
    BY <1>5 DEF HandleSessionEstablishmentRequest
  <2> DEFINE x == [src |-> n.dst, dst |-> n.src, seq |-> n.seq, body |-> b]
  <2>2. m \in Carried \/ m = x
    BY <1>0, <2>1, CarriedAnswer
  <2>3. PICK t : Adds(u, n, t)
    BY <1>5, EstablishEffect
  <2>4. n.dst = u
    BY <1>5 DEF HandleSessionEstablishmentRequest, HandledAs
  <2>5. t \in DOMAIN upSessions'[u] /\ upSessions'[u][t].req = n.seq
    BY <2>3 DEF Adds
  <2>6. CASE m = x
    <3>1. m.src = u /\ m.seq = n.seq
      BY <2>4, <2>6
    <3> QED
      BY <2>5, <3>1 DEF EstablishedOK
  <2> QED
    BY <1>1, <2>2, <2>6
<1>6. ASSUME NEW u \in UP, NEW n \in DOMAIN net,
             HandleSessionDeletionRequest(u, n)
      PROVE  EstablishedOK(m)'
  <2> DEFINE b == SessionDeletionResponse(n.body.seid, CauseRequestAccepted)
  <2>1. HandleAndAnswer(n, b) /\ b.type # "SessionEstablishmentResponse"
    BY <1>6 DEF HandleSessionDeletionRequest, SessionDeletionResponse, Body
  <2> HIDE DEF b
  <2> QED
    BY <1>0, <1>1, <1>2, <2>1, CarriedAnswer, SMTT(30)
<1>7. ASSUME CPRestart \/ \E u \in UP : UPRestart(u) PROVE m \in Carried
  BY <1>0, <1>7, Homes, CarriedRestart DEF CPRestart, UPRestart
<1> QED
  BY <1>1, <1>3, <1>4, <1>5, <1>6, <1>7 DEF SessionStep

\* BackedInv is kept.
LEMMA BackedInvStep ==
  ASSUME TransportInv, PFCPInv, AnswerInv, KeysOK, SEIDsZero, RecordsOK,
         BackedInv, MessageStep, SessionStep
  PROVE  BackedInv'
<1>1. ASSUME NEW w \in Worker, worker[w].pc = "insert"
      PROVE  Backed(worker[w].node, worker[w].req, worker[w].rules)
  BY <1>1 DEF BackedInv
<1>2. \A w \in Worker : worker[w].pc # "idle" => worker[w].node \in UP
  BY DEF PFCPInv, ControlInv, WorkersOK, WorkerOK
<1>3. ASSUME NEW w \in Worker, worker'[w].pc = "insert"
      PROVE  /\ worker'[w].node \in UP
             /\ Backed(worker'[w].node, worker'[w].req, worker'[w].rules)
  <2>1. CASE worker'[w] = worker[w]
    BY <1>1, <1>2, <1>3, <2>1
  <2>2. CASE GRPCStep(w)
    <3>1. Established(w)
      BY <1>3, <2>2, GRPCStepEffect, SMTT(30) DEF IdleWorker, Starts, GoesOn
    <3>2. /\ worker'[w].node = worker[w].node /\ worker'[w].req = call[w].seq
          /\ worker'[w].rules = worker[w].rules /\ worker[w].pc = "sending"
      BY <3>1 DEF Established, EstablishmentDone
    <3>3. Backed(worker[w].node, call[w].seq, worker[w].rules)
      BY <3>1, AcceptedIsBacked
    <3> QED
      BY <1>2, <3>2, <3>3
  <2>3. worker'[w] = worker[w] \/ GRPCStep(w) \/ worker'[w] = IdleWorker
    <3>1. ASSUME NEW v \in Worker, GRPCStep(v), v # w
          PROVE  worker'[w] = worker[w]
      BY <3>1, GRPCStepEffect
    <3> QED
      BY <3>1 DEF SessionStep, cpVars, CPRestart
  <2> QED
    BY <1>3, <2>1, <2>2, <2>3, SMTT(30) DEF IdleWorker
<1>4. ASSUME NEW s \in DOMAIN sessions'
      PROVE  /\ sessions'[s].node \in UP
             /\ Backed(sessions'[s].node, sessions'[s].req, sessions'[s].rules)
  <2>1. CASE s \in DOMAIN sessions /\ sessions'[s] = sessions[s]
    BY <2>1 DEF BackedInv, PFCPInv, ControlInv, SessionsOK
  <2>2. ASSUME NEW w \in Worker, Inserts(w, s)
        PROVE  /\ sessions'[s].node \in UP
               /\ Backed(sessions'[s].node, sessions'[s].req, sessions'[s].rules)
    <3>1. worker[w].pc = "insert" /\ sessions'[s] = SessionOf(w)
      BY <2>2 DEF Inserts, InsertSession
    <3>2. /\ sessions'[s].node = worker[w].node
          /\ sessions'[s].req = worker[w].req
          /\ sessions'[s].rules = worker[w].rules
      BY <3>1, SMTT(30) DEF SessionOf
    <3> QED
      BY <1>1, <1>2, <3>1, <3>2
  <2>3. \/ s \in DOMAIN sessions /\ sessions'[s] = sessions[s]
        \/ \E w \in Worker : Inserts(w, s)
    <3>1. ASSUME NEW w \in Worker, GRPCStep(w)
          PROVE  \/ s \in DOMAIN sessions /\ sessions'[s] = sessions[s]
                 \/ Inserts(w, s)
      BY <3>1, GRPCStepEffect
    <3>2. CPRestart => DOMAIN sessions' = {}
      BY DEF CPRestart, EmptyMap
    <3> QED
      BY <3>1, <3>2 DEF SessionStep, cpVars
  <2> QED
    BY <2>1, <2>2, <2>3
<1>5. ASSUME NEW w \in Worker, worker'[w].pc = "insert"
      PROVE  Backed(worker[w].node, worker[w].req, worker[w].rules)'
  <2>1. PICK u, q, rules :
          /\ u \in UP /\ u = worker'[w].node /\ q = worker'[w].req
          /\ rules = worker'[w].rules
    BY <1>3, <1>5
  <2>2. Backed(u, q, rules)'
    BY <1>3, <1>5, <2>1, BackedStays
  <2> QED
    BY <2>1, <2>2 DEF Backed
<1>6. ASSUME NEW s \in DOMAIN sessions'
      PROVE  Backed(sessions[s].node, sessions[s].req, sessions[s].rules)'
  <2>1. PICK u, q, rules :
          /\ u \in UP /\ u = sessions'[s].node /\ q = sessions'[s].req
          /\ rules = sessions'[s].rules
    BY <1>4, <1>6
  <2>2. Backed(u, q, rules)'
    BY <1>4, <1>6, <2>1, BackedStays
  <2> QED
    BY <2>1, <2>2 DEF Backed
<1>7. \A w \in Worker : CallOf(w)'
  BY CallOfStep DEF BackedInv
<1>8. \A m \in Carried' : EstablishedOK(m)'
  BY EstablishedOKStep
<1> QED
  BY <1>5, <1>6, <1>7, <1>8 DEF BackedInv

-----------------------------------------------------------------------------
(***************************************************************************)
(* The theorems about the sessions.                                        *)
(***************************************************************************)

\* Nothing is carried when the processes start.
LEMMA SessionInvInit == Init => SessionInv
<1> SUFFICES ASSUME Init PROVE SessionInv
  OBVIOUS
<1>1. DOMAIN net = {} /\ DOMAIN sessions = {}
  BY DEF Init, TransportInit, CPInit, EmptyNet, EmptyMap
<1>2. ASSUME NEW c \in Caller PROVE ~InFlight(c) /\ HeldBy(c) = {}
  <2>1. call[c].st = "idle" /\ call[c].chan = <<>> /\ call[c].resp = <<>>
    BY DEF Init, TransportInit, IdleCall
  <2>2. \A m : <<m>> # <<>>
    OBVIOUS
  <2> QED
    BY <2>1, <2>2 DEF InFlight, HeldBy
<1>3. Carried = {}
  BY <1>1, <1>2 DEF Carried
<1>4. \A w \in Worker : worker[w].remoteSEID = 0 /\ worker[w].pc = "idle"
  BY DEF Init, CPInit, IdleWorker
<1>5. DOMAIN upSessions = UP /\ \A u \in UP : DOMAIN upSessions[u] = {}
  BY DEF Init, UPInit, EmptyMap
<1>6. SEIDsZero
  BY <1>1, <1>3, <1>4 DEF SEIDsZero
<1>7. KeysOK /\ RecordsOK
  BY <1>5, FS_EmptySet DEF KeysOK, RecordsOK
<1>8. BackedInv
  BY <1>1, <1>3, <1>4 DEF BackedInv, CallOf
<1> QED
  BY <1>6, <1>7, <1>8 DEF SessionInv

\* The invariants of the system make SessionInv inductive.
LEMMA SessionInvStep ==
  /\ TransportInv /\ TransportInv' /\ PFCPInv /\ AssociationInv /\ RoomInv
  /\ AnswerInv /\ SessionInv /\ [Next]_vars
  => SessionInv'
<1> SUFFICES ASSUME TransportInv, TransportInv', PFCPInv, AssociationInv, RoomInv,
                    AnswerInv, SessionInv, [Next]_vars
             PROVE  SessionInv'
  OBVIOUS
<1>1. MessageStep /\ SessionStep
  BY StepIsMessageStep, StepIsSessionStep
<1>2. MessagesOK /\ SEIDsZero /\ KeysOK /\ RecordsOK /\ BackedInv
  BY DEF AssociationInv, SessionInv
<1>3. SEIDsZero' /\ KeysOK'
  BY <1>1, <1>2, SEIDsZeroStep, KeysOKStep
<1>4. RecordsOK' /\ BackedInv'
  BY <1>1, <1>2, RecordsOKStep, BackedInvStep
<1> QED
  BY <1>3, <1>4 DEF SessionInv

\* SessionInv holds in every state of the system.
THEOREM SessionInvariant == Spec => []SessionInv
BY SystemInvariant, AnswerInvariant, SessionInvInit, SessionInvStep, PTL DEF Spec

(***************************************************************************)
(* Every session in CPFunction.sessions exists at its node, made by the    *)
(* request of its CreateSession and with its rules, as long as neither of  *)
(* the two restarted: for any number of calls, nodes and sessions, and     *)
(* however the datagrams are delayed, reordered, duplicated and lost.      *)
(***************************************************************************)
THEOREM SessionsAreBacked == Spec => []SessionBacked
<1>1. ASSUME BackedInv PROVE SessionBacked
  BY <1>1 DEF BackedInv, Backed, SessionBacked, FirstLife
<1> QED
  BY <1>1, SessionInvariant, PTL DEF SessionInv

(***************************************************************************)
(* A user plane keeps every session it ever made, unchanged, until its     *)
(* process ends: handleSessionDeletionRequest, which looks for the SEID of *)
(* the header, never finds one, because every header has SEID 0 and        *)
(* allocSEID starts at 1.                                                  *)
(***************************************************************************)
THEOREM DeletionsDeleteNothing ==
  Spec => [][\A u \in UP : Stays(u) \/ UPRestart(u)]_vars
<1>1. ASSUME PFCPInv, SessionInv, [Next]_vars
      PROVE  [\A u \in UP : Stays(u) \/ UPRestart(u)]_vars
  <2>1. \A u \in UP : \/ Same(u) \/ Clears(u)
                      \/ \E m \in DOMAIN net : \E t : Adds(u, m, t)
    BY <1>1, StepIsSessionStep, UserPlaneEffect DEF SessionInv
  <2> QED
    BY <2>1 DEF Same, Clears, Adds
<1> QED
  BY <1>1, PFCPInvariant, SessionInvariant, PTL DEF Spec

=============================================================================
