---------------------------- MODULE TypesProofs ----------------------------
(***************************************************************************)
(* The proof that the state of the two planes has its type, and what a     *)
(* step of a gRPC call does to its locals and to the sessions.             *)
(***************************************************************************)
EXTENDS PFCPProofs, FiniteSetTheorems

\* Zenon tries a step first; a step with arithmetic or records names SMT.
USE ZenonT(20), SMTT(30)

(***************************************************************************)
(* The number of gRPC calls at some points of their code.                  *)
(***************************************************************************)

\* The goroutines at some points of their calls are finitely many.
LEMMA AtFinite ==
  ASSUME NEW S
  PROVE  IsFiniteSet(At(S)) /\ Cardinality(At(S)) \in Nat
<1>1. At(S) \subseteq Worker
  BY DEF At
<1>2. IsFiniteSet(Worker)
  BY PFCPAssumption
<1>3. IsFiniteSet(At(S))
  BY <1>1, <1>2, FS_Subset
<1> QED
  BY <1>3, FS_CardinalityType

\* How their number changes when one goroutine moves.
LEMMA CountMoves ==
  ASSUME WorkersOK, NEW w \in Worker, NEW r, SetWorker(w, r), NEW S
  PROVE  LET n == Cardinality(At(S)) IN
         /\ n \in Nat /\ n' \in Nat
         /\ r.pc \in S /\ worker[w].pc \notin S => n' = n + 1
         /\ r.pc \notin S /\ worker[w].pc \in S => n' = n - 1
         /\ (r.pc \in S <=> worker[w].pc \in S) => n' = n
<1>1. worker'[w] = r /\ \A v \in Worker \ {w} : worker'[v] = worker[v]
  BY DEF WorkersOK, SetWorker
<1>2. IsFiniteSet(At(S)) /\ Cardinality(At(S)) \in Nat
  BY AtFinite
<1>3. At(S)' = IF r.pc \in S THEN At(S) \cup {w} ELSE At(S) \ {w}
  BY <1>1, SMTT(30) DEF At
<1>4. w \in At(S) <=> worker[w].pc \in S
  BY DEF At
<1>5. CASE r.pc \in S
  <2>1. Cardinality(At(S) \cup {w}) =
          IF w \in At(S) THEN Cardinality(At(S)) ELSE Cardinality(At(S)) + 1
    BY <1>2, FS_AddElement
  <2> QED
    BY <1>2, <1>3, <1>4, <1>5, <2>1, SMTT(30)
<1>6. CASE r.pc \notin S
  <2>1. Cardinality(At(S) \ {w}) =
          IF w \in At(S) THEN Cardinality(At(S)) - 1 ELSE Cardinality(At(S))
    BY <1>2, FS_RemoveElement
  <2>2. w \in At(S) => Cardinality(At(S)) # 0
    BY <1>2, FS_EmptySet
  <2> QED
    BY <1>2, <1>3, <1>4, <1>6, <2>1, <2>2, SMTT(30)
<1> QED
  BY <1>5, <1>6

-----------------------------------------------------------------------------
(***************************************************************************)
(* What a step of a gRPC call does to its locals and to sessions.          *)
(***************************************************************************)

\* The steps of a gRPC call outside SendRequest.
GRPCStep(w) ==
  \/ \E u \in UP, r \in Rules : CreateSession(w, u, r)
  \/ \E s \in DOMAIN sessions : DeleteSession(w, s)
  \/ AllocSEID(w) \/ SendEstablishment(w) \/ EstablishmentDone(w)
  \/ InsertSession(w) \/ StoreSession(w)
  \/ FindAssociation(w) \/ SendDeletion(w) \/ DeletionDone(w)
  \/ RemoveSession(w) \/ StoreDeleteSession(w)

\* The call goes on, its request and what it knows of its session the same.
GoesOn(w) ==
  LET old == worker[w]
      new == worker'[w] IN
  /\ new.op = old.op /\ new.node = old.node /\ new.rules = old.rules
  /\ new.remoteSEID = old.remoteSEID /\ new.req = old.req
  /\ new.pc \notin {"idle", "alloc", "insert"}
  /\ new.pc = "sending" => SendEstablishment(w) \/ SendDeletion(w)
  /\ new.pc = "store" => InsertSession(w)
  /\ new.pc = "send" => \/ FindAssociation(w) /\ new.seid = old.seid
                        \/ AllocSEID(w) /\ new.seid = nextSEID
  /\ new.pc # "send" => new.seid = old.seid

\* The call has its session accepted.
Established(w) ==
  LET old == worker[w]
      new == worker'[w] IN
  /\ EstablishmentDone(w) /\ Accepted(w)
  /\ new.op = "create" /\ new.pc = "insert" /\ new.node = old.node
  /\ new.rules = old.rules /\ new.seid = old.seid
  /\ new.remoteSEID = call[w].resp[1].body.seid /\ new.req = call[w].seq

\* The call starts.
Starts(w) ==
  LET new == worker'[w] IN
  \/ /\ new.op = "create" /\ new.pc = "alloc" /\ new.remoteSEID = 0
     /\ \E u \in UP, r \in Rules : CreateSession(w, u, r)
  \/ \E s \in DOMAIN sessions :
       /\ new.op = "delete" /\ new.pc = "lookup" /\ new.seid = s
       /\ new.remoteSEID = sessions[s].remoteSEID

\* The sessions are the ones before, and the one a call inserts.
Inserts(w, s) ==
  InsertSession(w) /\ s = worker[w].seid /\ sessions'[s] = SessionOf(w)

\* One of these is what a step of the call of w does; the others stand still.
LEMMA GRPCStepEffect ==
  ASSUME PFCPInv, NEW w \in Worker, GRPCStep(w)
  PROVE  /\ \A v \in Worker \ {w} : worker'[v] = worker[v]
         /\ worker'[w] = IdleWorker \/ Starts(w) \/ GoesOn(w) \/ Established(w)
         /\ \A s \in DOMAIN sessions' :
              \/ s \in DOMAIN sessions /\ sessions'[s] = sessions[s]
              \/ Inserts(w, s)
<1>0. worker \in [Worker -> WorkerRecord] /\ worker[w] \in WorkerRecord
  BY DEF PFCPInv, ControlInv, WorkersOK
<1> DEFINE Effect == /\ \A v \in Worker \ {w} : worker'[v] = worker[v]
                     /\ \/ worker'[w] = IdleWorker \/ Starts(w) \/ GoesOn(w)
                        \/ Established(w)
<1>1. ASSUME NEW r, SetWorker(w, r)
      PROVE  worker'[w] = r /\ \A v \in Worker \ {w} : worker'[v] = worker[v]
  BY <1>0, <1>1 DEF SetWorker
<1>2. ASSUME Finish(w) PROVE Effect
  <2>1. SetWorker(w, IdleWorker)
    BY <1>2 DEF Finish, SetWorker
  <2> QED
    BY <1>1, <2>1
<1>3. ASSUME NEW pc \in {"send", "sending", "store", "remove", "unstore"},
             Goto(w, pc),
             pc = "sending" => SendEstablishment(w) \/ SendDeletion(w),
             pc = "store" => InsertSession(w),
             pc = "send" => FindAssociation(w)
      PROVE  Effect
  <2> DEFINE r == [worker[w] EXCEPT !.pc = pc]
  <2>1. SetWorker(w, r)
    BY <1>3 DEF Goto, SetWorker
  <2>2. /\ r.pc = pc /\ r.op = worker[w].op /\ r.node = worker[w].node
        /\ r.rules = worker[w].rules /\ r.remoteSEID = worker[w].remoteSEID
        /\ r.req = worker[w].req /\ r.seid = worker[w].seid
    BY <1>0 DEF WorkerRecord
  <2> HIDE DEF r
  <2>3. worker'[w] = r /\ \A v \in Worker \ {w} : worker'[v] = worker[v]
    BY <1>1, <2>1
  <2>4. GoesOn(w)
    BY <1>3, <2>2, <2>3 DEF GoesOn
  <2> QED
    BY <2>3, <2>4
<1>4. ASSUME NEW u \in UP, NEW rules \in Rules, CreateSession(w, u, rules)
      PROVE  Effect
  <2> DEFINE r == [IdleWorker EXCEPT !.op = "create", !.pc = "alloc",
                                     !.node = u, !.rules = rules]
  <2>1. SetWorker(w, r)
    BY <1>4 DEF CreateSession, SetWorker
  <2>2. r.op = "create" /\ r.pc = "alloc" /\ r.remoteSEID = 0
    BY DEF IdleWorker
  <2> HIDE DEF r
  <2> QED
    BY <1>1, <1>4, <2>1, <2>2 DEF Starts
<1>5. ASSUME NEW s \in DOMAIN sessions, DeleteSession(w, s) PROVE Effect
  <2> DEFINE r == [IdleWorker EXCEPT !.op = "delete",
                    !.pc = "lookup", !.node = sessions[s].node, !.seid = s,
                    !.remoteSEID = sessions[s].remoteSEID]
  <2>1. SetWorker(w, r)
    BY <1>5 DEF DeleteSession, SetWorker
  <2>2. /\ r.op = "delete" /\ r.pc = "lookup" /\ r.seid = s
        /\ r.remoteSEID = sessions[s].remoteSEID
    BY DEF IdleWorker
  <2> HIDE DEF r
  <2> QED
    BY <1>1, <2>1, <2>2 DEF Starts
<1>6. ASSUME AllocSEID(w) PROVE Effect
  <2> DEFINE r == [worker[w] EXCEPT !.pc = "send", !.seid = nextSEID]
  <2>1. SetWorker(w, r)
    BY <1>0, <1>6 DEF AllocSEID, SetWorker
  <2>2. /\ r.pc = "send" /\ r.op = worker[w].op /\ r.node = worker[w].node
        /\ r.rules = worker[w].rules /\ r.remoteSEID = worker[w].remoteSEID
        /\ r.req = worker[w].req /\ r.seid = nextSEID
    BY <1>0 DEF WorkerRecord
  <2> HIDE DEF r
  <2>3. worker'[w] = r /\ \A v \in Worker \ {w} : worker'[v] = worker[v]
    BY <1>1, <2>1
  <2>4. GoesOn(w)
    BY <1>6, <2>2, <2>3 DEF GoesOn
  <2> QED
    BY <2>3, <2>4
<1>7. ASSUME EstablishmentDone(w) PROVE Effect
  <2>1. CASE ~Accepted(w)
    BY <1>2, <1>7, <2>1 DEF EstablishmentDone
  <2>2. CASE Accepted(w)
    <3> DEFINE seid == call[w].resp[1].body.seid
               r == [worker[w] EXCEPT !.pc = "insert", !.remoteSEID = seid,
                                      !.req = call[w].seq]
    <3>1. SetWorker(w, r)
      BY <1>0, <1>7, <2>2 DEF EstablishmentDone, SetWorker
    <3>2. /\ r.pc = "insert" /\ r.op = worker[w].op /\ r.node = worker[w].node
          /\ r.rules = worker[w].rules /\ r.remoteSEID = seid
          /\ r.req = call[w].seq /\ r.seid = worker[w].seid
      BY <1>0 DEF WorkerRecord
    <3> HIDE DEF r
    <3>3. worker'[w] = r /\ \A v \in Worker \ {w} : worker'[v] = worker[v]
      BY <1>1, <3>1
    <3>4. worker[w].op = "create"
      BY <1>7 DEF EstablishmentDone
    <3>5. Established(w)
      BY <1>7, <2>2, <3>2, <3>3, <3>4 DEF Established
    <3> QED
      BY <3>3, <3>5
  <2> QED
    BY <2>1, <2>2
<1>8. ASSUME SendEstablishment(w) \/ SendDeletion(w) \/ InsertSession(w)
      PROVE  Effect
  <2>1. \/ Goto(w, "sending") /\ (SendEstablishment(w) \/ SendDeletion(w))
        \/ Goto(w, "store") /\ InsertSession(w)
    BY <1>8 DEF SendEstablishment, SendDeletion, InsertSession
  <2> QED
    BY <1>3, <2>1
<1>9. ASSUME FindAssociation(w) \/ DeletionDone(w) \/ RemoveSession(w)
      PROVE  Effect
  <2>1. \/ Finish(w) \/ (Goto(w, "send") /\ FindAssociation(w))
        \/ Goto(w, "remove") \/ Goto(w, "unstore")
    BY <1>9 DEF FindAssociation, DeletionDone, RemoveSession
  <2> QED
    BY <1>2, <1>3, <2>1
<1>10. ASSUME StoreSession(w) \/ StoreDeleteSession(w) PROVE Effect
  BY <1>2, <1>10 DEF StoreSession, StoreDeleteSession, StoreWrite
<1>11. Effect
  BY <1>4, <1>5, <1>6, <1>7, <1>8, <1>9, <1>10 DEF GRPCStep
<1>12. ASSUME NEW s \in DOMAIN sessions'
       PROVE  \/ s \in DOMAIN sessions /\ sessions'[s] = sessions[s]
              \/ Inserts(w, s)
  <2>1. CASE InsertSession(w)
    BY <2>1 DEF InsertSession, Inserts, Assign
  <2>2. CASE RemoveSession(w)
    BY <2>2 DEF RemoveSession, Without, Restrict
  <2>3. CASE ~InsertSession(w) /\ ~RemoveSession(w)
    <3>1. sessions' = sessions
      BY <2>3 DEF GRPCStep, CreateSession, DeleteSession, AllocSEID,
         SendEstablishment, EstablishmentDone, StoreSession, FindAssociation,
         SendDeletion, DeletionDone, StoreDeleteSession, StoreWrite
    <3> QED
      BY <3>1
  <2> QED
    BY <2>1, <2>2, <2>3
<1> QED
  BY <1>11, <1>12

-----------------------------------------------------------------------------
(***************************************************************************)
(* TypeOK.  The types of the node's own records follow from PFCPInv and    *)
(* AssociationInv.  What is left are the bounds: a SEID in sessions or in  *)
(* the store was given out, and CreateSession starts only when there is a  *)
(* SEID for it and for every call that has yet to take one; an Association *)
(* has the number of a set-up that took place.                             *)
(***************************************************************************)
SessionRecord ==
  [node: UP, rules: Rules, remoteSEID: HeaderSEID, req: SeqNums]

GivenSEIDs == 1 .. nextSEID - 1

\* A goroutine whose call has its SEID.
HasSEID(r) == r.op = "delete" \/ r.pc \in {"send", "sending", "insert", "store"}

SEIDsGiven ==
  /\ nextSEID \in Nat \ {0}
  /\ nextSEID + Cardinality(At({"alloc"})) <= MaxSEID + 1
  /\ DOMAIN sessions \cup store \subseteq GivenSEIDs
  /\ \A w \in Worker : HasSEID(worker[w]) => worker[w].seid \in GivenSEIDs

RecordsTyped ==
  /\ \A w \in Worker : worker[w].pc = "insert" => worker[w].req \in SeqNums
  /\ \A s \in DOMAIN sessions : sessions[s] \in SessionRecord

AssociationsNamed ==
  \A u \in UP : associations[u] # <<>> => associations[u][1].id \in 1 .. setups

TypesInv == SEIDsGiven /\ RecordsTyped /\ AssociationsNamed

\* What TypeOK needs to know of a step.
TypesStep ==
  \/ \E w \in Worker : GRPCStep(w) /\ UNCHANGED <<associations, setups>>
  \/ CPRestart
  \/ /\ UNCHANGED <<worker, sessions, nextSEID, store>>
     /\ \/ UNCHANGED <<associations, setups>>
        \/ HeartbeatDone
        \/ \E m \in DOMAIN net : \/ HandleAssociationSetupRequest(m)
                                 \/ HandleAssociationReleaseRequest(m)

\* Every step of the system is one of these.
LEMMA StepIsTypesStep == [Next]_vars => TypesStep
<1> SUFFICES ASSUME [Next]_vars PROVE TypesStep
  OBVIOUS
<1>1. ASSUME UNCHANGED cpVars PROVE TypesStep
  BY <1>1 DEF TypesStep, cpVars
<1>2. ASSUME NEW w \in Worker, GRPCStep(w) PROVE UNCHANGED <<associations, setups>>
  BY <1>2 DEF GRPCStep, CreateSession, DeleteSession, AllocSEID, SendEstablishment,
     EstablishmentDone, InsertSession, StoreSession, FindAssociation, SendDeletion,
     DeletionDone, RemoveSession, StoreDeleteSession, StoreWrite
<1>3. ASSUME NEW w \in Worker,
             \/ WorkerStep(w)
             \/ \E u \in UP, r \in Rules : CreateSession(w, u, r)
             \/ \E s \in DOMAIN sessions : DeleteSession(w, s)
      PROVE  TypesStep
  <2>1. CASE CallerStep(w) /\ UNCHANGED cpVars
    BY <1>1, <2>1
  <2>2. CASE GRPCStep(w)
    BY <1>2, <2>2 DEF TypesStep
  <2> QED
    BY <1>3, <2>1, <2>2 DEF WorkerStep, GRPCStep
<1>4. ASSUME HeartbeatTick \/ HeartbeatStep PROVE TypesStep
  <2>1. CASE HeartbeatDone
    BY <2>1 DEF TypesStep, HeartbeatDone
  <2>2. CASE HeartbeatTick \/ SendHeartbeat
    BY <2>2 DEF TypesStep, HeartbeatTick, SendHeartbeat
  <2> QED
    BY <1>1, <1>4, <2>1, <2>2 DEF HeartbeatStep
<1>5. ASSUME NEW m \in DOMAIN net,
             \/ HandleAssociationSetupRequest(m)
             \/ HandleAssociationReleaseRequest(m)
      PROVE  TypesStep
  BY <1>5 DEF TypesStep, HandleAssociationSetupRequest,
     HandleAssociationReleaseRequest
<1>6. ASSUME CPNext PROVE TypesStep
  <2>1. CASE CPRestart
    BY <2>1 DEF TypesStep
  <2>2. CASE \E m \in DOMAIN net : CPHandleHeartbeatRequest(m) \/ CPDrop(m)
    BY <1>1, <2>2 DEF CPHandleHeartbeatRequest, CPDrop
  <2> QED
    BY <1>3, <1>4, <1>5, <1>6, <2>1, <2>2 DEF CPNext
<1> QED
  BY <1>1, <1>6 DEF Next, vars, Deliver, Duplicated

\* A set-up makes an Association with the next number; a heartbeat keeps the
\* number of the one it was sent for.
LEMMA AssociationsNamedStep ==
  ASSUME StatesOK, AssociationsNamed, TypesStep
  PROVE  AssociationsNamed'
<1>1. /\ associations \in [UP -> Option([id: Nat, heard: BOOLEAN])]
      /\ setups \in Nat
  BY DEF StatesOK
<1>2. CASE UNCHANGED <<associations, setups>>
  BY <1>2 DEF AssociationsNamed
<1>3. CASE CPRestart
  BY <1>3 DEF CPRestart, AssociationsNamed
<1>4. CASE HeartbeatDone
  <2>1. setups' = setups
    BY <1>4 DEF HeartbeatDone
  <2>2. ASSUME NEW u \in UP, associations'[u] # <<>>
        PROVE  associations[u] # <<>> /\ associations'[u][1].id = associations[u][1].id
    <3>1. CASE associations'[u] = associations[u]
      BY <2>2, <3>1
    <3>2. CASE /\ associations[u] # <<>>
               /\ associations'[u] = <<[id |-> associations[u][1].id, heard |-> TRUE]>>
      BY <3>2, SMTT(30)
    <3> QED
      BY <1>1, <1>4, <3>1, <3>2 DEF HeartbeatDone
  <2> QED
    BY <2>1, <2>2 DEF AssociationsNamed
<1>5. ASSUME NEW m, HandleAssociationSetupRequest(m) PROVE AssociationsNamed'
  <2>1. setups' = setups + 1
    BY <1>5 DEF HandleAssociationSetupRequest
  <2>2. ASSUME NEW u \in UP, associations'[u] # <<>>
        PROVE  associations'[u][1].id \in 1 .. setups + 1
    <3>1. CASE u = m.src
      <4>1. associations'[u] = <<[id |-> setups + 1, heard |-> FALSE]>>
        BY <1>1, <1>5, <3>1 DEF HandleAssociationSetupRequest
      <4> QED
        BY <1>1, <4>1, SMTT(30)
    <3>2. CASE u # m.src
      <4>1. associations'[u] = associations[u]
        BY <1>1, <1>5, <3>2 DEF HandleAssociationSetupRequest
      <4> QED
        BY <1>1, <2>2, <4>1, SMTT(30) DEF AssociationsNamed
    <3> QED
      BY <3>1, <3>2
  <2> QED
    BY <2>1, <2>2 DEF AssociationsNamed
<1>6. ASSUME NEW m, HandleAssociationReleaseRequest(m) PROVE AssociationsNamed'
  <2>1. \A u \in UP : associations'[u] = IF u = m.src THEN <<>> ELSE associations[u]
    BY <1>1, <1>6 DEF HandleAssociationReleaseRequest
  <2>2. setups' = setups
    BY <1>6 DEF HandleAssociationReleaseRequest
  <2> QED
    BY <2>1, <2>2 DEF AssociationsNamed
<1> QED
  BY <1>2, <1>3, <1>4, <1>5, <1>6 DEF TypesStep
\* What a gRPC call does to nextSEID and to the store.
LEMMA SEIDsTaken ==
  ASSUME NEW w \in Worker, GRPCStep(w)
  PROVE  /\ nextSEID' = nextSEID \/ (AllocSEID(w) /\ nextSEID' = nextSEID + 1)
         /\ \/ store' \subseteq store
            \/ store' = store \cup {worker[w].seid} /\ worker[w].pc = "store"
<1>1. CASE StoreSession(w) \/ StoreDeleteSession(w)
  BY <1>1 DEF StoreSession, StoreDeleteSession, StoreWrite
<1>2. CASE AllocSEID(w)
  BY <1>2 DEF AllocSEID
<1>3. CASE ~(StoreSession(w) \/ StoreDeleteSession(w) \/ AllocSEID(w))
  BY <1>3 DEF GRPCStep, CreateSession, DeleteSession, SendEstablishment,
     EstablishmentDone, InsertSession, FindAssociation, SendDeletion,
     DeletionDone, RemoveSession
<1> QED
  BY <1>1, <1>2, <1>3

\* There is a SEID for every call that has yet to take one: CreateSession
\* starts only if there is, and AllocSEID takes one.
LEMMA RoomForSEIDs ==
  ASSUME PFCPInv, PFCPInv', SEIDsGiven, NEW w \in Worker, GRPCStep(w)
  PROVE  /\ nextSEID' \in Nat \ {0} /\ nextSEID <= nextSEID'
         /\ nextSEID' + Cardinality(At({"alloc"}))' <= MaxSEID + 1
<1>0. /\ WorkersOK /\ WorkersOK'
      /\ nextSEID \in Nat \ {0} /\ MaxSEID \in Nat
      /\ nextSEID + Cardinality(At({"alloc"})) <= MaxSEID + 1
  BY ControlPlaneAssumption DEF PFCPInv, ControlInv, SEIDsGiven
<1>1. /\ nextSEID' = nextSEID \/ (AllocSEID(w) /\ nextSEID' = nextSEID + 1)
  BY SEIDsTaken
<1>2. PICK r : r = worker'[w]
  OBVIOUS
<1>3. SetWorker(w, r)
  <2>1. \A v \in Worker \ {w} : worker'[v] = worker[v]
    BY GRPCStepEffect
  <2>2. worker \in [Worker -> WorkerRecord] /\ worker' \in [Worker -> WorkerRecord]
    BY <1>0 DEF WorkersOK
  <2> QED
    BY <1>2, <2>1, <2>2 DEF SetWorker
<1> DEFINE n == Cardinality(At({"alloc"}))
<1>4. /\ n \in Nat /\ n' \in Nat
      /\ r.pc = "alloc" /\ worker[w].pc # "alloc" => n' = n + 1
      /\ r.pc # "alloc" /\ worker[w].pc = "alloc" => n' = n - 1
      /\ (r.pc = "alloc" <=> worker[w].pc = "alloc") => n' = n
  BY <1>0, <1>3, CountMoves
<1>5. nextSEID + n <= MaxSEID + 1
  BY <1>0
<1> HIDE DEF n
<1>6. CASE AllocSEID(w)
  <2>1. worker[w].pc = "alloc" /\ r.pc = "send" /\ nextSEID' = nextSEID + 1
    BY <1>0, <1>2, <1>6, SMTT(30) DEF AllocSEID, WorkersOK, WorkerRecord
  <2>2. n' = n - 1
    BY <1>4, <2>1
  <2>3. nextSEID' + n' <= MaxSEID + 1
    BY <1>0, <1>4, <1>5, <2>1, <2>2, SMTT(30)
  <2> QED
    BY <1>0, <2>1, <2>3, SMTT(30) DEF n
<1>7. ASSUME NEW u \in UP, NEW rules \in Rules, CreateSession(w, u, rules)
      PROVE  nextSEID' = nextSEID /\ nextSEID + n' <= MaxSEID + 1
  <2>1. worker[w].pc = "idle" /\ nextSEID + n <= MaxSEID /\ nextSEID' = nextSEID
    BY <1>7 DEF CreateSession, n
  <2>2. n \in Nat /\ n' \in Nat /\ n' <= n + 1
    BY <1>4, <2>1, SMTT(30)
  <2>3. nextSEID \in Nat /\ MaxSEID \in Nat
    BY <1>0
  <2>4. \A a, b, c, d \in Nat : a + b <= d /\ c <= b + 1 => a + c <= d + 1
    BY SMTT(30)
  <2>5. nextSEID + n' <= MaxSEID + 1
    BY <2>1, <2>2, <2>3, <2>4
  <2> QED
    BY <2>1, <2>5
<1>8. CASE r.pc # "alloc" /\ ~AllocSEID(w)
  <2>1. n' <= n /\ nextSEID' = nextSEID
    BY <1>1, <1>4, <1>8, SMTT(30)
  <2>2. /\ nextSEID \in Nat /\ n \in Nat /\ n' \in Nat /\ MaxSEID \in Nat
        /\ n' <= n /\ nextSEID + n <= MaxSEID + 1
    BY <1>0, <1>4, <1>5, <2>1
  <2>3. \A a, b, c, d \in Nat : a + b <= d + 1 /\ c <= b => a + c <= d + 1
    BY SMTT(30)
  <2>4. nextSEID' + n' <= MaxSEID + 1
    BY <2>1, <2>2, <2>3
  <2> QED
    BY <1>0, <2>1, <2>4, SMTT(30) DEF n
<1>9. r.pc = "alloc" => \E u \in UP, rules \in Rules : CreateSession(w, u, rules)
  BY <1>2, GRPCStepEffect, SMTT(30) DEF IdleWorker, Starts, GoesOn, Established
<1> QED
  BY <1>0, <1>6, <1>7, <1>8, <1>9, SMTT(30) DEF n

\* A call comes by its SEID from nextSEID, or from sessions.
LEMMA SEIDsGivenStep ==
  ASSUME PFCPInv, PFCPInv', SEIDsGiven, NEW w \in Worker, GRPCStep(w)
  PROVE  SEIDsGiven'
<1>0. /\ nextSEID \in Nat \ {0}
      /\ DOMAIN sessions \cup store \subseteq GivenSEIDs
      /\ \A v \in Worker : HasSEID(worker[v]) => worker[v].seid \in GivenSEIDs
  BY DEF SEIDsGiven
<1>1. /\ nextSEID' \in Nat \ {0} /\ nextSEID <= nextSEID'
      /\ nextSEID' + Cardinality(At({"alloc"}))' <= MaxSEID + 1
  BY RoomForSEIDs
<1>2. GivenSEIDs \subseteq GivenSEIDs'
  <2>1. nextSEID \in Nat /\ nextSEID' \in Nat /\ nextSEID <= nextSEID'
    BY <1>0, <1>1
  <2>2. \A a, b \in Nat : a <= b => 1 .. a - 1 \subseteq 1 .. b - 1
    BY SMTT(30)
  <2>3. 1 .. nextSEID - 1 \subseteq 1 .. nextSEID' - 1
    BY <2>1, <2>2
  <2> QED
    BY <2>3 DEF GivenSEIDs
<1>3. worker[w] \in WorkerRecord /\ WorkerOK(worker[w])
  BY DEF PFCPInv, ControlInv, WorkersOK
<1>4. worker[w].pc \in {"insert", "store"} => worker[w].seid \in GivenSEIDs
  BY <1>0 DEF HasSEID
<1>5. DOMAIN sessions' \subseteq GivenSEIDs'
  <2>1. ASSUME NEW s \in DOMAIN sessions' PROVE s \in GivenSEIDs
    <3>1. CASE s \in DOMAIN sessions
      BY <1>0, <3>1
    <3>2. CASE Inserts(w, s)
      BY <1>4, <3>2 DEF Inserts, InsertSession
    <3> QED
      BY <3>1, <3>2, GRPCStepEffect
  <2> QED
    BY <1>2, <2>1
<1>6. store' \subseteq GivenSEIDs'
  BY <1>0, <1>2, <1>4, SEIDsTaken
<1>7. HasSEID(worker'[w]) => worker'[w].seid \in GivenSEIDs'
  <2>1. CASE worker'[w] = IdleWorker
    BY <2>1, SMTT(30) DEF HasSEID, IdleWorker
  <2>2. CASE Starts(w)
    BY <1>0, <1>2, <2>2 DEF Starts, HasSEID
  <2>3. CASE Established(w)
    <3>1. worker[w].pc = "sending" /\ worker'[w].seid = worker[w].seid
      BY <2>3 DEF Established, EstablishmentDone
    <3> QED
      BY <1>0, <1>2, <3>1 DEF HasSEID
  <2>4. CASE GoesOn(w)
    <3>1. CASE AllocSEID(w) /\ worker'[w].seid = nextSEID
      <4>1. nextSEID' = nextSEID + 1
        BY <3>1 DEF AllocSEID
      <4> QED
        BY <1>0, <3>1, <4>1, SMTT(30) DEF GivenSEIDs
    <3>2. ASSUME HasSEID(worker'[w]), worker'[w].seid = worker[w].seid,
                 worker'[w].pc = "send" => FindAssociation(w)
          PROVE  worker'[w].seid \in GivenSEIDs'
      <4>1. HasSEID(worker[w])
        BY <1>3, <2>4, <3>2 DEF HasSEID, GoesOn, FindAssociation, WorkerOK,
           SendEstablishment, SendDeletion, InsertSession
      <4> QED
        BY <1>0, <1>2, <3>2, <4>1
    <3> QED
      BY <2>4, <3>1, <3>2 DEF GoesOn
  <2> QED
    BY <2>1, <2>2, <2>3, <2>4, GRPCStepEffect
<1>8. \A v \in Worker : HasSEID(worker'[v]) => worker'[v].seid \in GivenSEIDs'
  BY <1>0, <1>2, <1>7, GRPCStepEffect
<1> QED
  BY <1>1, <1>5, <1>6, <1>8 DEF SEIDsGiven, HasSEID
\* The number a call keeps of its exchange is the one of a call of the
\* transport, and a session is made of the locals of its CreateSession.
LEMMA RecordsTypedStep ==
  ASSUME PFCPInv, RecordsTyped, NEW w \in Worker, GRPCStep(w)
  PROVE  RecordsTyped'
<1>0. /\ \A v \in Worker : worker[v].pc = "insert" => worker[v].req \in SeqNums
      /\ \A s \in DOMAIN sessions : sessions[s] \in SessionRecord
  BY DEF RecordsTyped
<1>1. worker[w] \in WorkerRecord /\ WorkerOK(worker[w])
  BY DEF PFCPInv, ControlInv, WorkersOK
<1>2. worker'[w].pc = "insert" => worker'[w].req \in SeqNums
  <2>1. CASE Established(w)
    <3>1. worker'[w].req = call[w].seq
      BY <2>1 DEF Established
    <3>2. call[w] \in CallRecord
      BY Homes DEF PFCPInv, TransportTypeOK
    <3>3. call[w].seq \in SeqNums
      BY <3>2, FieldsType
    <3> QED
      BY <3>1, <3>3
  <2> QED
    BY <2>1, GRPCStepEffect, SMTT(30) DEF IdleWorker, Starts, GoesOn
<1>3. \A v \in Worker : worker'[v].pc = "insert" => worker'[v].req \in SeqNums
  BY <1>0, <1>2, GRPCStepEffect
<1>4. ASSUME NEW s \in DOMAIN sessions', Inserts(w, s)
      PROVE  sessions'[s] \in SessionRecord
  <2>1. worker[w].pc = "insert" /\ sessions'[s] = SessionOf(w)
    BY <1>4 DEF Inserts, InsertSession
  <2>2. /\ worker[w].node \in UP /\ worker[w].rules \in Rules
        /\ worker[w].remoteSEID \in HeaderSEID /\ worker[w].req \in SeqNums
    BY <1>0, <1>1, <2>1 DEF WorkerOK, WorkerRecord
  <2> QED
    BY <2>1, <2>2, SMTT(30) DEF SessionOf, SessionRecord
<1>5. \A s \in DOMAIN sessions' : sessions'[s] \in SessionRecord
  BY <1>0, <1>4, GRPCStepEffect
<1> QED
  BY <1>3, <1>5 DEF RecordsTyped

\* Init and CPRestart start the control plane in the same state.
LEMMA TypesFresh ==
  ASSUME nextSEID' = 1, sessions' = EmptyMap, store' = {},
         worker' = [w \in Worker |-> IdleWorker]
  PROVE  SEIDsGiven' /\ RecordsTyped'
<1>1. At({"alloc"})' = {} /\ DOMAIN sessions' = {}
  BY DEF At, IdleWorker, EmptyMap
<1>2. nextSEID' + Cardinality(At({"alloc"}))' <= MaxSEID + 1
  BY <1>1, FS_EmptySet, ControlPlaneAssumption, SMTT(30)
<1>3. \A w \in Worker : ~HasSEID(worker'[w]) /\ worker'[w].pc = "idle"
  BY DEF HasSEID, IdleWorker
<1> QED
  BY <1>1, <1>2, <1>3, SMTT(30) DEF SEIDsGiven, RecordsTyped, HasSEID

\* Nothing is given out at first.
LEMMA TypesInvInit == Init => TypesInv
<1> SUFFICES ASSUME Init PROVE TypesInv
  OBVIOUS
<1>0. CPInit
  BY DEF Init
<1>1. At({"alloc"}) = {} /\ DOMAIN sessions = {}
  BY <1>0 DEF CPInit, At, IdleWorker, EmptyMap
<1>2. nextSEID = 1 /\ nextSEID + Cardinality(At({"alloc"})) <= MaxSEID + 1
  BY <1>0, <1>1, FS_EmptySet, ControlPlaneAssumption, SMTT(30) DEF CPInit
<1>3. \A w \in Worker : ~HasSEID(worker[w]) /\ worker[w].pc = "idle"
  BY <1>0 DEF CPInit, HasSEID, IdleWorker
<1>4. store = {} /\ AssociationsNamed
  BY <1>0 DEF CPInit, AssociationsNamed
<1> QED
  BY <1>1, <1>2, <1>3, <1>4, SMTT(30) DEF TypesInv, SEIDsGiven, RecordsTyped

\* Every step of the system keeps TypesInv.
LEMMA TypesInvStep ==
  PFCPInv /\ PFCPInv' /\ StatesOK /\ TypesInv /\ [Next]_vars => TypesInv'
<1> SUFFICES ASSUME PFCPInv, PFCPInv', StatesOK, TypesInv, [Next]_vars
             PROVE  TypesInv'
  OBVIOUS
<1>0. TypesStep /\ SEIDsGiven /\ RecordsTyped /\ AssociationsNamed
  BY StepIsTypesStep DEF TypesInv
<1>1. AssociationsNamed'
  BY <1>0, AssociationsNamedStep
<1>2. CASE \E w \in Worker : GRPCStep(w)
  BY <1>0, <1>1, <1>2, SEIDsGivenStep, RecordsTypedStep DEF TypesInv
<1>3. CASE CPRestart
  <2>1. /\ nextSEID' = 1 /\ sessions' = EmptyMap /\ store' = {}
        /\ worker' = [w \in Worker |-> IdleWorker]
    BY <1>3 DEF CPRestart
  <2> QED
    BY <1>1, <2>1, TypesFresh DEF TypesInv
<1>4. CASE UNCHANGED <<worker, sessions, nextSEID, store>>
  BY <1>0, <1>1, <1>4 DEF TypesInv, SEIDsGiven, RecordsTyped, GivenSEIDs, At
<1> QED
  BY <1>0, <1>2, <1>3, <1>4 DEF TypesStep

\* A sequence that is empty or of one record has the type of the record.
LEMMA OptionType ==
  ASSUME NEW S, NEW o \in Option(S), NEW T, o # <<>> => o[1] \in T
  PROVE  o \in Option(T)
BY SMTT(30) DEF Option

\* The state of the control and the user planes has its type: what CPFunction
\* and UPFunction keep of associations, sessions and SEIDs are records of what
\* was set up, established and given out.
THEOREM PFCPTypeCorrect == Spec => []TypeOK
<1>1. ASSUME PFCPInv, StatesOK, TypesInv PROVE TypeOK
  <2>0. /\ TransportTypeOK /\ WorkersOK
        /\ associations \in [UP -> Option([id: Nat, heard: BOOLEAN])]
        /\ upState \in [UP -> UPStates]
        /\ SEIDsGiven /\ RecordsTyped /\ AssociationsNamed
    BY <1>1 DEF PFCPInv, ControlInv, StatesOK, TypesInv
  <2>1. ASSUME NEW u \in UP
        PROVE  associations[u] \in Option([id: 1 .. setups, heard: BOOLEAN])
    <3>1. associations[u] \in Option([id: Nat, heard: BOOLEAN])
      BY <2>0
    <3>2. ASSUME associations[u] # <<>>
          PROVE  associations[u][1] \in [id: 1 .. setups, heard: BOOLEAN]
      <4>1. associations[u][1] \in [id: Nat, heard: BOOLEAN]
        BY <3>1, <3>2, SMTT(30) DEF Option
      <4>2. associations[u][1].id \in 1 .. setups
        BY <2>0, <3>2 DEF AssociationsNamed
      <4> QED
        BY <4>1, <4>2
    <3> QED
      BY <3>1, <3>2, OptionType
  <2>2. associations \in [UP -> Option([id: 1 .. setups, heard: BOOLEAN])]
    BY <2>0, <2>1
  <2>3. nextSEID \in 1 .. MaxSEID + 1 /\ GivenSEIDs \subseteq 1 .. MaxSEID
    <3>1. Cardinality(At({"alloc"})) \in Nat
      BY <2>0, AtFinite
    <3>2. /\ nextSEID \in Nat \ {0} /\ MaxSEID \in Nat
          /\ nextSEID + Cardinality(At({"alloc"})) <= MaxSEID + 1
      BY <2>0, ControlPlaneAssumption DEF SEIDsGiven
    <3>3. \A n \in Nat \ {0}, k, max \in Nat : n + k <= max + 1 =>
            n \in 1 .. max + 1 /\ 1 .. n - 1 \subseteq 1 .. max
      BY SMTT(30)
    <3> QED
      BY <3>1, <3>2, <3>3 DEF GivenSEIDs
  <2>4. DOMAIN sessions \subseteq 1 .. MaxSEID /\ store \subseteq 1 .. MaxSEID
    BY <2>0, <2>3 DEF SEIDsGiven
  <2>5. \A s \in DOMAIN sessions :
          sessions[s] \in [node: UP, rules: Rules, remoteSEID: HeaderSEID,
                           req: SeqNums]
    BY <2>0 DEF RecordsTyped, SessionRecord
  <2> QED
    BY <2>0, <2>2, <2>3, <2>4, <2>5 DEF TypeOK, UPStates
<1>2. AssociationInv => StatesOK
  BY DEF AssociationInv
<1> QED
  BY <1>1, <1>2, PFCPInvariant, AssociationInvariant, TypesInvInit, TypesInvStep, PTL DEF Spec
=============================================================================
