---------------------------- MODULE ControlPlane ----------------------------
(***************************************************************************)
(* The control plane function of pkg/cp: the gRPC goroutines in            *)
(* CreateSession and DeleteSession, the heartbeat loop, the handlers on    *)
(* the transport's receiving goroutine, and the northbound store.  cp.mu   *)
(* is taken and released several times in one call, so each critical       *)
(* section is an action.                                                   *)
(***************************************************************************)
EXTENDS PFCPMessages

CONSTANT MaxSEID  \* bound: sessions the control plane numbers

ASSUME ControlPlaneAssumption == MaxSEID \in Nat

VARIABLES
  associations,  \* associations[u]: the Association of node u, or nothing
  setups,        \* how many Association objects were made; names the next
  sessions,      \* CPFunction.sessions
  nextSEID,      \* CPFunction.nextSEID
  store,         \* the SEIDs in the MemoryStore
  worker,        \* worker[w]: the gRPC call goroutine w is in
  heartbeat,     \* where sendHeartbeats is
  raced          \* history: two goroutines were in the MemoryStore at once

cpVars ==
  <<associations, setups, sessions, nextSEID, store, worker, heartbeat, raced>>

IdleWorker ==
  [op |-> "none", pc |-> "idle", node |-> CP, seid |-> 0, rules |-> NoRules,
   remoteSEID |-> 0, req |-> 0]

IdleHeartbeat == [pc |-> "idle", todo |-> {}, node |-> CP, assoc |-> 0]

CPInit ==
  /\ associations = [u \in UP |-> <<>>]
  /\ setups = 0
  /\ sessions = EmptyMap
  /\ nextSEID = 1
  /\ store = {}
  /\ worker = [w \in Worker |-> IdleWorker]
  /\ heartbeat = IdleHeartbeat
  /\ raced = FALSE

At(pcs) == {w \in Worker : worker[w].pc \in pcs}

\* Calls under way that will still take a sequence number.
Unsent ==
  Cardinality(At({"alloc", "lookup", "send"})) + Cardinality(heartbeat.todo)

CPHasRoom(n) == seqNum[CP] + Unsent + n <= MaxRequests[CP] + 1

Goto(w, pc) == worker' = [worker EXCEPT ![w].pc = pc]
Finish(w) == worker' = [worker EXCEPT ![w] = IdleWorker]

-----------------------------------------------------------------------------
(***************************************************************************)
(* CreateSession.  A call that finds no association returns at once and    *)
(* changes nothing.                                                        *)
(***************************************************************************)

CreateSession(w, u, rules) ==
  /\ worker[w].pc = "idle"
  /\ associations[u] # <<>>
  /\ CPHasRoom(1) /\ nextSEID + Cardinality(At({"alloc"})) <= MaxSEID
  /\ worker' = [worker EXCEPT ![w] = [IdleWorker EXCEPT !.op = "create",
                            !.pc = "alloc", !.node = u, !.rules = rules]]
  /\ UNCHANGED transportVars
  /\ UNCHANGED <<associations, setups, sessions, nextSEID, store, heartbeat,
                 raced>>

\* Mutant: the SEID is read but not taken.
AllocSEIDShared(w) ==
  /\ worker[w].pc = "alloc"
  /\ worker' = [worker EXCEPT ![w].pc = "send", ![w].seid = nextSEID]
  /\ UNCHANGED transportVars
  /\ UNCHANGED <<associations, setups, sessions, nextSEID, store, heartbeat,
                 raced>>

AllocSEID(w) ==
  /\ worker[w].pc = "alloc"
  /\ worker' = [worker EXCEPT ![w].pc = "send", ![w].seid = nextSEID]
  /\ nextSEID' = nextSEID + 1
  /\ UNCHANGED transportVars
  /\ UNCHANGED <<associations, setups, sessions, store, heartbeat, raced>>

\* The header carries SEID 0.
SendEstablishment(w) ==
  /\ worker[w].op = "create" /\ worker[w].pc = "send"
  /\ SendRequest(w, worker[w].node,
                 SessionEstablishmentRequest(0, worker[w].rules))
  /\ Goto(w, "sending")
  /\ UNCHANGED <<associations, setups, sessions, nextSEID, store, heartbeat,
                 raced>>

\* Mutant: any message is taken for success.
EstablishmentDoneUnchecked(w) ==
  /\ worker[w].op = "create" /\ worker[w].pc = "sending"
  /\ Resume(w)
  /\ IF call[w].resp # <<>>
     THEN worker' = [worker EXCEPT ![w].pc = "insert",
                                   ![w].remoteSEID = call[w].resp[1].body.seid,
                                   ![w].req = call[w].seq]
     ELSE Finish(w)
  /\ UNCHANGED <<associations, setups, sessions, nextSEID, store, heartbeat,
                 raced>>

\* Mutant: a failed establishment is tried again, for ever.
EstablishmentDoneRetried(w) ==
  /\ worker[w].op = "create" /\ worker[w].pc = "sending"
  /\ Resume(w)
  /\ IF Accepted(w)
     THEN worker' = [worker EXCEPT ![w].pc = "insert",
                                   ![w].remoteSEID = call[w].resp[1].body.seid,
                                   ![w].req = call[w].seq]
     ELSE Goto(w, "send")
  /\ UNCHANGED <<associations, setups, sessions, nextSEID, store, heartbeat,
                 raced>>

\* SendRequest returned: an error, a message without a Cause IE, or the
\* accepted session, whose remote SEID is the one in the answer's header.
EstablishmentDone(w) ==
  /\ worker[w].op = "create" /\ worker[w].pc = "sending"
  /\ Resume(w)
  /\ IF Accepted(w)
     THEN worker' = [worker EXCEPT ![w].pc = "insert",
                                   ![w].remoteSEID = call[w].resp[1].body.seid,
                                   ![w].req = call[w].seq]
     ELSE Finish(w)
  /\ UNCHANGED <<associations, setups, sessions, nextSEID, store, heartbeat,
                 raced>>

\* The Session a CreateSession inserts.
SessionOf(w) ==
  [node |-> worker[w].node, rules |-> worker[w].rules,
   remoteSEID |-> worker[w].remoteSEID, req |-> worker[w].req]

\* Mutant: returns before the northbound store is written.
InsertSessionOnly(w) ==
  /\ worker[w].pc = "insert"
  /\ sessions' = Assign(sessions, worker[w].seid, SessionOf(w))
  /\ Finish(w)
  /\ UNCHANGED transportVars
  /\ UNCHANGED <<associations, setups, nextSEID, store, heartbeat, raced>>

InsertSession(w) ==
  /\ worker[w].pc = "insert"
  /\ sessions' = Assign(sessions, worker[w].seid, SessionOf(w))
  /\ Goto(w, "store")
  /\ UNCHANGED transportVars
  /\ UNCHANGED <<associations, setups, nextSEID, store, heartbeat, raced>>

-----------------------------------------------------------------------------
(***************************************************************************)
(* DeleteSession.  A call with a SEID of no session, or that then finds no *)
(* association, returns and changes nothing.                               *)
(***************************************************************************)

DeleteSession(w, seid) ==
  /\ worker[w].pc = "idle"
  /\ seid \in DOMAIN sessions
  /\ CPHasRoom(1)
  /\ worker' = [worker EXCEPT ![w] = [IdleWorker EXCEPT !.op = "delete",
                  !.pc = "lookup", !.node = sessions[seid].node, !.seid = seid,
                  !.remoteSEID = sessions[seid].remoteSEID]]
  /\ UNCHANGED transportVars
  /\ UNCHANGED <<associations, setups, sessions, nextSEID, store, heartbeat,
                 raced>>

FindAssociation(w) ==
  /\ worker[w].pc = "lookup"
  /\ IF associations[worker[w].node] # <<>> THEN Goto(w, "send") ELSE Finish(w)
  /\ UNCHANGED transportVars
  /\ UNCHANGED <<associations, setups, sessions, nextSEID, store, heartbeat,
                 raced>>

SendDeletion(w) ==
  /\ worker[w].op = "delete" /\ worker[w].pc = "send"
  /\ SendRequest(w, worker[w].node,
                 SessionDeletionRequest(worker[w].remoteSEID))
  /\ Goto(w, "sending")
  /\ UNCHANGED <<associations, setups, sessions, nextSEID, store, heartbeat,
                 raced>>

DeletionDone(w) ==
  /\ worker[w].op = "delete" /\ worker[w].pc = "sending"
  /\ Resume(w)
  /\ IF Accepted(w) THEN Goto(w, "remove") ELSE Finish(w)
  /\ UNCHANGED <<associations, setups, sessions, nextSEID, store, heartbeat,
                 raced>>

RemoveSession(w) ==
  /\ worker[w].pc = "remove"
  /\ sessions' = Without(sessions, worker[w].seid)
  /\ Goto(w, "unstore")
  /\ UNCHANGED transportVars
  /\ UNCHANGED <<associations, setups, nextSEID, store, heartbeat, raced>>

-----------------------------------------------------------------------------
(***************************************************************************)
(* The MemoryStore is a Go map without a lock, written by goroutines that  *)
(* hold none.  Two writes that overlap are a data race: a write may be     *)
(* lost, or the runtime ends the process ("concurrent map writes"), which  *)
(* is CPRestart.  A goroutine is in the store while its pc is store or     *)
(* unstore.                                                                *)
(***************************************************************************)
InStore == {"store", "unstore"}
Races(w) == At(InStore) \ {w} # {}

StoreWrite(w, pc, written) ==
  /\ worker[w].pc = pc
  /\ \/ store' = written
     \/ Races(w) /\ UNCHANGED store
  /\ raced' = (raced \/ Races(w))
  /\ Finish(w)
  /\ UNCHANGED transportVars
  /\ UNCHANGED <<associations, setups, sessions, nextSEID, heartbeat>>

StoreSession(w) == StoreWrite(w, "store", store \cup {worker[w].seid})
StoreDeleteSession(w) == StoreWrite(w, "unstore", store \ {worker[w].seid})

-----------------------------------------------------------------------------
(***************************************************************************)
(* sendHeartbeats: the Association objects are collected under the lock    *)
(* and then served one by one, in the order of a Go map, although they may *)
(* have been replaced or released since.                                   *)
(***************************************************************************)
Associated == {u \in UP : associations[u] # <<>>}

HeartbeatTick ==
  /\ heartbeat.pc = "idle"
  /\ Associated # {}
  /\ CPHasRoom(Cardinality(Associated))
  /\ heartbeat' = [IdleHeartbeat EXCEPT !.pc = "next",
                     !.todo = {<<u, associations[u][1].id>> : u \in Associated}]
  /\ UNCHANGED transportVars
  /\ UNCHANGED <<associations, setups, sessions, nextSEID, store, worker,
                 raced>>

SendHeartbeat ==
  /\ heartbeat.pc = "next"
  /\ \E a \in heartbeat.todo :
       /\ SendRequest(HB, a[1], HeartbeatRequest)
       /\ heartbeat' = [pc |-> "sending", todo |-> heartbeat.todo \ {a},
                        node |-> a[1], assoc |-> a[2]]
  /\ UNCHANGED <<associations, setups, sessions, nextSEID, store, worker,
                 raced>>

\* LastHeartbeat is set on the object that was collected, which is the one
\* in the map only if no new association replaced it.
HeartbeatDone ==
  LET u == heartbeat.node IN
  /\ heartbeat.pc = "sending"
  /\ Resume(HB)
  /\ associations' =
       IF /\ call[HB].resp # <<>>
          /\ associations[u] # <<>>
          /\ associations[u][1].id = heartbeat.assoc
       THEN [associations EXCEPT ![u] =
               <<[id |-> associations[u][1].id, heard |-> TRUE]>>]
       ELSE associations
  /\ heartbeat' = IF heartbeat.todo = {} THEN IdleHeartbeat
                  ELSE [heartbeat EXCEPT !.pc = "next"]
  /\ UNCHANGED <<setups, sessions, nextSEID, store, worker, raced>>

-----------------------------------------------------------------------------
(***************************************************************************)
(* The handlers of pkg/cp/handlers.go.                                     *)
(***************************************************************************)

\* Mutants: the new Association is not kept; the removal of an old one takes
\* the new one with it.
HandleAssociationSetupRequestForgotten(m) ==
  /\ HandledAs(CP, m, "AssociationSetupRequest")
  /\ HandleAndAnswer(m, AssociationSetupResponse(CauseRequestAccepted))
  /\ setups' = setups + 1
  /\ UNCHANGED <<associations, sessions, nextSEID, store, worker, heartbeat,
                 raced>>

HandleAssociationSetupRequestRemoving(m) ==
  /\ HandledAs(CP, m, "AssociationSetupRequest")
  /\ HandleAndAnswer(m, AssociationSetupResponse(CauseRequestAccepted))
  /\ setups' = setups + 1
  /\ associations' = [associations EXCEPT ![m.src] = IF @ # <<>> THEN <<>>
                        ELSE <<[id |-> setups + 1, heard |-> FALSE]>>]
  /\ UNCHANGED <<sessions, nextSEID, store, worker, heartbeat, raced>>

\* A new Association replaces the old one; sessions stay as they are.
HandleAssociationSetupRequest(m) ==
  /\ HandledAs(CP, m, "AssociationSetupRequest")
  /\ HandleAndAnswer(m, AssociationSetupResponse(CauseRequestAccepted))
  /\ setups' = setups + 1
  /\ associations' = [associations EXCEPT ![m.src] =
                        <<[id |-> setups + 1, heard |-> FALSE]>>]
  /\ UNCHANGED <<sessions, nextSEID, store, worker, heartbeat, raced>>

HandleAssociationReleaseRequest(m) ==
  /\ HandledAs(CP, m, "AssociationReleaseRequest")
  /\ HandleAndAnswer(m, AssociationReleaseResponse(CauseRequestAccepted))
  /\ associations' = [associations EXCEPT ![m.src] = <<>>]
  /\ UNCHANGED <<setups, sessions, nextSEID, store, worker, heartbeat, raced>>

CPHandleHeartbeatRequest(m) ==
  /\ HandledAs(CP, m, "HeartbeatRequest")
  /\ HandleAndAnswer(m, HeartbeatResponse)
  /\ UNCHANGED cpVars

CPHandled ==
  {"AssociationSetupRequest", "AssociationReleaseRequest", "HeartbeatRequest"}

\* A message of a type no handler is registered for.
CPDrop(m) ==
  /\ m.dst = CP /\ m.body.type \notin CPHandled
  /\ HandleSilently(m)
  /\ UNCHANGED cpVars

-----------------------------------------------------------------------------
\* The process dies and is started again: nothing is kept.
CPRestart ==
  /\ Restart(CP)
  /\ associations' = [u \in UP |-> <<>>]
  /\ sessions' = EmptyMap
  /\ nextSEID' = 1
  /\ store' = {}
  /\ worker' = [w \in Worker |-> IdleWorker]
  /\ heartbeat' = IdleHeartbeat
  /\ raced' = FALSE
  /\ UNCHANGED setups

WorkerStep(w) ==
  \/ CallerStep(w) /\ UNCHANGED cpVars
  \/ AllocSEID(w) \/ SendEstablishment(w) \/ EstablishmentDone(w)
  \/ InsertSession(w) \/ StoreSession(w)
  \/ FindAssociation(w) \/ SendDeletion(w) \/ DeletionDone(w)
  \/ RemoveSession(w) \/ StoreDeleteSession(w)

HeartbeatStep ==
  \/ CallerStep(HB) /\ UNCHANGED cpVars
  \/ SendHeartbeat \/ HeartbeatDone

CPNext ==
  \/ \E w \in Worker :
       \/ WorkerStep(w)
       \/ \E u \in UP, r \in Rules : CreateSession(w, u, r)
       \/ \E s \in DOMAIN sessions : DeleteSession(w, s)
  \/ HeartbeatTick \/ HeartbeatStep
  \/ \E m \in DOMAIN net :
       \/ HandleAssociationSetupRequest(m) \/ HandleAssociationReleaseRequest(m)
       \/ CPHandleHeartbeatRequest(m) \/ CPDrop(m)
  \/ CPRestart
=============================================================================
