------------------------------ MODULE UserPlane ------------------------------
(***************************************************************************)
(* The user plane functions of pkg/up: Start with establishAssociation,    *)
(* the heartbeat loop, the handlers, and the dataplane as the mock of      *)
(* pkg/dataplane/mock keeps it.  Everything but the main goroutine runs on *)
(* the transport's receiving goroutine.                                    *)
(***************************************************************************)
EXTENDS PFCPMessages

VARIABLES
  upState,     \* upState[u]: how far Start is
  upSessions,  \* upSessions[u]: UPFunction.sessions
  dataplane,   \* dataplane[u]: SEID -> the rules installed for it
  released     \* history: the nodes that ever asked to be released

upVars == <<upState, upSessions, dataplane, released>>

UPInit ==
  /\ upState = [u \in UP |-> "starting"]
  /\ upSessions = [u \in UP |-> EmptyMap]
  /\ dataplane = [u \in UP |-> EmptyMap]
  /\ released = {}

HasRoom(u) == seqNum[u] <= MaxRequests[u]

-----------------------------------------------------------------------------
\* Start: establishAssociation sends its request.
EstablishAssociation(u) ==
  /\ upState[u] = "starting"
  /\ SendRequest(u, CP, AssociationSetupRequest)
  /\ upState' = [upState EXCEPT ![u] = "associating"]
  /\ UNCHANGED <<upSessions, dataplane, released>>

\* Mutant: Start does not return on an error.
AssociationDoneIfAccepted(u) ==
  /\ upState[u] = "associating"
  /\ Accepted(u)
  /\ Resume(u)
  /\ upState' = [upState EXCEPT ![u] = "up"]
  /\ UNCHANGED <<upSessions, dataplane, released>>

\* establishAssociation returns.  On any error Start returns too: the
\* process lives on and serves requests, but sends nothing any more.
AssociationDone(u) ==
  /\ upState[u] = "associating"
  /\ Resume(u)
  /\ upState' = [upState EXCEPT ![u] = IF Accepted(u) THEN "up" ELSE "failed"]
  /\ UNCHANGED <<upSessions, dataplane, released>>

\* heartbeatLoop: the ticker fires.
UPHeartbeat(u) ==
  /\ upState[u] = "up"
  /\ HasRoom(u)
  /\ SendRequest(u, CP, HeartbeatRequest)
  /\ UNCHANGED upVars

\* heartbeatLoop ignores what SendRequest returns.
UPHeartbeatDone(u) ==
  /\ upState[u] \in {"up", "released"}
  /\ Resume(u)
  /\ UNCHANGED upVars

\* A user plane that ends its association.  No code under src/ sends this
\* request; the control plane has a handler for it.
ReleaseAssociation(u) ==
  /\ upState[u] = "up"
  /\ HasRoom(u)
  /\ SendRequest(u, CP, AssociationReleaseRequest)
  /\ upState' = [upState EXCEPT ![u] = "released"]
  /\ released' = released \cup {u}
  /\ UNCHANGED <<upSessions, dataplane>>

-----------------------------------------------------------------------------
\* allocSEID: the lowest SEID from 1 on that no session has.
AllocUPSEID(held) ==
  CHOOSE s \in 1 .. Cardinality(held) + 1 :
    s \notin held /\ \A t \in 1 .. s - 1 : t \in held

\* What the mock dataplane keeps of the calls of the two handlers.
Installed(dp, seid, rules) == Assign(dp, seid, rules)
Uninstalled(dp, seid) == Without(dp, seid)

\* Whatever the dataplane says, the answer is accepted, with the SEID of the
\* request's header.  req is history: the request that made the session.
HandleSessionEstablishmentRequest(u, m) ==
  /\ HandledAs(u, m, "SessionEstablishmentRequest")
  /\ HandleAndAnswer(m, SessionEstablishmentResponse(m.body.seid,
                                                     CauseRequestAccepted))
  /\ LET seid == AllocUPSEID(DOMAIN upSessions[u])
         session == [remoteSEID |-> m.body.seid, rules |-> m.body.rules,
                     req |-> m.seq]
     IN /\ upSessions' = [upSessions EXCEPT ![u] = Assign(@, seid, session)]
        /\ dataplane' = [dataplane EXCEPT
                           ![u] = Installed(@, seid, m.body.rules)]
  /\ UNCHANGED <<upState, released>>

\* The session of the SEID in the header goes, if there is one.
HandleSessionDeletionRequest(u, m) ==
  /\ HandledAs(u, m, "SessionDeletionRequest")
  /\ HandleAndAnswer(m, SessionDeletionResponse(m.body.seid,
                                                CauseRequestAccepted))
  /\ upSessions' = [upSessions EXCEPT ![u] = Without(@, m.body.seid)]
  /\ dataplane' = [dataplane EXCEPT ![u] = Uninstalled(@, m.body.seid)]
  /\ UNCHANGED <<upState, released>>

\* Mutant: the request itself is sent back.
UPHandleHeartbeatRequestEcho(u, m) ==
  /\ HandledAs(u, m, "HeartbeatRequest")
  /\ HandleAndAnswer(m, m.body)
  /\ UNCHANGED upVars

UPHandleHeartbeatRequest(u, m) ==
  /\ HandledAs(u, m, "HeartbeatRequest")
  /\ HandleAndAnswer(m, HeartbeatResponse)
  /\ UNCHANGED upVars

UPHandler(u, m) ==
  \/ HandleSessionEstablishmentRequest(u, m)
  \/ HandleSessionDeletionRequest(u, m)
  \/ UPHandleHeartbeatRequest(u, m)

UPHandled ==
  {"SessionEstablishmentRequest", "SessionDeletionRequest", "HeartbeatRequest"}

\* A message of a type no handler is registered for.
UPDrop(u, m) ==
  /\ m.dst = u /\ m.body.type \notin UPHandled
  /\ HandleSilently(m)
  /\ UNCHANGED upVars

-----------------------------------------------------------------------------
\* The process dies and is started again; the mock dataplane dies with it.
UPRestart(u) ==
  /\ Restart(u)
  /\ upState' = [upState EXCEPT ![u] = "starting"]
  /\ upSessions' = [upSessions EXCEPT ![u] = EmptyMap]
  /\ dataplane' = [dataplane EXCEPT ![u] = EmptyMap]
  /\ UNCHANGED released

UPGoroutine(u) ==
  \/ CallerStep(u) /\ UNCHANGED upVars
  \/ EstablishAssociation(u) \/ AssociationDone(u) \/ UPHeartbeatDone(u)

UPNext(u) ==
  \/ UPGoroutine(u) \/ UPHeartbeat(u) \/ ReleaseAssociation(u)
  \/ \E m \in DOMAIN net : UPHandler(u, m) \/ UPDrop(u, m)
  \/ UPRestart(u)
=============================================================================
