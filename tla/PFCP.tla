-------------------------------- MODULE PFCP --------------------------------
(***************************************************************************)
(* The system: one control plane and the user planes, over the network of  *)
(* Transport.                                                              *)
(***************************************************************************)
EXTENDS ControlPlane, UserPlane

vars == <<transportVars, cpVars, upVars>>

Init == TransportInit /\ CPInit /\ UPInit

\* A message finds a pending request under its number, at either side.
Deliver(m) == DeliverToCaller(m) /\ UNCHANGED <<cpVars, upVars>>

\* A lost datagram is one that is never delivered: it stays in net.
Duplicated(m) == Duplicate(m) /\ UNCHANGED <<cpVars, upVars>>

Next ==
  \/ CPNext /\ UNCHANGED upVars
  \/ \E u \in UP : UPNext(u) /\ UNCHANGED cpVars
  \/ \E m \in DOMAIN net : Deliver(m) \/ Duplicated(m)

Spec == Init /\ [][Next]_vars

(***************************************************************************)
(* The goroutines run: the ones serving a gRPC call, the heartbeat loop    *)
(* and the main goroutine of a user plane.  Tickers, clients and the       *)
(* network owe nothing.                                                    *)
(***************************************************************************)
Fairness ==
  /\ \A w \in Worker : WF_vars(WorkerStep(w) /\ UNCHANGED upVars)
  /\ WF_vars(HeartbeatStep /\ UNCHANGED upVars)
  /\ \A u \in UP : WF_vars(UPGoroutine(u) /\ UNCHANGED cpVars)

FairSpec == Spec /\ Fairness

-----------------------------------------------------------------------------
\* Type correctness of the state of the control and the user planes.
TypeOK ==
  /\ TransportTypeOK
  /\ associations \in [UP -> Option([id: 1 .. setups, heard: BOOLEAN])]
  /\ nextSEID \in 1 .. MaxSEID + 1
  /\ DOMAIN sessions \subseteq 1 .. MaxSEID
  /\ store \subseteq 1 .. MaxSEID
  /\ \A s \in DOMAIN sessions :
       sessions[s] \in [node: UP, rules: Rules, remoteSEID: HeaderSEID,
                        req: SeqNums]
  /\ upState \in [UP -> {"starting", "associating", "up", "failed", "released"}]

(***************************************************************************)
(* handleMessage gives a caller any datagram with its number, a request of *)
(* the peer included.  Even so, a call of a process that never restarted   *)
(* that sees a Cause IE sees the answer its addressee gave to this very    *)
(* request: requests carry no Cause, and numbers are not reused.           *)
(***************************************************************************)
Replies(response, request) ==
  \/ /\ response.type = "AssociationSetupResponse"
     /\ request.type = "AssociationSetupRequest"
  \/ /\ response.type = "AssociationReleaseResponse"
     /\ request.type = "AssociationReleaseRequest"
  \/ /\ response.type = "SessionEstablishmentResponse"
     /\ request.type = "SessionEstablishmentRequest"
  \/ /\ response.type = "SessionDeletionResponse"
     /\ request.type = "SessionDeletionRequest"

Answers(m, c) == m.src = call[c].to /\ Replies(m.body, call[c].body)

CauseIsAnswer ==
  \A c \in Caller :
    restarts[Home[c]] = 0 /\ Accepted(c) => Answers(call[c].resp[1], c)

(***************************************************************************)
(* Every session the control plane lists is one the user plane holds, made *)
(* by the request of the CreateSession call and with its rules, as long as *)
(* neither of the two restarted.                                           *)
(***************************************************************************)
SessionBacked ==
  restarts[CP] = 0 =>
    \A s \in DOMAIN sessions : restarts[sessions[s].node] = 0 =>
      \E t \in DOMAIN upSessions[sessions[s].node] :
        LET us == upSessions[sessions[s].node][t] IN
        us.req = sessions[s].req /\ us.rules = sessions[s].rules

(***************************************************************************)
(* handleSessionEstablishmentRequest does not recognise a retransmission:  *)
(* one CreateSession may leave several sessions at the user plane, but no  *)
(* more than the copies of its request there can be.                       *)
(***************************************************************************)
CopiesOf(u, q) == {t \in DOMAIN upSessions[u] : upSessions[u][t].req = q}

CopiesSent == {MaxRetries[w] : w \in Worker} \cup {1}

SessionCopiesBounded ==
  restarts[CP] = 0 =>
    \A u \in UP, q \in SeqNums : \E n \in CopiesSent :
      Cardinality(CopiesOf(u, q)) <= n + duplicates

(***************************************************************************)
(* allocSEID and the insertion into sessions are critical sections far     *)
(* apart.  Still, no CreateSession overwrites a session: the SEID a call   *)
(* holds is its own until it inserts it.                                   *)
(***************************************************************************)
Holds(w) ==
  worker[w].op = "create" /\ worker[w].pc \in {"send", "sending", "insert"}

SEIDsUnique ==
  \A w \in Worker : Holds(w) =>
    /\ worker[w].seid \notin DOMAIN sessions
    /\ worker[w].seid < nextSEID
    /\ \A v \in Worker \ {w} : Holds(v) => worker[v].seid # worker[w].seid

(***************************************************************************)
(* The northbound store has the sessions of the control plane, but for the *)
(* ones a CreateSession is about to store and a DeleteSession is about to  *)
(* delete, unless two calls were in the unsynchronised map at once.        *)
(***************************************************************************)
AboutTo(pc) == {worker[w].seid : w \in At({pc})}

StoreFollowsSessions ==
  ~raced => /\ DOMAIN sessions \ store \subseteq AboutTo("store")
            /\ store \ DOMAIN sessions \subseteq AboutTo("unstore")

(***************************************************************************)
(* A user plane whose Start took its association for established is known  *)
(* to the control plane, also when it restarted and an answer to its       *)
(* previous life ended its SendRequest: unless it asked to be released, or *)
(* the control plane restarted and forgot it.                              *)
(***************************************************************************)
AssociationAgreed ==
  \A u \in UP \ released : restarts[CP] = 0 /\ upState[u] = "up" =>
    associations[u] # <<>>

\* Every CreateSession and DeleteSession returns to its client, whatever the
\* network and the user planes do, and whether or not they are released.
GRPCCallsReturn ==
  \A w \in Worker : worker[w].pc # "idle" ~> worker[w].pc = "idle"

\* Start of a user plane comes to a decision about its association.
StartDecides ==
  \A u \in UP : upState[u] \in {"starting", "associating"} ~>
                upState[u] \in {"up", "failed", "released"}

(***************************************************************************)
(* test/docker/test-session.go:81 reports "PFCP session deleted" once      *)
(* DeleteSession returned: the user plane that accepted the deletion holds *)
(* the session no longer.  The deletion names the SEID the establishment   *)
(* response has in its header, which is 0.                                 *)
(***************************************************************************)
DeletedAtUserPlane ==
  [][\A w \in Worker : RemoveSession(w) /\ worker[w].seid \in DOMAIN sessions =>
       CopiesOf(worker[w].node, sessions[worker[w].seid].req) = {}]_vars

(***************************************************************************)
(* README.md:197 says the control plane "sends heartbeats to monitor User  *)
(* Plane health": LastHeartbeat of a node is set for an answer of that     *)
(* node.  A request of another node with the same number is taken for it.  *)
(***************************************************************************)
HeartbeatFromNode ==
  [][HeartbeatDone /\ call[HB].resp # <<>> =>
       call[HB].resp[1].src = heartbeat.node]_vars
=============================================================================
