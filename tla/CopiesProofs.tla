---------------------------- MODULE CopiesProofs ----------------------------
(***************************************************************************)
(* The proof that a CreateSession leaves no more sessions at a user plane  *)
(* than copies of its request were sent.                                   *)
(***************************************************************************)
EXTENDS SessionProofs

\* Zenon tries a step first; a step with arithmetic or records names SMT.
USE ZenonT(20), SMTT(30)

(***************************************************************************)
(* The copies of an establishment request: the ones still in the network,  *)
(* which the bag counts, and the sessions that the others made.  For a     *)
(* call in SendRequest they are at most the ones it sent and the ones the  *)
(* network duplicated.                                                     *)
(***************************************************************************)
IsEstablishment(m, u, q) ==
  m.body.type = "SessionEstablishmentRequest" /\ m.dst = u /\ m.seq = q

Within(u, q, b) ==
  LET made == Cardinality(CopiesOf(u, q)) IN
  /\ made <= b
  /\ \A m \in DOMAIN net : IsEstablishment(m, u, q) => net[m] + made <= b

CountsOK(bag) == \A m \in DOMAIN bag : bag[m] \in Nat \ {0}

Count(m, bag) == IF m \in DOMAIN bag THEN bag[m] ELSE 0

\* Only CreateSession sends such a request.
SendersOK ==
  \A c \in Caller \ Worker : InFlight(c) =>
    call[c].body.type # "SessionEstablishmentRequest"

\* b copies of its request, number q, are accounted for by the call of w.
Spent(w, q, b) ==
  InFlight(w) /\ call[w].seq = q /\ b = call[w].sent + duplicates

Allowed(b) == \E n \in CopiesSent : b = n + duplicates

NumberedOK(u, q) ==
  /\ \E b \in Nat : Allowed(b) /\ Within(u, q, b)
  /\ \A w \in Worker, b \in Nat : Spent(w, q, b) => Within(u, q, b)

\* The inductive invariant.
CopiesInv ==
  /\ CountsOK(net)
  /\ SendersOK
  /\ FirstLife(CP) => \A u \in UP, q \in SeqNums : NumberedOK(u, q)

\* One datagram more, or the same when the network has no room.
LEMMA PutCounts ==
  ASSUME NEW bag, CountsOK(bag), NEW x
  PROVE  /\ CountsOK(Put(bag, x))
         /\ \A m \in DOMAIN Put(bag, x) :
              Put(bag, x)[m] <= Count(m, bag) + (IF m = x THEN 1 ELSE 0)
<1>1. CASE Put(bag, x) = bag
  BY <1>1, SMTT(30) DEF CountsOK, Count
<1>2. CASE Put(bag, x) # bag
  BY <1>2, SMTT(30) DEF Put, CountsOK, Count
<1> QED
  BY <1>1, <1>2

\* One datagram less.
LEMMA TakeCounts ==
  ASSUME NEW bag, CountsOK(bag), NEW x
  PROVE  /\ CountsOK(Take(bag, x))
         /\ \A m \in DOMAIN Take(bag, x) :
              /\ m \in DOMAIN bag
              /\ Take(bag, x)[m] + (IF m = x THEN 1 ELSE 0) <= bag[m]
BY SMTT(30) DEF CountsOK, Take

(***************************************************************************)
(* The steps of the system by what they do to the network.                 *)
(***************************************************************************)
NetStep ==
  \/ UNCHANGED transportVars
  \/ \E c \in Caller : CallerStep(c) \/ Resume(c)
  \/ \E c \in Caller : \E to, body :
       /\ SendRequest(c, to, body)
       /\ c \in Worker \/ body.type # "SessionEstablishmentRequest"
  \/ \E m \in DOMAIN net :
       DeliverToCaller(m) \/ Duplicate(m) \/ HandleSilently(m)
  \/ \E m \in DOMAIN net : \E b :
       HandleAndAnswer(m, b) /\ b.type # "SessionEstablishmentRequest"
  \/ \E e \in Endpoint : Restart(e)

\* Every step of the system is one of these.
LEMMA StepIsNetStep == SessionStep => NetStep
<1> SUFFICES ASSUME SessionStep PROVE NetStep
  OBVIOUS
<1>0. /\ \A s, c : SessionEstablishmentResponse(s, c).type
                     # "SessionEstablishmentRequest"
      /\ \A s, c : SessionDeletionResponse(s, c).type
                     # "SessionEstablishmentRequest"
  BY DEF SessionEstablishmentResponse, SessionDeletionResponse, Body
<1>1. CASE OtherMessages
  BY <1>1, OtherBodies DEF OtherMessages, NetStep
<1>2. ASSUME NEW w \in Worker, GRPCStep(w) PROVE NetStep
  <2>1. \/ SendEstablishment(w) \/ SendDeletion(w) \/ Resume(w)
        \/ UNCHANGED transportVars
    BY <1>2 DEF GRPCStep, CreateSession, DeleteSession, AllocSEID,
       EstablishmentDone, InsertSession, StoreSession, FindAssociation,
       DeletionDone, RemoveSession, StoreDeleteSession, StoreWrite
  <2>2. w \in Caller
    BY Homes
  <2> QED
    BY <2>1, <2>2 DEF NetStep, SendEstablishment, SendDeletion
<1>3. ASSUME NEW u \in UP, NEW m \in DOMAIN net,
             \/ HandleSessionEstablishmentRequest(u, m)
             \/ HandleSessionDeletionRequest(u, m)
      PROVE  NetStep
  BY <1>0, <1>3 DEF NetStep, HandleSessionEstablishmentRequest,
     HandleSessionDeletionRequest
<1>4. ASSUME CPRestart \/ \E u \in UP : UPRestart(u) PROVE NetStep
  BY <1>4, Homes DEF NetStep, CPRestart, UPRestart
<1> QED
  BY <1>1, <1>2, <1>3, <1>4 DEF SessionStep

\* A call keeps its number and the count of what it sent, or ends.
Steady(c) ==
  InFlight(c)' => /\ InFlight(c) /\ call'[c].seq = call[c].seq
                  /\ call'[c].body = call[c].body
                  /\ call'[c].sent = call[c].sent

\* A call puts one more copy of its request in.
Sends(c) ==
  /\ net' = Put(net, RequestOf(c))
  /\ InFlight(c) /\ call'[c].seq = call[c].seq /\ call'[c].body = call[c].body
  /\ call'[c].sent = call[c].sent + 1
  /\ \A d \in Caller \ {c} : Steady(d)

\* A step of one call that is steady leaves all of them so.
LEMMA SteadyCall ==
  ASSUME TransportTypeOK, NEW c \in Caller, NEW r, SetCall(c, r),
         r.st # "idle" => /\ InFlight(c) /\ r.seq = call[c].seq
                          /\ r.body = call[c].body /\ r.sent = call[c].sent
  PROVE  \A d \in Caller : Steady(d)
<1>1. call'[c] = r /\ \A d \in Caller \ {c} : call'[d] = call[d]
  BY SetCallEffect DEF TransportTypeOK
<1> QED
  BY <1>1 DEF Steady, InFlight

\* The steps of SendRequest after its entry, and its return.
LEMMA CallerSends ==
  ASSUME TransportInv, NEW c \in Caller, CallerStep(c) \/ Resume(c)
  PROVE  Sends(c) \/ (net' = net /\ \A d \in Caller : Steady(d))
<1>0. /\ TransportTypeOK /\ call[c] \in CallRecord
      /\ call[c].st = "registered" => call[c].sent = 0
  BY DEF TransportInv, TransportTypeOK, LocalsOK
<1>1. ASSUME NEW r, SetCall(c, r), net' = Put(net, RequestOf(c)), InFlight(c),
             r.seq = call[c].seq, r.body = call[c].body,
             r.sent = call[c].sent + 1
      PROVE  Sends(c)
  <2>1. call'[c] = r /\ \A d \in Caller \ {c} : call'[d] = call[d]
    BY <1>0, <1>1, SetCallEffect DEF TransportTypeOK
  <2>2. \A d \in Caller \ {c} : Steady(d)
    BY <2>1 DEF Steady, InFlight
  <2> QED
    BY <1>1, <2>1, <2>2 DEF Sends
<1>2. CASE Transmit(c)
  <2> DEFINE r == [call[c] EXCEPT !.st = "waiting", !.sent = 1]
  <2>1. r.seq = call[c].seq /\ r.body = call[c].body /\ r.sent = 1
    BY <1>0 DEF CallRecord
  <2>2. SetCall(c, r) /\ net' = Put(net, RequestOf(c)) /\ InFlight(c)
        /\ call[c].sent = 0
    BY <1>0, <1>2 DEF Transmit, InFlight
  <2> HIDE DEF r
  <2> QED
    BY <1>1, <2>1, <2>2, SMTT(30)
<1>3. CASE Retransmit(c)
  <2> DEFINE r == [call[c] EXCEPT !.attempts = @ + 1, !.sent = @ + 1]
  <2>1. /\ r.seq = call[c].seq /\ r.body = call[c].body
        /\ r.sent = call[c].sent + 1
    BY <1>0 DEF CallRecord
  <2>2. SetCall(c, r) /\ net' = Put(net, RequestOf(c)) /\ InFlight(c)
    BY <1>3 DEF Retransmit, InFlight
  <2> HIDE DEF r
  <2> QED
    BY <1>1, <2>1, <2>2
<1>4. CASE Register(c)
  <2> DEFINE r == [call[c] EXCEPT !.st = "registered"]
  <2>1. r.seq = call[c].seq /\ r.body = call[c].body /\ r.sent = call[c].sent
    BY <1>0 DEF CallRecord
  <2>2. SetCall(c, r) /\ net' = net /\ InFlight(c)
    BY <1>4 DEF Register, InFlight
  <2> HIDE DEF r
  <2> QED
    BY <1>0, <2>1, <2>2, SteadyCall
<1>5. CASE GiveUp(c)
  <2> DEFINE r == [call[c] EXCEPT !.st = "returning", !.attempts = @ + 1,
                                  !.err = "retries"]
  <2>1. r.seq = call[c].seq /\ r.body = call[c].body /\ r.sent = call[c].sent
    BY <1>0 DEF CallRecord
  <2>2. SetCall(c, r) /\ net' = net /\ InFlight(c)
    BY <1>5 DEF GiveUp, InFlight
  <2> HIDE DEF r
  <2> QED
    BY <1>0, <2>1, <2>2, SteadyCall
<1>6. CASE SendError(c)
  <2> DEFINE r == [call[c] EXCEPT !.st = "returning", !.err = "send",
                     !.attempts = IF call[c].st = "waiting" THEN @ + 1 ELSE @]
  <2>1. r.seq = call[c].seq /\ r.body = call[c].body /\ r.sent = call[c].sent
    BY <1>0 DEF CallRecord
  <2>2. SetCall(c, r) /\ net' = net /\ InFlight(c)
    BY <1>6 DEF SendError, InFlight
  <2> HIDE DEF r
  <2> QED
    BY <1>0, <2>1, <2>2, SteadyCall
<1>7. CASE TakeResponse(c)
  <2> DEFINE r == [call[c] EXCEPT !.st = "returning", !.resp = call[c].chan,
                                  !.chan = <<>>]
  <2>1. r.seq = call[c].seq /\ r.body = call[c].body /\ r.sent = call[c].sent
    BY <1>0 DEF CallRecord
  <2>2. SetCall(c, r) /\ net' = net /\ InFlight(c)
    BY <1>7 DEF TakeResponse, InFlight
  <2> HIDE DEF r
  <2> QED
    BY <1>0, <2>1, <2>2, SteadyCall
<1>8. CASE TransportClosed(c)
  <2> DEFINE r == [call[c] EXCEPT !.st = "returning", !.err = "closed"]
  <2>1. r.seq = call[c].seq /\ r.body = call[c].body /\ r.sent = call[c].sent
    BY <1>0 DEF CallRecord
  <2>2. SetCall(c, r) /\ net' = net /\ InFlight(c)
    BY <1>8 DEF TransportClosed, InFlight
  <2> HIDE DEF r
  <2> QED
    BY <1>0, <2>1, <2>2, SteadyCall
<1>9. CASE Unregister(c)
  <2> DEFINE r == [call[c] EXCEPT !.st = "returned", !.chan = <<>>]
  <2>1. r.seq = call[c].seq /\ r.body = call[c].body /\ r.sent = call[c].sent
    BY <1>0 DEF CallRecord
  <2>2. SetCall(c, r) /\ net' = net /\ InFlight(c)
    BY <1>9 DEF Unregister, InFlight
  <2> HIDE DEF r
  <2> QED
    BY <1>0, <2>1, <2>2, SteadyCall
<1>10. CASE Resume(c)
  <2>1. SetCall(c, IdleCall(c)) /\ net' = net /\ IdleCall(c).st = "idle"
    BY <1>10 DEF Resume, IdleCall
  <2> QED
    BY <1>0, <2>1, SteadyCall
<1> QED
  BY <1>2, <1>3, <1>4, <1>5, <1>6, <1>7, <1>8, <1>9, <1>10 DEF CallerStep

\* No copy of request q made a session at u.
NoneMade(u, q) ==
  Cardinality(CopiesOf(u, q)') <= Cardinality(CopiesOf(u, q))

\* How many copies made a session: a number, and a step that adds none to u
\* does not make it larger.
LEMMA CopiesCounted ==
  ASSUME KeysOK, KeysOK', NEW u \in UP, NEW q
  PROVE  /\ IsFiniteSet(CopiesOf(u, q))
         /\ Cardinality(CopiesOf(u, q)) \in Nat
         /\ Cardinality(CopiesOf(u, q)') \in Nat
         /\ Same(u) \/ Clears(u) => NoneMade(u, q)
<1>1. /\ CopiesOf(u, q) \subseteq DOMAIN upSessions[u]
      /\ CopiesOf(u, q)' \subseteq DOMAIN upSessions'[u]
  BY DEF CopiesOf
<1>2. IsFiniteSet(CopiesOf(u, q)) /\ IsFiniteSet(CopiesOf(u, q)')
  BY <1>1, FS_Subset DEF KeysOK
<1>3. /\ Cardinality(CopiesOf(u, q)) \in Nat
      /\ Cardinality(CopiesOf(u, q)') \in Nat
  BY <1>2, FS_CardinalityType
<1>4. ASSUME Same(u) \/ Clears(u) PROVE NoneMade(u, q)
  <2>1. CopiesOf(u, q)' \subseteq CopiesOf(u, q)
    BY <1>4 DEF CopiesOf, Same, Stays, Clears
  <2> QED
    BY <1>2, <2>1, FS_Subset DEF NoneMade
<1> QED
  BY <1>2, <1>3, <1>4

\* k copies more in the network.
LEMMA WithinStep ==
  ASSUME KeysOK, KeysOK', CountsOK(net), CountsOK(net)',
         NEW u \in UP, NEW q, NoneMade(u, q), NEW k \in Nat,
         \A m \in DOMAIN net' :
           IsEstablishment(m, u, q) => net'[m] <= Count(m, net) + k,
         NEW b \in Nat, Within(u, q, b)
  PROVE  Within(u, q, b + k)'
<1> DEFINE made == Cardinality(CopiesOf(u, q))
           after == Cardinality(CopiesOf(u, q)')
<1>1. made \in Nat /\ after \in Nat /\ after <= made
  BY CopiesCounted DEF NoneMade
<1>2. made <= b
  BY DEF Within
<1>3. ASSUME NEW m \in DOMAIN net', IsEstablishment(m, u, q)
      PROVE  net'[m] + after <= b + k
  <2>1. net'[m] \in Nat /\ net'[m] <= Count(m, net) + k
    BY <1>3 DEF CountsOK
  <2>2. Count(m, net) \in Nat /\ Count(m, net) + made <= b
    BY <1>1, <1>2, <1>3, SMTT(30) DEF Count, CountsOK, Within
  <2> HIDE DEF made, after
  <2> QED
    BY <1>1, <2>1, <2>2, SMTT(30)
<1>4. after <= b + k
  <2> HIDE DEF made, after
  <2> QED
    BY <1>1, <1>2, SMTT(30)
<1> QED
  BY <1>3, <1>4 DEF Within, IsEstablishment

\* A larger bound is a bound, after a step.
LEMMA WithinMore ==
  ASSUME KeysOK, KeysOK', CountsOK(net)', NEW u \in UP, NEW q, NEW b \in Nat,
         Within(u, q, b)', NEW d \in Nat, b <= d
  PROVE  Within(u, q, d)'
<1> DEFINE made == Cardinality(CopiesOf(u, q)')
<1>1. made \in Nat
  BY CopiesCounted
<1>2. made <= d
  BY <1>1, SMTT(30) DEF Within
<1>3. ASSUME NEW m \in DOMAIN net', IsEstablishment(m, u, q)
      PROVE  net'[m] + made <= d
  <2>1. net'[m] \in Nat /\ net'[m] + made <= b
    BY <1>3 DEF CountsOK, Within, IsEstablishment
  <2> HIDE DEF made
  <2> QED
    BY <1>1, <2>1, SMTT(30)
<1> QED
  BY <1>2, <1>3 DEF Within, IsEstablishment

\* The bounds are numbers.
LEMMA BoundsAreNumbers ==
  ASSUME TransportTypeOK
  PROVE  /\ CopiesSent \subseteq Nat /\ duplicates \in Nat
         /\ \A c \in Caller : call[c].sent \in Nat /\ call[c].seq \in SeqNums
<1>1. \A w \in Worker : MaxRetries[w] \in Nat
  BY Homes, TransportAssumption
<1>2. CopiesSent \subseteq Nat
  BY <1>1, SMTT(30) DEF CopiesSent
<1>3. duplicates \in Nat
  BY TransportAssumption, SMTT(30) DEF TransportTypeOK
<1> QED
  BY <1>2, <1>3, FieldsType DEF TransportTypeOK

\* A step that adds no copy of request q, and by which no call takes q.
LEMMA NumberedStays ==
  ASSUME NEW u \in UP, NEW q \in SeqNums, NumberedOK(u, q),
         \A b \in Nat : Within(u, q, b) => Within(u, q, b)',
         duplicates' = duplicates,
         \A w \in Worker : Steady(w) \/ ~(InFlight(w)' /\ call'[w].seq = q)
  PROVE  NumberedOK(u, q)'
<1>1. \E b \in Nat : Allowed(b)' /\ Within(u, q, b)'
  <2>1. PICK b \in Nat : Allowed(b) /\ Within(u, q, b)
    BY DEF NumberedOK
  <2>2. Allowed(b)'
    BY <2>1 DEF Allowed, CopiesSent
  <2> QED
    BY <2>1, <2>2
<1>2. ASSUME NEW w \in Worker, NEW b \in Nat, Spent(w, q, b)'
      PROVE  Within(u, q, b)'
  <2>1. InFlight(w)' /\ call'[w].seq = q /\ b = call'[w].sent + duplicates'
    BY <1>2 DEF Spent
  <2>2. Spent(w, q, b)
    BY <2>1 DEF Spent, Steady
  <2> QED
    BY <2>2 DEF NumberedOK
<1> QED
  BY <1>1, <1>2 DEF NumberedOK

\* A call sends a copy of its request.
LEMMA NumberedSends ==
  ASSUME TransportInv, TransportInv', KeysOK, KeysOK', CountsOK(net),
         CountsOK(net)', NEW w \in Worker, Sends(w), duplicates' = duplicates,
         NEW u \in UP, NoneMade(u, call[w].seq), NumberedOK(u, call[w].seq)
  PROVE  \A q : q = call[w].seq => NumberedOK(u, q)'
<1> SUFFICES ASSUME NEW q, q = call[w].seq PROVE NumberedOK(u, q)'
  OBVIOUS
<1> PICK b : b = call[w].sent + duplicates
  OBVIOUS
<1>0. /\ w \in Caller /\ \A v \in Worker : v \in Caller /\ Home[v] = Home[w]
      /\ call[w].sent \in Nat /\ duplicates \in Nat /\ b \in Nat
      /\ q \in SeqNums
  BY Homes, BoundsAreNumbers, SMTT(30) DEF TransportInv
<1>1. Within(u, q, b)
  BY <1>0 DEF Sends, NumberedOK, Spent
<1>2. \A m \in DOMAIN net' : net'[m] <= Count(m, net) + 1
  <2>1. ASSUME NEW m \in DOMAIN net' PROVE net'[m] <= Count(m, net) + 1
    <3>1. /\ net'[m] \in Nat /\ Count(m, net) \in Nat
          /\ net'[m] <= Count(m, net) + (IF m = RequestOf(w) THEN 1 ELSE 0)
      BY PutCounts DEF Sends, CountsOK, Count
    <3> QED
      BY <3>1, SMTT(30)
  <2> QED
    BY <2>1
<1>3. b + 1 \in Nat /\ Within(u, q, b + 1)'
  <2>1. b \in Nat /\ b + 1 \in Nat /\ 1 \in Nat
    BY <1>0, SMTT(30)
  <2>2. \A m \in DOMAIN net' :
          IsEstablishment(m, u, q) => net'[m] <= Count(m, net) + 1
    BY <1>2
  <2>3. Within(u, q, b + 1)'
    BY <1>1, <2>1, <2>2, WithinStep
  <2> QED
    BY <2>1, <2>3
<1>4. call'[w].sent + duplicates' = b + 1
  BY <1>0, SMTT(30) DEF Sends
<1>5. ASSUME NEW v \in Worker, NEW d \in Nat, Spent(v, q, d)'
      PROVE  Within(u, q, d)'
  <2>1. InFlight(v)' /\ call'[v].seq = q /\ d = call'[v].sent + duplicates'
    BY <1>5 DEF Spent
  <2>2. CASE v = w
    BY <1>3, <1>4, <2>1, <2>2
  <2>3. CASE v # w
    <3>1. InFlight(v) /\ call[v].seq = call[w].seq /\ InFlight(w)
      BY <1>0, <2>1, <2>3 DEF Sends, Steady
    <3> QED
      BY <1>0, <2>3, <3>1, NumbersDistinct DEF TransportInv
  <2> QED
    BY <2>2, <2>3
<1>6. \E d \in Nat : Allowed(d)' /\ Within(u, q, d)'
  <2> DEFINE n == IF MaxRetries[w] = 0 THEN 1 ELSE MaxRetries[w]
  <2>1. n \in CopiesSent /\ n \in Nat
    BY <1>0, BoundsAreNumbers DEF CopiesSent, TransportInv
  <2>2. call'[w].sent <= n
    BY <1>0 DEF TransportInv, LocalsOK
  <2> HIDE DEF n
  <2>3. PICK d \in Nat : d = n + duplicates'
    BY <1>0, <2>1, SMTT(30)
  <2>4. b + 1 <= d
    <3>1. call'[w].sent \in Nat /\ call'[w].sent = call[w].sent + 1
      BY <1>0, SMTT(30) DEF Sends
    <3> QED
      BY <1>0, <1>4, <2>1, <2>2, <2>3, <3>1, SMTT(30)
  <2>5. Within(u, q, d)'
    BY <1>3, <2>4, WithinMore
  <2>6. Allowed(d)'
    BY <2>1, <2>3 DEF Allowed, CopiesSent
  <2> QED
    BY <2>5, <2>6
<1> QED
  BY <1>5, <1>6 DEF NumberedOK

\* A step that leaves no more copies of request q in the network.
LEMMA NumberedQuiet ==
  ASSUME KeysOK, KeysOK', CountsOK(net), CountsOK(net)',
         NEW u \in UP, NEW q \in SeqNums, NoneMade(u, q), NumberedOK(u, q),
         \A m \in DOMAIN net' :
           IsEstablishment(m, u, q) => net'[m] <= Count(m, net),
         duplicates' = duplicates,
         \A w \in Worker : Steady(w) \/ ~(InFlight(w)' /\ call'[w].seq = q)
  PROVE  NumberedOK(u, q)'
<1>1. ASSUME NEW m \in DOMAIN net', IsEstablishment(m, u, q)
      PROVE  net'[m] <= Count(m, net) + 0
  <2>1. Count(m, net) \in Nat
    BY DEF Count, CountsOK
  <2> QED
    BY <1>1, <2>1, SMTT(30)
<1>2. ASSUME NEW b \in Nat, Within(u, q, b) PROVE Within(u, q, b)'
  <2>1. b + 0 = b /\ 0 \in Nat
    BY SMTT(30)
  <2>2. Within(u, q, b + 0)'
    BY <1>1, <1>2, <2>1, WithinStep
  <2> QED
    BY <2>1, <2>2
<1> QED
  BY <1>2, NumberedStays

\* A number that no call had before.
LEMMA NumberedFresh ==
  ASSUME PFCPInv, TransportInv, MessagesOK, AnswerInv, RecordsOK, FirstLife(CP),
         NEW u \in UP, NEW q, q = seqNum[CP], Same(u) \/ Clears(u),
         net' = net, duplicates' = duplicates
  PROVE  NumberedOK(u, q)'
<1>1. CopiesOf(u, q)' = {}
  <2>1. \A t \in DOMAIN upSessions[u] : upSessions[u][t].req # q
    BY SMTT(30) DEF RecordsOK, RecordOK, Asked
  <2> QED
    BY <2>1 DEF CopiesOf, Same, Stays, Clears
<1>2. Cardinality(CopiesOf(u, q)') = 0
  BY <1>1, FS_EmptySet
<1>3. \A m \in DOMAIN net' : ~IsEstablishment(m, u, q)
  BY EstablishmentAsked, SMTT(30) DEF IsEstablishment, Asked
<1>4. \A b \in Nat : Within(u, q, b)'
  BY <1>2, <1>3, SMTT(30) DEF Within, IsEstablishment
<1>5. PICK b \in Nat : b = 1 + duplicates
  BY BoundsAreNumbers, SMTT(30) DEF TransportInv
<1>6. Allowed(b)'
  BY <1>5 DEF Allowed, CopiesSent
<1> QED
  BY <1>4, <1>6 DEF NumberedOK

\* The network duplicates a message: there is one more to account for.
LEMMA NumberedDuplicate ==
  ASSUME TransportInv, KeysOK, KeysOK', CountsOK(net), CountsOK(net)',
         NEW x, net' = Put(net, x), duplicates' = duplicates + 1, call' = call,
         NEW u \in UP, NEW q \in SeqNums, NoneMade(u, q), NumberedOK(u, q)
  PROVE  NumberedOK(u, q)'
<1>0. /\ duplicates \in Nat /\ CopiesSent \subseteq Nat
      /\ \A w \in Worker : call[w].sent \in Nat
  BY Homes, BoundsAreNumbers DEF TransportInv
<1>1. ASSUME NEW m \in DOMAIN net' PROVE net'[m] <= Count(m, net) + 1
  <2>1. /\ net'[m] \in Nat /\ Count(m, net) \in Nat
        /\ net'[m] <= Count(m, net) + (IF m = x THEN 1 ELSE 0)
    BY PutCounts DEF CountsOK, Count
  <2> QED
    BY <2>1, SMTT(30)
<1>2. ASSUME NEW b \in Nat, Within(u, q, b) PROVE Within(u, q, b + 1)'
  <2>1. 1 \in Nat
    OBVIOUS
  <2> QED
    BY <1>1, <1>2, <2>1, WithinStep
<1>3. \E d \in Nat : Allowed(d)' /\ Within(u, q, d)'
  <2>1. PICK b \in Nat : Allowed(b) /\ Within(u, q, b)
    BY DEF NumberedOK
  <2>2. PICK n \in CopiesSent : b = n + duplicates
    BY <2>1 DEF Allowed
  <2>3. b + 1 \in Nat /\ b + 1 = n + duplicates'
    BY <1>0, <2>2, SMTT(30)
  <2>4. Allowed(b + 1)'
    BY <2>2, <2>3 DEF Allowed, CopiesSent
  <2> QED
    BY <1>2, <2>1, <2>3, <2>4
<1>4. ASSUME NEW w \in Worker, NEW d \in Nat, Spent(w, q, d)'
      PROVE  Within(u, q, d)'
  <2>1. PICK b \in Nat : b = call[w].sent + duplicates
    BY <1>0, SMTT(30)
  <2>2. Spent(w, q, b) /\ d = b + 1
    BY <1>0, <1>4, <2>1, SMTT(30) DEF Spent, InFlight
  <2>3. Within(u, q, b)
    BY <2>2 DEF NumberedOK
  <2> QED
    BY <1>2, <2>2, <2>3
<1> QED
  BY <1>3, <1>4 DEF NumberedOK

\* The network holds whole datagrams.
LEMMA CountsOKStep ==
  ASSUME TransportInv, CountsOK(net), NetStep
  PROVE  CountsOK(net)'
<1>1. \/ net' = net \/ \E x : net' = Put(net, x) \/ net' = Take(net, x)
      \/ \E m, x : net' = Put(Take(net, m), x)
  <2>1. ASSUME NEW c \in Caller, CallerStep(c) \/ Resume(c)
        PROVE  net' = net \/ \E x : net' = Put(net, x)
    BY <2>1, CallerSends DEF Sends
  <2>2. ASSUME NEW m \in DOMAIN net,
               DeliverToCaller(m) \/ Duplicate(m) \/ HandleSilently(m)
        PROVE  \E x : net' = Put(net, x) \/ net' = Take(net, x)
    BY <2>2 DEF DeliverToCaller, Duplicate, HandleSilently
  <2>3. ASSUME NEW m \in DOMAIN net, NEW b, HandleAndAnswer(m, b)
        PROVE  \E x : net' = Put(Take(net, m), x)
    BY <2>3 DEF HandleAndAnswer
  <2>4. ASSUME \/ UNCHANGED transportVars \/ \E e \in Endpoint : Restart(e)
               \/ \E c \in Caller : \E to, body : SendRequest(c, to, body)
        PROVE  net' = net
    BY <2>4 DEF transportVars, Restart, SendRequest
  <2> QED
    BY <2>1, <2>2, <2>3, <2>4 DEF NetStep
<1>2. \A x : CountsOK(Put(net, x)) /\ CountsOK(Take(net, x))
  BY PutCounts, TakeCounts
<1>3. \A m, x : CountsOK(Put(Take(net, m), x))
  BY <1>2, PutCounts
<1>4. \A bag : net' = bag /\ CountsOK(bag) => CountsOK(net)'
  BY DEF CountsOK
<1> QED
  BY <1>1, <1>2, <1>3, <1>4

\* The steps by which no call starts and none sends.
LEMMA SteadySteps ==
  ASSUME TransportInv,
         \/ UNCHANGED call
         \/ \E m \in DOMAIN net : DeliverToCaller(m)
         \/ \E e \in Endpoint : Restart(e)
  PROVE  \A d \in Caller : Steady(d)
<1>0. TransportTypeOK
  BY DEF TransportInv
<1>1. CASE UNCHANGED call
  BY <1>1 DEF Steady, InFlight
<1>2. ASSUME NEW m \in DOMAIN net, DeliverToCaller(m)
      PROVE  \A d \in Caller : Steady(d)
  <2> DEFINE c == Claimant(m)
             r == [call[c] EXCEPT !.chan = IF @ = <<>> THEN <<m>> ELSE @]
  <2>0. m.dst \in Endpoint /\ m.seq \in SeqNums
    BY <1>0 DEF TransportTypeOK, Message
  <2>1. c \in Caller /\ call[c] \in CallRecord
    <3>1. c \in Caller \cup {NoCaller}
      BY <1>0, <2>0, SMTT(30) DEF Claimant, TransportTypeOK
    <3>2. c # NoCaller
      BY <1>2 DEF DeliverToCaller
    <3> QED
      BY <1>0, <3>1, <3>2 DEF TransportTypeOK
  <2>2. /\ r.st = call[c].st /\ r.seq = call[c].seq /\ r.body = call[c].body
        /\ r.sent = call[c].sent
    BY <2>1 DEF CallRecord
  <2>3. SetCall(c, r)
    BY <1>2 DEF DeliverToCaller
  <2> HIDE DEF c, r
  <2> QED
    BY <1>0, <2>1, <2>2, <2>3, SteadyCall DEF InFlight
<1>3. ASSUME NEW e \in Endpoint, Restart(e), NEW d \in Caller PROVE Steady(d)
  <2>1. call'[d] = call[d] \/ call'[d].st = "idle"
    BY <1>3 DEF Restart, IdleCall
  <2> QED
    BY <2>1 DEF Steady, InFlight
<1> QED
  BY <1>1, <1>2, <1>3

\* The entry of SendRequest.
LEMMA SendStarts ==
  ASSUME TransportInv, NEW c \in Caller, NEW to, NEW body,
         SendRequest(c, to, body)
  PROVE  /\ \A d \in Caller \ {c} : Steady(d)
         /\ call'[c].seq = seqNum[Home[c]] /\ call'[c].body = body
         /\ net' = net /\ duplicates' = duplicates
<1> DEFINE r == [IdleCall(c) EXCEPT !.st = "numbered", !.to = to,
                                    !.body = body, !.seq = seqNum[Home[c]]]
<1>1. SetCall(c, r) /\ net' = net /\ duplicates' = duplicates
  BY DEF SendRequest
<1>2. r.seq = seqNum[Home[c]] /\ r.body = body
  BY DEF IdleCall
<1> HIDE DEF r
<1>3. call'[c] = r /\ \A d \in Caller \ {c} : call'[d] = call[d]
  BY <1>1, SetCallEffect DEF TransportInv, TransportTypeOK
<1> QED
  BY <1>1, <1>2, <1>3 DEF Steady, InFlight

\* Only CreateSession sends an establishment request.
LEMMA SendersOKStep ==
  ASSUME TransportInv, SendersOK, NetStep
  PROVE  SendersOK'
<1> SUFFICES ASSUME NEW c \in Caller \ Worker, InFlight(c)'
             PROVE  call'[c].body.type # "SessionEstablishmentRequest"
  BY DEF SendersOK
<1>1. CASE Steady(c)
  BY <1>1 DEF Steady, SendersOK
<1>2. ASSUME NEW d \in Caller, CallerStep(d) \/ Resume(d)
      PROVE  call'[c].body.type # "SessionEstablishmentRequest"
  <2>1. Sends(d) \/ Steady(c)
    BY <1>2, CallerSends
  <2>2. CASE Sends(d) /\ d = c
    BY <2>2 DEF Sends, SendersOK
  <2>3. CASE Sends(d) /\ d # c
    BY <1>1, <2>3 DEF Sends
  <2> QED
    BY <1>1, <2>1, <2>2, <2>3
<1>3. ASSUME NEW d \in Caller, NEW to, NEW body, SendRequest(d, to, body),
             d \in Worker \/ body.type # "SessionEstablishmentRequest"
      PROVE  call'[c].body.type # "SessionEstablishmentRequest"
  BY <1>1, <1>3, SendStarts
<1>4. ASSUME \/ UNCHANGED transportVars \/ \E e \in Endpoint : Restart(e)
             \/ \E m \in DOMAIN net :
                  DeliverToCaller(m) \/ Duplicate(m) \/ HandleSilently(m)
             \/ \E m \in DOMAIN net : \E b : HandleAndAnswer(m, b)
      PROVE  Steady(c)
  BY <1>4, SteadySteps DEF transportVars, Duplicate, HandleSilently,
     HandleAndAnswer
<1> QED
  BY <1>1, <1>2, <1>3, <1>4 DEF NetStep

\* A step of another goroutine, or of the network, than the handler of an
\* establishment.
LEMMA NumberedStep ==
  ASSUME PFCPInv, TransportInv, TransportInv', MessagesOK, AnswerInv, RecordsOK,
         KeysOK, KeysOK', CopiesInv, CountsOK(net)', NetStep, FirstLife(CP),
         NEW u \in UP, NEW q \in SeqNums, Same(u) \/ Clears(u)
  PROVE  NumberedOK(u, q)'
<1>0. /\ CountsOK(net) /\ SendersOK /\ NumberedOK(u, q) /\ NoneMade(u, q)
      /\ \A w \in Worker : w \in Caller /\ Home[w] = CP
  BY Homes, CopiesCounted DEF CopiesInv
<1>1. ASSUME net' = net, duplicates' = duplicates,
             \A w \in Worker : Steady(w) \/ ~(InFlight(w)' /\ call'[w].seq = q)
      PROVE  NumberedOK(u, q)'
  <2>1. \A m \in DOMAIN net' : net'[m] <= Count(m, net)
    BY <1>0, <1>1, SMTT(30) DEF CountsOK, Count
  <2> QED
    BY <1>0, <1>1, <2>1, NumberedQuiet
<1>2. ASSUME NEW bag, CountsOK(bag), \A m \in DOMAIN bag : bag[m] <= Count(m, net),
             NEW x, net' = bag \/ net' = Put(bag, x),
             ~IsEstablishment(x, u, q), duplicates' = duplicates,
             \A w \in Worker : Steady(w) \/ ~(InFlight(w)' /\ call'[w].seq = q)
      PROVE  NumberedOK(u, q)'
  <2>1. ASSUME NEW m \in DOMAIN net', IsEstablishment(m, u, q)
        PROVE  net'[m] <= Count(m, net)
    <3>1. CASE net' = bag
      BY <1>2, <3>1
    <3>2. CASE net' = Put(bag, x)
      <4>1. m # x
        BY <1>2, <2>1
      <4>2. net'[m] \in Nat \ {0} /\ net'[m] <= Count(m, bag) + 0
        BY <1>2, <3>2, <4>1, PutCounts DEF CountsOK
      <4>3. m \in DOMAIN bag /\ Count(m, bag) \in Nat /\ Count(m, bag) = bag[m]
        BY <1>2, <4>2, SMTT(30) DEF Count, CountsOK
      <4>4. Count(m, net) \in Nat
        BY <1>0 DEF Count, CountsOK
      <4> QED
        BY <1>2, <4>2, <4>3, <4>4, SMTT(30)
    <3> QED
      BY <1>2, <3>1, <3>2
  <2> QED
    BY <1>0, <1>2, <2>1, NumberedQuiet
<1>3. CountsOK(net) /\ \A m \in DOMAIN net : net[m] <= Count(m, net)
  BY <1>0, SMTT(30) DEF CountsOK, Count
<1>4. ASSUME NEW m \in DOMAIN net
      PROVE  /\ CountsOK(Take(net, m))
             /\ \A n \in DOMAIN Take(net, m) : Take(net, m)[n] <= Count(n, net)
  <2>1. ASSUME NEW n \in DOMAIN Take(net, m)
        PROVE  Take(net, m)[n] <= Count(n, net)
    <3>1. /\ n \in DOMAIN net /\ Take(net, m)[n] \in Nat /\ net[n] \in Nat
          /\ Take(net, m)[n] + (IF n = m THEN 1 ELSE 0) <= net[n]
      BY <1>0, TakeCounts DEF CountsOK
    <3> QED
      BY <3>1, SMTT(30) DEF Count
  <2> QED
    BY <1>0, <2>1, TakeCounts
<1>5. ASSUME NEW c \in Caller, CallerStep(c) \/ Resume(c)
      PROVE  NumberedOK(u, q)'
  <2>1. duplicates' = duplicates
    BY <1>5 DEF CallerStep, Register, Transmit, Retransmit, GiveUp, SendError,
       TakeResponse, TransportClosed, Unregister, Resume
  <2>2. CASE net' = net /\ \A d \in Caller : Steady(d)
    BY <1>0, <1>1, <2>1, <2>2
  <2>3. CASE Sends(c) /\ c \in Worker /\ q = call[c].seq
    BY <1>0, <2>1, <2>3, NumberedSends
  <2>4. CASE Sends(c) /\ ~(c \in Worker /\ q = call[c].seq)
    <3>1. RequestOf(c).seq = call[c].seq /\ RequestOf(c).body = call[c].body
      BY DEF RequestOf
    <3>2. ~IsEstablishment(RequestOf(c), u, q)
      BY <1>0, <2>4, <3>1 DEF Sends, SendersOK, IsEstablishment
    <3>3. \A w \in Worker : Steady(w) \/ ~(InFlight(w)' /\ call'[w].seq = q)
      BY <1>0, <2>4 DEF Sends
    <3>4. net' = Put(net, RequestOf(c))
      BY <2>4 DEF Sends
    <3> QED
      BY <1>2, <1>3, <2>1, <3>2, <3>3, <3>4
  <2> QED
    BY <1>5, <2>2, <2>3, <2>4, CallerSends
<1>6. ASSUME NEW c \in Caller, NEW to, NEW body, SendRequest(c, to, body)
      PROVE  NumberedOK(u, q)'
  <2>1. /\ \A d \in Caller \ {c} : Steady(d)
        /\ call'[c].seq = seqNum[Home[c]]
        /\ net' = net /\ duplicates' = duplicates
    BY <1>6, SendStarts
  <2>2. CASE c \in Worker /\ q = seqNum[CP]
    BY <2>1, <2>2, NumberedFresh
  <2>3. CASE ~(c \in Worker /\ q = seqNum[CP])
    BY <1>0, <1>1, <2>1, <2>3
  <2> QED
    BY <2>2, <2>3
<1>7. ASSUME NEW m \in DOMAIN net, DeliverToCaller(m) \/ HandleSilently(m)
      PROVE  NumberedOK(u, q)'
  <2>1. /\ net' = Take(net, m) /\ duplicates' = duplicates
        /\ \A d \in Caller : Steady(d)
    BY <1>7, SteadySteps DEF DeliverToCaller, HandleSilently
  <2>2. PICK x : ~IsEstablishment(x, u, q)
    <3>1. [body |-> HeartbeatRequest].body.type # "SessionEstablishmentRequest"
      BY DEF HeartbeatRequest, Body
    <3> QED
      BY <3>1 DEF IsEstablishment
  <2> QED
    BY <1>0, <1>2, <1>4, <2>1, <2>2
<1>8. ASSUME NEW m \in DOMAIN net, Duplicate(m) PROVE NumberedOK(u, q)'
  BY <1>0, <1>8, NumberedDuplicate DEF Duplicate
<1>9. ASSUME NEW m \in DOMAIN net, NEW b, HandleAndAnswer(m, b),
             b.type # "SessionEstablishmentRequest"
      PROVE  NumberedOK(u, q)'
  <2> DEFINE x == [src |-> m.dst, dst |-> m.src, seq |-> m.seq, body |-> b]
  <2>1. /\ net' = Put(Take(net, m), x) /\ duplicates' = duplicates
        /\ \A d \in Caller : Steady(d)
    BY <1>9, SteadySteps DEF HandleAndAnswer
  <2>2. ~IsEstablishment(x, u, q)
    BY <1>9 DEF IsEstablishment
  <2> HIDE DEF x
  <2> QED
    BY <1>0, <1>2, <1>4, <2>1, <2>2
<1>10. ASSUME UNCHANGED transportVars \/ \E e \in Endpoint : Restart(e)
       PROVE  NumberedOK(u, q)'
  <2>1. /\ net' = net /\ duplicates' = duplicates
        /\ \A d \in Caller : Steady(d)
    BY <1>10, SteadySteps DEF transportVars, Restart
  <2> QED
    BY <1>0, <1>1, <2>1
<1> QED
  BY <1>5, <1>6, <1>7, <1>8, <1>9, <1>10 DEF NetStep

\* The handler of an establishment: a copy leaves the network and makes one
\* session.
LEMMA NumberedMade ==
  ASSUME PFCPInv, TransportInv, MessagesOK, AnswerInv, KeysOK, KeysOK',
         CopiesInv, CountsOK(net)', FirstLife(CP), NEW u \in UP,
         NEW m \in DOMAIN net, NEW t, Adds(u, m, t), NEW q \in SeqNums
  PROVE  NumberedOK(u, q)'
<1> DEFINE b == SessionEstablishmentResponse(m.body.seid, CauseRequestAccepted)
           x == [src |-> m.dst, dst |-> m.src, seq |-> m.seq, body |-> b]
           left == Take(net, m)
<1>0. CountsOK(net) /\ NumberedOK(u, q)
  BY DEF CopiesInv
<1>1. HandleAndAnswer(m, b) /\ m.body.type = "SessionEstablishmentRequest"
  BY DEF Adds, HandleSessionEstablishmentRequest, HandledAs
<1>2. /\ net' = Put(left, x) /\ duplicates' = duplicates
      /\ \A d \in Worker : Steady(d)
  BY <1>1, Homes, SteadySteps DEF HandleAndAnswer
<1>3. ~IsEstablishment(x, u, q)
  BY DEF IsEstablishment, SessionEstablishmentResponse, Body
<1> HIDE DEF b, x
<1>4. CountsOK(left) /\ \A n \in DOMAIN left :
        n \in DOMAIN net /\ left[n] + (IF n = m THEN 1 ELSE 0) <= net[n]
  BY <1>0, TakeCounts
<1> HIDE DEF left
<1>5. ASSUME NEW n \in DOMAIN net', IsEstablishment(n, u, q)
      PROVE  /\ n \in DOMAIN net /\ net'[n] \in Nat /\ net[n] \in Nat
             /\ net'[n] + (IF n = m THEN 1 ELSE 0) <= net[n]
  <2>1. n # x
    BY <1>3, <1>5
  <2>2. net'[n] \in Nat \ {0} /\ net'[n] <= Count(n, left) + 0
    BY <1>2, <1>4, <2>1, PutCounts DEF CountsOK
  <2>3. n \in DOMAIN left /\ Count(n, left) = left[n] /\ left[n] \in Nat
    BY <1>4, <2>2, SMTT(30) DEF Count, CountsOK
  <2>4. n \in DOMAIN net /\ net[n] \in Nat
    BY <1>0, <1>4, <2>3 DEF CountsOK
  <2> QED
    BY <1>4, <2>2, <2>3, <2>4, SMTT(30)
<1> DEFINE made == CopiesOf(u, q)
           after == CopiesOf(u, q)'
<1>6. /\ IsFiniteSet(made) /\ Cardinality(made) \in Nat
  BY CopiesCounted
<1>7. CASE q # m.seq
  <2>1. after \subseteq made
    BY <1>7 DEF Adds, Stays, CopiesOf
  <2>2. NoneMade(u, q)
    BY <1>6, <2>1, FS_Subset DEF NoneMade
  <2>3. \A n \in DOMAIN net' : IsEstablishment(n, u, q) => net'[n] <= Count(n, net)
    BY <1>5, SMTT(30) DEF Count
  <2> QED
    BY <1>0, <1>2, <2>2, <2>3, NumberedQuiet
<1>8. CASE q = m.seq
  <2>1. after = made \cup {t} /\ t \notin made
    BY <1>8 DEF Adds, Stays, CopiesOf
  <2>2. Cardinality(after) = Cardinality(made) + 1
    BY <1>6, <2>1, FS_AddElement
  <2>3. IsEstablishment(m, u, q)
    BY <1>1, <1>8 DEF Adds, HandleSessionEstablishmentRequest, HandledAs,
       IsEstablishment
  <2>4. ASSUME NEW n \in DOMAIN net', IsEstablishment(n, u, q) PROVE n = m
    <3>1. n \in DOMAIN net
      BY <1>5, <2>4
    <3>2. /\ n.src = CP /\ n.body \in Request
          /\ m.src = CP /\ m.body \in Request /\ n.seq = m.seq
      BY <2>3, <2>4, <3>1, EstablishmentAsked DEF IsEstablishment
    <3> QED
      BY <3>1, <3>2 DEF AnswerInv, SameRequest
  <2>5. ASSUME NEW d \in Nat, Within(u, q, d) PROVE Within(u, q, d)'
    <3>1. net[m] \in Nat \ {0} /\ net[m] + Cardinality(made) <= d
      BY <1>0, <2>3, <2>5 DEF Within, CountsOK
    <3>2. Cardinality(after) <= d
      BY <1>6, <2>2, <3>1, SMTT(30)
    <3>3. ASSUME NEW n \in DOMAIN net', IsEstablishment(n, u, q)
          PROVE  net'[n] + Cardinality(after) <= d
      <4>1. n = m /\ net'[n] \in Nat /\ net'[n] + 1 <= net[m]
        BY <1>5, <2>4, <3>3
      <4> QED
        BY <1>6, <2>2, <3>1, <4>1, SMTT(30)
    <3> QED
      BY <3>2, <3>3 DEF Within, IsEstablishment
  <2> QED
    BY <1>0, <1>2, <2>5, NumberedStays
<1> QED
  BY <1>7, <1>8

\* CopiesInv is inductive, given the other invariants.
LEMMA CopiesInvStep ==
  /\ TransportInv /\ TransportInv' /\ PFCPInv /\ AssociationInv /\ RoomInv
  /\ AnswerInv /\ SessionInv /\ SessionInv' /\ CopiesInv /\ [Next]_vars
  => CopiesInv'
<1> SUFFICES ASSUME TransportInv, TransportInv', PFCPInv, AssociationInv, RoomInv,
                    AnswerInv, SessionInv, SessionInv', CopiesInv, [Next]_vars
             PROVE  CopiesInv'
  OBVIOUS
<1>1. MessageStep /\ SessionStep /\ NetStep
  BY StepIsMessageStep, StepIsSessionStep, StepIsNetStep
<1>2. MessagesOK /\ SEIDsZero /\ KeysOK /\ KeysOK' /\ RecordsOK
  BY DEF AssociationInv, SessionInv
<1>3. CountsOK(net)' /\ SendersOK'
  BY <1>1, CountsOKStep, SendersOKStep DEF CopiesInv
<1>4. ASSUME FirstLife(CP)', NEW u \in UP, NEW q \in SeqNums
      PROVE  NumberedOK(u, q)'
  <2>1. FirstLife(CP)
    BY <1>1, <1>4, Homes, MessageStepEffect
  <2>2. \/ Same(u) \/ Clears(u) \/ \E m \in DOMAIN net : \E t : Adds(u, m, t)
    BY <1>1, <1>2, UserPlaneEffect
  <2>3. CASE Same(u) \/ Clears(u)
    BY <1>1, <1>2, <1>3, <2>1, <2>3, NumberedStep
  <2>4. ASSUME NEW m \in DOMAIN net, NEW t, Adds(u, m, t) PROVE NumberedOK(u, q)'
    BY <1>2, <1>3, <2>1, <2>4, NumberedMade
  <2> QED
    BY <2>2, <2>3, <2>4
<1> QED
  BY <1>3, <1>4 DEF CopiesInv

\* There are no messages and no sessions when the processes start.
LEMMA CopiesInvInit == Init => CopiesInv
<1> SUFFICES ASSUME Init PROVE CopiesInv
  OBVIOUS
<1>1. DOMAIN net = {} /\ duplicates = 0 /\ \A u \in UP : DOMAIN upSessions[u] = {}
  BY DEF Init, TransportInit, UPInit, EmptyNet, EmptyMap
<1>2. \A c \in Caller : ~InFlight(c)
  BY DEF Init, TransportInit, IdleCall, InFlight
<1>3. ASSUME NEW u \in UP, NEW q \in SeqNums PROVE NumberedOK(u, q)
  <2>1. CopiesOf(u, q) = {}
    BY <1>1 DEF CopiesOf
  <2>2. Cardinality(CopiesOf(u, q)) = 0
    BY <2>1, FS_EmptySet
  <2>3. Within(u, q, 1)
    BY <1>1, <2>2, SMTT(30) DEF Within
  <2>4. 1 \in Nat /\ 1 \in CopiesSent /\ 1 = 1 + duplicates
    BY <1>1, SMTT(30) DEF CopiesSent
  <2>5. \A w \in Worker, b \in Nat : ~Spent(w, q, b)
    BY <1>2, Homes DEF Spent
  <2> QED
    BY <2>3, <2>4, <2>5 DEF NumberedOK, Allowed
<1> QED
  BY <1>1, <1>2, <1>3 DEF CopiesInv, CountsOK, SendersOK

(***************************************************************************)
(* One CreateSession leaves no more sessions at a user plane than copies   *)
(* of its request were put on the wire by SendRequest and the network,     *)
(* although handleSessionEstablishmentRequest makes a session for each     *)
(* copy: for every configuration of the retries and any number of          *)
(* concurrent calls, until the control plane restarts and its numbers      *)
(* start again.                                                            *)
(***************************************************************************)
THEOREM SessionCopiesAreBounded == Spec => []SessionCopiesBounded
<1>1. ASSUME CopiesInv PROVE SessionCopiesBounded
  BY <1>1 DEF CopiesInv, NumberedOK, Allowed, Within, SessionCopiesBounded,
     FirstLife
<1> QED
  BY <1>1, SystemInvariant, AnswerInvariant, SessionInvariant, CopiesInvInit,
     CopiesInvStep, PTL DEF Spec
=============================================================================
