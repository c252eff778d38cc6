--------------------------- MODULE TransportProofs ---------------------------
(***************************************************************************)
(* Proofs about Transport, for every number of endpoints and goroutines,   *)
(* every size of the sequence number space and every configuration of the  *)
(* retries.                                                                *)
(***************************************************************************)
EXTENDS Transport, TLAPS

\* Zenon tries a step first; a step with arithmetic or records names SMT.
USE ZenonT(20), SMTT(30)

-----------------------------------------------------------------------------
(***************************************************************************)
(* Type correctness.                                                       *)
(***************************************************************************)

\* A bag that gains or loses a datagram holds no other datagrams.
LEMMA NetDomain ==
  ASSUME NEW bag, NEW m
  PROVE  /\ DOMAIN Take(bag, m) \subseteq DOMAIN bag
         /\ DOMAIN Put(bag, m) \subseteq DOMAIN bag \cup {m}
BY DEF Take, Put

\* A goroutine outside SendRequest has locals of the right types.
LEMMA IdleCallType ==
  ASSUME NEW c \in Caller
  PROVE  IdleCall(c) \in CallRecord
<1>1. (CHOOSE b \in Request : TRUE) \in Request
  BY TransportAssumption
<1>2. Home[c] \in Endpoint /\ 1 \in SeqNums
  BY TransportAssumption, SMTT(30) DEF SeqNums
<1> QED
  BY <1>1, <1>2 DEF IdleCall, CallRecord, CallState, Option

\* nextSeqNum stays within the 24 bits of the header.
LEMMA NextSeqNumType ==
  ASSUME NEW s \in SeqNums
  PROVE  NextSeqNum(s) \in SeqNums
BY TransportAssumption, SMTT(30) DEF NextSeqNum, SeqNums

\* The datagram of a request is a message.
LEMMA RequestOfType ==
  ASSUME TransportTypeOK, NEW c \in Caller
  PROVE  RequestOf(c) \in Message
BY TransportAssumption DEF TransportTypeOK, RequestOf, Message, CallRecord

\* What the steps of SendRequest do to its locals keeps their types.
LEMMA LocalsType ==
  ASSUME NEW r \in CallRecord
  PROVE  /\ \A st \in CallState : [r EXCEPT !.st = st] \in CallRecord
         /\ \A e \in {"none", "send", "closed", "retries"} :
              [r EXCEPT !.err = e] \in CallRecord
         /\ \A n \in Nat : /\ [r EXCEPT !.attempts = n] \in CallRecord
                           /\ [r EXCEPT !.sent = n] \in CallRecord
         /\ \A o \in Option(Message) : /\ [r EXCEPT !.chan = o] \in CallRecord
                                       /\ [r EXCEPT !.resp = o] \in CallRecord
         /\ \A to \in Endpoint : [r EXCEPT !.to = to] \in CallRecord
         /\ \A body \in Request : [r EXCEPT !.body = body] \in CallRecord
         /\ \A q \in SeqNums : [r EXCEPT !.seq = q] \in CallRecord
BY DEF CallRecord

\* The locals of a goroutine have their types.
LEMMA FieldsType ==
  ASSUME NEW r \in CallRecord
  PROVE  /\ r.st \in CallState /\ r.to \in Endpoint /\ r.body \in Request
         /\ r.seq \in SeqNums /\ r.attempts \in Nat /\ r.sent \in Nat
         /\ r.attempts + 1 \in Nat /\ r.sent + 1 \in Nat
         /\ r.chan \in Option(Message) /\ r.resp \in Option(Message)
         /\ <<>> \in Option(Message)
BY SMTT(30) DEF CallRecord, Option

\* Giving a goroutine new locals keeps the type of them all.
LEMMA SetCallType ==
  ASSUME call \in [Caller -> CallRecord], NEW c \in Caller,
         NEW r \in CallRecord, SetCall(c, r)
  PROVE  call' \in [Caller -> CallRecord]
BY DEF SetCall

\* NewTransport makes a type-correct state.
LEMMA TypeInit == TransportInit => TransportTypeOK
<1> SUFFICES ASSUME TransportInit PROVE TransportTypeOK
  OBVIOUS
<1>1. \A c \in Caller : IdleCall(c) \in CallRecord
  BY IdleCallType
<1>2. 1 \in SeqNums
  BY TransportAssumption, SMTT(30) DEF SeqNums
<1> QED
  BY <1>1, <1>2, TransportAssumption, SMTT(30)
     DEF TransportInit, TransportTypeOK, NoEntry, EmptyNet

\* Every step, of SendRequest or handleMessage or the network, keeps the types.
LEMMA TypeStep ==
  TransportTypeOK /\ [TransportNext]_transportVars => TransportTypeOK'
<1> SUFFICES ASSUME TransportTypeOK, [TransportNext]_transportVars
             PROVE  TransportTypeOK'
  OBVIOUS
<1> USE DEF TransportTypeOK
<1>1. ASSUME NEW c \in Caller, NEW to \in Endpoint, NEW body \in Request,
             SendRequest(c, to, body)
      PROVE  TransportTypeOK'
  <2>1. NextSeqNum(seqNum[Home[c]]) \in SeqNums
    BY NextSeqNumType, TransportAssumption
  <2>2. [IdleCall(c) EXCEPT !.st = "numbered", !.to = to, !.body = body,
                            !.seq = seqNum[Home[c]]] \in CallRecord
    BY IdleCallType, LocalsType, TransportAssumption DEF CallState
  <2>3. age' \in [Caller -> Nat]
    BY <1>1, SMTT(30) DEF SendRequest
  <2>4. call' \in [Caller -> CallRecord]
    BY <1>1, <2>2, SetCallType DEF SendRequest
  <2>5. seqNum' \in [Endpoint -> SeqNums]
    BY <1>1, <2>1, TransportAssumption DEF SendRequest
  <2> QED
    BY <1>1, <2>3, <2>4, <2>5 DEF SendRequest
<1>2. ASSUME NEW c \in Caller, CallerStep(c)
      PROVE  TransportTypeOK'
  <2>0. call[c] \in CallRecord /\ Home[c] \in Endpoint
    BY TransportAssumption
  <2>1. CASE Register(c)
    <3>1. pending' \in [Endpoint -> [SeqNums -> Caller \cup {NoCaller}]]
      BY <2>0, <2>1, FieldsType DEF Register
    <3>2. [call[c] EXCEPT !.st = "registered"] \in CallRecord
      BY <2>0, LocalsType DEF CallState
    <3>3. call' \in [Caller -> CallRecord]
      BY <2>1, <3>2, SetCallType DEF Register
    <3> QED
      BY <2>1, <3>1, <3>3 DEF Register
  <2>2. CASE Transmit(c)
    <3>1. DOMAIN net' \subseteq Message
      BY <2>2, NetDomain, RequestOfType, SMTT(30) DEF Transmit
    <3>2. [call[c] EXCEPT !.st = "waiting", !.sent = 1] \in CallRecord
      BY <2>0, LocalsType DEF CallState
    <3>3. call' \in [Caller -> CallRecord]
      BY <2>2, <3>2, SetCallType DEF Transmit
    <3> QED
      BY <2>2, <3>1, <3>3 DEF Transmit
  <2>3. CASE Retransmit(c)
    <3>1. DOMAIN net' \subseteq Message
      BY <2>3, NetDomain, RequestOfType, SMTT(30) DEF Retransmit
    <3>2. [call[c] EXCEPT !.attempts = @ + 1, !.sent = @ + 1] \in CallRecord
      BY <2>0, LocalsType, FieldsType
    <3>3. call' \in [Caller -> CallRecord]
      BY <2>3, <3>2, SetCallType DEF Retransmit
    <3> QED
      BY <2>3, <3>1, <3>3 DEF Retransmit
  <2>4. CASE GiveUp(c)
    <3>1. [call[c] EXCEPT !.st = "returning", !.attempts = @ + 1,
                          !.err = "retries"] \in CallRecord
      BY <2>0, LocalsType, FieldsType DEF CallState
    <3>2. call' \in [Caller -> CallRecord]
      BY <2>4, <3>1, SetCallType DEF GiveUp
    <3> QED
      BY <2>4, <3>2 DEF GiveUp
  <2>5. CASE SendError(c)
    <3>1. (IF call[c].st = "waiting" THEN call[c].attempts + 1
                                     ELSE call[c].attempts) \in Nat
      BY <2>0, FieldsType
    <3>2. [call[c] EXCEPT !.st = "returning", !.err = "send",
             !.attempts = IF call[c].st = "waiting" THEN @ + 1 ELSE @]
            \in CallRecord
      BY <2>0, <3>1, LocalsType DEF CallState
    <3>3. call' \in [Caller -> CallRecord]
      BY <2>5, <3>2, SetCallType DEF SendError
    <3> QED
      BY <2>5, <3>1, <3>3 DEF SendError
  <2>6. CASE TakeResponse(c)
    <3>1. [call[c] EXCEPT !.st = "returning", !.resp = call[c].chan,
                          !.chan = <<>>] \in CallRecord
      BY <2>0, LocalsType, FieldsType DEF CallState
    <3>2. call' \in [Caller -> CallRecord]
      BY <2>6, <3>1, SetCallType DEF TakeResponse
    <3> QED
      BY <2>6, <3>2 DEF TakeResponse
  <2>7. CASE TransportClosed(c)
    <3>1. [call[c] EXCEPT !.st = "returning", !.err = "closed"] \in CallRecord
      BY <2>0, LocalsType DEF CallState
    <3>2. call' \in [Caller -> CallRecord]
      BY <2>7, <3>1, SetCallType DEF TransportClosed
    <3> QED
      BY <2>7, <3>2 DEF TransportClosed
  <2>8. CASE Unregister(c)
    <3>1. pending' \in [Endpoint -> [SeqNums -> Caller \cup {NoCaller}]]
      BY <2>0, <2>8, FieldsType DEF Unregister
    <3>2. [call[c] EXCEPT !.st = "returned", !.chan = <<>>] \in CallRecord
      BY <2>0, LocalsType, FieldsType DEF CallState
    <3>3. call' \in [Caller -> CallRecord]
      BY <2>8, <3>2, SetCallType DEF Unregister
    <3> QED
      BY <2>8, <3>1, <3>3 DEF Unregister
  <2> QED
    BY <1>2, <2>1, <2>2, <2>3, <2>4, <2>5, <2>6, <2>7, <2>8 DEF CallerStep
<1>3. ASSUME NEW c \in Caller, Resume(c)
      PROVE  TransportTypeOK'
  <2>1. call' \in [Caller -> CallRecord]
    BY <1>3, IdleCallType, SetCallType DEF Resume
  <2> QED
    BY <1>3, <2>1 DEF Resume
<1>4. ASSUME NEW m \in DOMAIN net, DeliverToCaller(m)
      PROVE  TransportTypeOK'
  <2>1. m \in Message
    OBVIOUS
  <2>2. DOMAIN net' \subseteq Message
    BY <1>4, NetDomain DEF DeliverToCaller
  <2>3. Claimant(m) \in Caller
    BY <1>4, <2>1, SMTT(30) DEF DeliverToCaller, Claimant, Message
  <2>4. call' \in [Caller -> CallRecord]
    <3> DEFINE r == call[Claimant(m)]
    <3>1. (IF r.chan = <<>> THEN <<m>> ELSE r.chan) \in Option(Message)
      BY <2>1, <2>3, FieldsType DEF Option
    <3>2. [r EXCEPT !.chan = IF @ = <<>> THEN <<m>> ELSE @] \in CallRecord
      BY <2>3, <3>1, LocalsType
    <3> QED
      BY <1>4, <2>3, <3>2, SetCallType DEF DeliverToCaller
  <2> QED
    BY <1>4, <2>2, <2>4 DEF DeliverToCaller
<1>5. ASSUME NEW m \in DOMAIN net, HandlerStep(m)
      PROVE  TransportTypeOK'
  <2>1. CASE HandleSilently(m)
    BY <2>1, NetDomain DEF HandleSilently
  <2>2. ASSUME NEW b \in Response, HandleAndAnswer(m, b)
        PROVE  TransportTypeOK'
    <3> DEFINE answer == [src |-> m.dst, dst |-> m.src, seq |-> m.seq,
                          body |-> b]
    <3>1. answer \in Message
      BY DEF Message
    <3>2. DOMAIN net' \subseteq Message
      <4>1. DOMAIN Take(net, m) \subseteq Message
        BY NetDomain
      <4> QED
        BY <2>2, <3>1, <4>1, NetDomain, SMTT(30) DEF HandleAndAnswer
    <3> QED
      BY <2>2, <3>2 DEF HandleAndAnswer
  <2> QED
    BY <1>5, <2>1, <2>2 DEF HandlerStep
<1>6. ASSUME NEW m \in DOMAIN net, Lose(m)
      PROVE  TransportTypeOK'
  BY <1>6, NetDomain DEF Lose
<1>7. ASSUME NEW m \in DOMAIN net, Duplicate(m)
      PROVE  TransportTypeOK'
  <2>1. DOMAIN net' \subseteq Message
    BY <1>7, NetDomain, SMTT(30) DEF Duplicate
  <2> QED
    BY <1>7, <2>1, TransportAssumption, SMTT(30) DEF Duplicate
<1>8. ASSUME NEW e \in Endpoint, Cancel(e) \/ Close(e)
      PROVE  TransportTypeOK'
  BY <1>8 DEF Cancel, Close
<1>9. ASSUME NEW e \in Endpoint, Restart(e)
      PROVE  TransportTypeOK'
  <2>1. NoEntry \in [SeqNums -> Caller \cup {NoCaller}] /\ 1 \in SeqNums
    BY TransportAssumption, SMTT(30) DEF NoEntry, SeqNums
  <2>2. call' \in [Caller -> CallRecord]
    BY <1>9, IdleCallType DEF Restart
  <2> QED
    BY <1>9, <2>1, <2>2, TransportAssumption, SMTT(30) DEF Restart
<1>10. CASE UNCHANGED transportVars
  BY <1>10 DEF transportVars
<1> QED
  BY <1>1, <1>2, <1>3, <1>4, <1>5, <1>6, <1>7, <1>8, <1>9, <1>10
     DEF TransportNext

\* The state of the transports is type-correct in every reachable state.
THEOREM TransportTypeCorrect == TransportSpec => []TransportTypeOK
BY TypeInit, TypeStep, PTL DEF TransportSpec

-----------------------------------------------------------------------------
(***************************************************************************)
(* The pending requests.  SlotsMatchCalls is not inductive: two calls of   *)
(* one endpoint could hold the same number.  They do not, because the      *)
(* counter has gone age[c] + 1 numbers past the one of a call c in flight, *)
(* less than once around, and no two calls are of the same age.            *)
(***************************************************************************)

\* k numbers past s, where k is at most MaxSeqNum.
Ahead(s, k) == IF s + k > MaxSeqNum THEN s + k - MaxSeqNum ELSE s + k

CounterAhead ==
  \A c \in Caller : InFlight(c) =>
    /\ age[c] <= Window
    /\ seqNum[Home[c]] = Ahead(call[c].seq, age[c] + 1)

AgesDistinct ==
  \A c, d \in Caller :
    c # d /\ Home[c] = Home[d] /\ InFlight(c) /\ InFlight(d) => age[c] # age[d]

(***************************************************************************)
(* The locals of one call: nothing is returned before a return statement,  *)
(* what is in the channel came to the endpoint under the call's number,    *)
(* and every firing of the timer but the last sent one more copy.          *)
(***************************************************************************)
LocalsOK(c, r) ==
  /\ r.st \notin {"returning", "returned"} => r.err = "none" /\ r.resp = <<>>
  /\ r.st \in {"returning", "returned"} =>
       ((r.err = "none") <=> (r.resp # <<>>))
  /\ r.chan # <<>> => r.chan[1].dst = Home[c] /\ r.chan[1].seq = r.seq
  /\ r.resp # <<>> => r.resp[1].dst = Home[c] /\ r.resp[1].seq = r.seq
  /\ r.st \in {"idle", "numbered", "registered"} =>
       r.attempts = 0 /\ r.sent = 0
  /\ r.st = "waiting" => r.sent = r.attempts + 1
  /\ r.sent <= (IF MaxRetries[c] = 0 THEN 1 ELSE MaxRetries[c])
  /\ r.err = "retries" =>
       r.sent = (IF MaxRetries[c] = 0 THEN 1 ELSE MaxRetries[c])

\* The inductive invariant.
TransportInv ==
  /\ TransportTypeOK
  /\ CounterAhead
  /\ AgesDistinct
  /\ SlotsMatchCalls
  /\ \A c \in Caller : LocalsOK(c, call[c])

\* nextSeqNum is one step of Ahead.
LEMMA AheadNext ==
  ASSUME NEW s \in SeqNums
  PROVE  /\ NextSeqNum(s) = Ahead(s, 1)
         /\ \A k \in Nat : k < MaxSeqNum =>
              NextSeqNum(Ahead(s, k)) = Ahead(s, k + 1)
BY TransportAssumption, SMTT(30) DEF SeqNums, NextSeqNum, Ahead

\* Two calls of one endpoint have different numbers.
LEMMA NumbersDistinct ==
  ASSUME TransportTypeOK, CounterAhead, AgesDistinct,
         NEW c \in Caller, NEW d \in Caller,
         c # d, Home[c] = Home[d], InFlight(c), InFlight(d)
  PROVE  call[c].seq # call[d].seq
<1>1. call[c].seq \in SeqNums /\ call[d].seq \in SeqNums
  BY FieldsType DEF TransportTypeOK
<1>2. age[c] \in Nat /\ age[d] \in Nat /\ age[c] # age[d]
  BY DEF TransportTypeOK, AgesDistinct
<1>3. Ahead(call[c].seq, age[c] + 1) = Ahead(call[d].seq, age[d] + 1)
  BY DEF CounterAhead
<1>4. age[c] <= Window /\ age[d] <= Window
  BY DEF CounterAhead
<1> QED
  BY <1>1, <1>2, <1>3, <1>4, TransportAssumption, SMTT(30) DEF Ahead, SeqNums

\* The part of the invariant that is about the numbers.
NumbersOK == CounterAhead /\ AgesDistinct /\ SlotsMatchCalls

\* A step that no call enters, registers in or leaves by keeps it.
LEMMA NumbersFrame ==
  ASSUME NumbersOK, UNCHANGED <<seqNum, pending, age>>,
         \A c \in Caller : /\ call'[c].seq = call[c].seq
                           /\ InFlight(c)' <=> InFlight(c)
                           /\ Registered(c)' <=> Registered(c)
  PROVE  NumbersOK'
BY SMTT(30) DEF NumbersOK, CounterAhead, AgesDistinct, SlotsMatchCalls

\* What SetCall does.
LEMMA SetCallEffect ==
  ASSUME call \in [Caller -> CallRecord], NEW c \in Caller,
         NEW r, SetCall(c, r)
  PROVE  call'[c] = r /\ \A d \in Caller \ {c} : call'[d] = call[d]
BY DEF SetCall

\* So such a step of c need only be looked at in c's locals.
LEMMA NumbersOfCall ==
  ASSUME TransportTypeOK, NumbersOK, UNCHANGED <<seqNum, pending, age>>,
         NEW c \in Caller, NEW r, SetCall(c, r), r.seq = call[c].seq,
         call[c].st \in {"registered", "waiting", "returning"},
         r.st \in {"registered", "waiting", "returning"}
  PROVE  NumbersOK'
<1>1. \A d \in Caller : /\ call'[d].seq = call[d].seq
                        /\ InFlight(d)' <=> InFlight(d)
                        /\ Registered(d)' <=> Registered(d)
  BY SetCallEffect DEF TransportTypeOK, InFlight, Registered
<1> QED
  BY <1>1, NumbersFrame


\* Entering SendRequest ages the other calls of the endpoint by one number.
LEMMA NumbersEnter ==
  ASSUME TransportTypeOK, NumbersOK, NEW c \in Caller, NEW to \in Endpoint,
         NEW body \in Request, SendRequest(c, to, body)
  PROVE  NumbersOK'
<1> DEFINE e == Home[c]
           r == [IdleCall(c) EXCEPT !.st = "numbered", !.to = to,
                                    !.body = body, !.seq = seqNum[e]]
<1> USE DEF TransportTypeOK
<1>0. e \in Endpoint /\ seqNum[e] \in SeqNums
  BY TransportAssumption
<1>1. r.st = "numbered" /\ r.seq = seqNum[e]
  BY DEF IdleCall
<1>2. SetCall(c, r)
  BY DEF SendRequest
<1> HIDE DEF r
<1>3. /\ call'[c].st = "numbered" /\ call'[c].seq = seqNum[e]
      /\ \A d \in Caller \ {c} : call'[d] = call[d]
  BY <1>1, <1>2, SetCallEffect
<1>4. /\ call[c].st = "idle"
      /\ seqNum'[e] = NextSeqNum(seqNum[e])
      /\ \A f \in Endpoint \ {e} : seqNum'[f] = seqNum[f]
      /\ age'[c] = 0
      /\ \A d \in Caller \ {c} :
           age'[d] = IF Home[d] = e /\ InFlight(d) THEN age[d] + 1 ELSE age[d]
      /\ \A d \in Caller : Home[d] = e /\ InFlight(d) => age[d] < Window
      /\ pending' = pending
  BY <1>0 DEF SendRequest
<1>5. CounterAhead'
  <2>1. seqNum'[e] = Ahead(call'[c].seq, age'[c] + 1)
    BY <1>0, <1>3, <1>4, AheadNext, SMTT(30)
  <2>2. ASSUME NEW d \in Caller \ {c}, InFlight(d), Home[d] = e
        PROVE  /\ age'[d] <= Window
               /\ seqNum'[e] = Ahead(call'[d].seq, age'[d] + 1)
    <3>1. age[d] \in Nat /\ age[d] < Window /\ age'[d] = age[d] + 1
      BY <1>4, <2>2
    <3>2. call[d].seq \in SeqNums
      BY FieldsType
    <3>3. seqNum[e] = Ahead(call[d].seq, age[d] + 1)
      BY <2>2 DEF NumbersOK, CounterAhead
    <3>4. age[d] + 1 \in Nat /\ age[d] + 1 < MaxSeqNum /\ age'[d] <= Window
      BY <3>1, TransportAssumption, SMTT(30)
    <3>5. NextSeqNum(seqNum[e]) = Ahead(call[d].seq, (age[d] + 1) + 1)
      BY <3>2, <3>3, <3>4, AheadNext
    <3> QED
      BY <1>3, <1>4, <3>1, <3>4, <3>5
  <2>3. ASSUME NEW d \in Caller \ {c}, InFlight(d), Home[d] # e
        PROVE  /\ age'[d] <= Window
               /\ seqNum'[Home[d]] = Ahead(call'[d].seq, age'[d] + 1)
    BY <1>3, <1>4, <2>3, TransportAssumption DEF NumbersOK, CounterAhead
  <2> QED
    BY <1>3, <1>4, <2>1, <2>2, <2>3, TransportAssumption, SMTT(30)
       DEF CounterAhead, InFlight
<1>6. AgesDistinct'
  <2> SUFFICES ASSUME NEW a \in Caller, NEW b \in Caller, a # b,
                      Home[a] = Home[b], InFlight(a)', InFlight(b)'
               PROVE  age'[a] # age'[b]
    BY DEF AgesDistinct
  <2>1. CASE a # c /\ b # c
    <3>1. InFlight(a) /\ InFlight(b) /\ age[a] # age[b]
      BY <1>3, <2>1 DEF InFlight, NumbersOK, AgesDistinct
    <3>2. \A i, j \in Nat : i # j => i + 1 # j + 1
      BY SMTT(30)
    <3>3. CASE Home[a] = e
      <4>1. age'[a] = age[a] + 1 /\ age'[b] = age[b] + 1
        BY <1>4, <2>1, <3>1, <3>3
      <4>2. age[a] \in Nat /\ age[b] \in Nat
        OBVIOUS
      <4> QED
        BY <3>1, <3>2, <4>1, <4>2
    <3>4. CASE Home[a] # e
      <4>1. age'[a] = age[a] /\ age'[b] = age[b]
        BY <1>4, <2>1, <3>1, <3>4
      <4> QED
        BY <3>1, <4>1
    <3> QED
      BY <3>3, <3>4
  <2>2. CASE a = c
    <3>1. InFlight(b) /\ age'[b] = age[b] + 1
      BY <1>3, <1>4, <2>2 DEF InFlight
    <3> QED
      BY <1>4, <2>2, <3>1, SMTT(30)
  <2>3. CASE b = c
    <3>1. InFlight(a) /\ age'[a] = age[a] + 1
      BY <1>3, <1>4, <2>3 DEF InFlight
    <3> QED
      BY <1>4, <2>3, <3>1, SMTT(30)
  <2> QED
    BY <2>1, <2>2, <2>3
<1>7. SlotsMatchCalls'
  <2>1. \A d \in Caller : Registered(d)' <=> Registered(d)
    BY <1>3, <1>4 DEF Registered
  <2>2. \A d \in Caller : Registered(d) => call'[d] = call[d]
    BY <1>3, <1>4 DEF Registered
  <2> QED
    BY <1>4, <2>1, <2>2, SMTT(30) DEF NumbersOK, SlotsMatchCalls
<1> QED
  BY <1>5, <1>6, <1>7 DEF NumbersOK

\* The insertion into the map finds the slot empty.
LEMMA NumbersRegister ==
  ASSUME TransportTypeOK, NumbersOK, NEW c \in Caller, Register(c)
  PROVE  NumbersOK'
<1> USE DEF TransportTypeOK
<1>0. Home[c] \in Endpoint /\ call[c] \in CallRecord /\ call[c].seq \in SeqNums
  BY TransportAssumption, FieldsType
<1> DEFINE r == [call[c] EXCEPT !.st = "registered"]
<1>1. r.st = "registered" /\ r.seq = call[c].seq
  BY <1>0 DEF CallRecord
<1>2. SetCall(c, r)
  BY DEF Register
<1> HIDE DEF r
<1>3. /\ call'[c].st = "registered" /\ call'[c].seq = call[c].seq
      /\ \A d \in Caller \ {c} : call'[d] = call[d]
  BY <1>1, <1>2, SetCallEffect
<1>4. /\ call[c].st = "numbered"
      /\ pending' = [pending EXCEPT ![Home[c]][call[c].seq] = c]
      /\ UNCHANGED <<seqNum, age>>
  BY DEF Register
<1>5. CounterAhead' /\ AgesDistinct'
  BY <1>3, <1>4, SMTT(30) DEF NumbersOK, CounterAhead, AgesDistinct, InFlight
<1>6. ASSUME NEW d \in Caller \ {c}, Registered(d), Home[d] = Home[c]
      PROVE  call[d].seq # call[c].seq
  BY <1>4, <1>6, NumbersDistinct DEF NumbersOK, InFlight, Registered
<1>7. SlotsMatchCalls'
  <2> SUFFICES ASSUME NEW e \in Endpoint, NEW s \in SeqNums, NEW d \in Caller
               PROVE  pending'[e][s] = d <=>
                        Registered(d)' /\ Home[d] = e /\ call'[d].seq = s
    BY DEF SlotsMatchCalls
  <2>0. pending[e][s] = d <=> Registered(d) /\ Home[d] = e /\ call[d].seq = s
    BY SMTT(30) DEF NumbersOK, SlotsMatchCalls
  <2>1. pending'[e][s] = IF e = Home[c] /\ s = call[c].seq THEN c
                                                           ELSE pending[e][s]
    BY <1>0, <1>4
  <2>2. CASE d = c
    BY <1>3, <1>4, <2>0, <2>1, <2>2 DEF Registered
  <2>3. CASE d # c
    BY <1>3, <1>6, <2>0, <2>1, <2>3 DEF Registered
  <2> QED
    BY <2>2, <2>3
<1> QED
  BY <1>5, <1>7 DEF NumbersOK

\* The deferred delete removes the entry of its own call.
LEMMA NumbersUnregister ==
  ASSUME TransportTypeOK, NumbersOK, NEW c \in Caller, Unregister(c)
  PROVE  NumbersOK'
<1> USE DEF TransportTypeOK
<1>0. Home[c] \in Endpoint /\ call[c] \in CallRecord /\ call[c].seq \in SeqNums
  BY TransportAssumption, FieldsType
<1> DEFINE r == [call[c] EXCEPT !.st = "returned", !.chan = <<>>]
<1>1. r.st = "returned" /\ r.seq = call[c].seq
  BY <1>0 DEF CallRecord
<1>2. SetCall(c, r)
  BY DEF Unregister
<1> HIDE DEF r
<1>3. /\ call'[c].st = "returned" /\ call'[c].seq = call[c].seq
      /\ \A d \in Caller \ {c} : call'[d] = call[d]
  BY <1>1, <1>2, SetCallEffect
<1>4. /\ call[c].st = "returning"
      /\ pending' = [pending EXCEPT ![Home[c]][call[c].seq] = NoCaller]
      /\ UNCHANGED <<seqNum, age>>
  BY DEF Unregister
<1>5. CounterAhead' /\ AgesDistinct'
  BY <1>3, <1>4, SMTT(30) DEF NumbersOK, CounterAhead, AgesDistinct, InFlight
<1>6. ASSUME NEW d \in Caller \ {c}, Registered(d), Home[d] = Home[c]
      PROVE  call[d].seq # call[c].seq
  BY <1>4, <1>6, NumbersDistinct DEF NumbersOK, InFlight, Registered
<1>7. SlotsMatchCalls'
  <2> SUFFICES ASSUME NEW e \in Endpoint, NEW s \in SeqNums, NEW d \in Caller
               PROVE  pending'[e][s] = d <=>
                        Registered(d)' /\ Home[d] = e /\ call'[d].seq = s
    BY DEF SlotsMatchCalls
  <2>0. pending[e][s] = d <=> Registered(d) /\ Home[d] = e /\ call[d].seq = s
    BY SMTT(30) DEF NumbersOK, SlotsMatchCalls
  <2>1. pending'[e][s] = IF e = Home[c] /\ s = call[c].seq THEN NoCaller
                                                           ELSE pending[e][s]
    BY <1>0, <1>4
  <2>2. CASE d = c
    BY <1>3, <2>0, <2>1, <2>2, TransportAssumption DEF Registered
  <2>3. CASE d # c
    BY <1>3, <1>6, <2>0, <2>1, <2>3, TransportAssumption DEF Registered
  <2> QED
    BY <2>2, <2>3
<1> QED
  BY <1>5, <1>7 DEF NumbersOK

\* A call that has returned is forgotten; its entry is gone by then.
LEMMA NumbersForget ==
  ASSUME TransportTypeOK, NumbersOK, NEW c \in Caller, Resume(c)
  PROVE  NumbersOK'
<1> USE DEF TransportTypeOK
<1>1. IdleCall(c).st = "idle"
  BY DEF IdleCall
<1>2. /\ call'[c].st = "idle"
      /\ \A d \in Caller \ {c} : call'[d] = call[d]
  BY <1>1, SetCallEffect DEF Resume
<1>3. /\ call[c].st = "returned"
      /\ \A d \in Caller \ {c} : age'[d] = age[d]
      /\ UNCHANGED <<seqNum, pending>>
  BY DEF Resume
<1>4. CounterAhead' /\ AgesDistinct'
  BY <1>2, <1>3 DEF NumbersOK, CounterAhead, AgesDistinct, InFlight
<1>5. SlotsMatchCalls'
  <2>1. \A d \in Caller : Registered(d)' <=> Registered(d)
    BY <1>2, <1>3 DEF Registered
  <2>2. \A d \in Caller : Registered(d) => call'[d] = call[d]
    BY <1>2, <1>3 DEF Registered
  <2> QED
    BY <1>3, <2>1, <2>2, SMTT(30) DEF NumbersOK, SlotsMatchCalls
<1> QED
  BY <1>4, <1>5 DEF NumbersOK

\* A new process starts with no call and no entry.
LEMMA NumbersRestart ==
  ASSUME TransportTypeOK, NumbersOK, NEW e \in Endpoint, Restart(e)
  PROVE  NumbersOK'
<1> USE DEF TransportTypeOK
<1>1. \A c \in Caller : Home[c] = e => call'[c].st = "idle"
  BY DEF Restart, IdleCall
<1>2. \A c \in Caller : Home[c] # e => call'[c] = call[c] /\ age'[c] = age[c]
  BY DEF Restart
<1>3. \A f \in Endpoint \ {e} : /\ seqNum'[f] = seqNum[f]
                                /\ pending'[f] = pending[f]
  BY DEF Restart
<1>4. \A s \in SeqNums : pending'[e][s] = NoCaller
  BY DEF Restart, NoEntry
<1>5. CounterAhead' /\ AgesDistinct'
  BY <1>1, <1>2, <1>3, TransportAssumption, SMTT(30)
     DEF NumbersOK, CounterAhead, AgesDistinct, InFlight
<1>6. SlotsMatchCalls'
  <2> SUFFICES ASSUME NEW f \in Endpoint, NEW s \in SeqNums, NEW d \in Caller
               PROVE  pending'[f][s] = d <=>
                        Registered(d)' /\ Home[d] = f /\ call'[d].seq = s
    BY DEF SlotsMatchCalls
  <2>1. CASE f = e
    BY <1>1, <1>4, <2>1, TransportAssumption DEF Registered
  <2>2. CASE f # e
    BY <1>1, <1>2, <1>3, <2>2, SMTT(30)
       DEF Registered, NumbersOK, SlotsMatchCalls
  <2> QED
    BY <2>1, <2>2
<1> QED
  BY <1>5, <1>6 DEF NumbersOK

-----------------------------------------------------------------------------
(***************************************************************************)
(* The steps inside SendRequest that neither enter nor leave the map.      *)
(***************************************************************************)

\* What such a step of c must do to c's locals to keep the invariant.
LEMMA LocalsOfCall ==
  ASSUME TransportInv, NEW c \in Caller, NEW r, SetCall(c, r), LocalsOK(c, r)
  PROVE  \A d \in Caller : LocalsOK(d, call'[d])
BY SetCallEffect DEF TransportInv, TransportTypeOK

\* A step of the select loop in SendRequest keeps what LocalsOK says of it.
LEMMA SelectStep ==
  ASSUME TransportInv, NEW c \in Caller,
         \/ Transmit(c) \/ Retransmit(c) \/ GiveUp(c) \/ SendError(c)
         \/ TakeResponse(c) \/ TransportClosed(c)
  PROVE  NumbersOK' /\ \A d \in Caller : LocalsOK(d, call'[d])
<1>0. /\ TransportTypeOK /\ NumbersOK /\ LocalsOK(c, call[c])
      /\ call[c] \in CallRecord /\ MaxRetries[c] \in Nat
      /\ call[c].attempts \in Nat /\ call[c].sent \in Nat
  BY TransportAssumption, FieldsType
     DEF TransportInv, NumbersOK, TransportTypeOK
<1>1. CASE Transmit(c)
  <2> DEFINE r == [call[c] EXCEPT !.st = "waiting", !.sent = 1]
  <2>1. /\ r.st = "waiting" /\ r.sent = 1 /\ r.attempts = call[c].attempts
        /\ r.seq = call[c].seq /\ r.err = call[c].err
        /\ r.resp = call[c].resp /\ r.chan = call[c].chan
    BY <1>0, <1>1 DEF Transmit, CallRecord
  <2>2. SetCall(c, r) /\ UNCHANGED <<seqNum, pending, age>>
    BY <1>1 DEF Transmit
  <2> HIDE DEF r
  <2>3. NumbersOK'
    BY <1>0, <1>1, <2>1, <2>2, NumbersOfCall DEF Transmit
  <2>4. LocalsOK(c, r)
    BY <1>0, <1>1, <2>1, SMTT(30) DEF Transmit, LocalsOK
  <2> QED
    BY <2>2, <2>3, <2>4, LocalsOfCall
<1>2. CASE Retransmit(c)
  <2> DEFINE r == [call[c] EXCEPT !.attempts = @ + 1, !.sent = @ + 1]
  <2>1. /\ r.st = call[c].st /\ r.sent = call[c].sent + 1
      /\ r.attempts = call[c].attempts + 1
        /\ r.seq = call[c].seq /\ r.err = call[c].err
        /\ r.resp = call[c].resp /\ r.chan = call[c].chan
    BY <1>0, <1>2 DEF Retransmit, CallRecord
  <2>2. SetCall(c, r) /\ UNCHANGED <<seqNum, pending, age>>
    BY <1>2 DEF Retransmit
  <2> HIDE DEF r
  <2>3. NumbersOK'
    BY <1>0, <1>2, <2>1, <2>2, NumbersOfCall DEF Retransmit
  <2>4. LocalsOK(c, r)
    BY <1>0, <1>2, <2>1, SMTT(30) DEF Retransmit, LocalsOK
  <2> QED
    BY <2>2, <2>3, <2>4, LocalsOfCall
<1>3. CASE GiveUp(c)
  <2> DEFINE r == [call[c] EXCEPT !.st = "returning", !.attempts = @ + 1,
                             !.err = "retries"]
  <2>1. /\ r.st = "returning" /\ r.err = "retries"
        /\ r.seq = call[c].seq /\ r.sent = call[c].sent
        /\ r.resp = call[c].resp /\ r.chan = call[c].chan
    BY <1>0, <1>3 DEF GiveUp, CallRecord
  <2>2. SetCall(c, r) /\ UNCHANGED <<seqNum, pending, age>>
    BY <1>3 DEF GiveUp
  <2> HIDE DEF r
  <2>3. NumbersOK'
    BY <1>0, <1>3, <2>1, <2>2, NumbersOfCall DEF GiveUp
  <2>4. LocalsOK(c, r)
    BY <1>0, <1>3, <2>1, SMTT(30) DEF GiveUp, LocalsOK
  <2> QED
    BY <2>2, <2>3, <2>4, LocalsOfCall
<1>4. CASE SendError(c)
  <2> DEFINE r == [call[c] EXCEPT !.st = "returning", !.err = "send",
             !.attempts = IF call[c].st = "waiting" THEN @ + 1 ELSE @]
  <2>1. /\ r.st = "returning" /\ r.err = "send"
        /\ r.seq = call[c].seq /\ r.sent = call[c].sent
        /\ r.resp = call[c].resp /\ r.chan = call[c].chan
    BY <1>0, <1>4 DEF SendError, CallRecord
  <2>2. SetCall(c, r) /\ UNCHANGED <<seqNum, pending, age>>
    BY <1>4 DEF SendError
  <2> HIDE DEF r
  <2>3. NumbersOK'
    BY <1>0, <1>4, <2>1, <2>2, NumbersOfCall DEF SendError
  <2>4. LocalsOK(c, r)
    BY <1>0, <1>4, <2>1 DEF SendError, LocalsOK
  <2> QED
    BY <2>2, <2>3, <2>4, LocalsOfCall
<1>5. CASE TakeResponse(c)
  <2> DEFINE r == [call[c] EXCEPT !.st = "returning", !.resp = call[c].chan,
                             !.chan = <<>>]
  <2>1. /\ r.st = "returning" /\ r.resp = call[c].chan /\ r.chan = <<>>
        /\ r.seq = call[c].seq /\ r.err = call[c].err /\ r.sent = call[c].sent
    BY <1>0, <1>5 DEF TakeResponse, CallRecord
  <2>2. SetCall(c, r) /\ UNCHANGED <<seqNum, pending, age>>
    BY <1>5 DEF TakeResponse
  <2> HIDE DEF r
  <2>3. NumbersOK'
    BY <1>0, <1>5, <2>1, <2>2, NumbersOfCall DEF TakeResponse
  <2>4. LocalsOK(c, r)
    BY <1>0, <1>5, <2>1 DEF TakeResponse, LocalsOK
  <2> QED
    BY <2>2, <2>3, <2>4, LocalsOfCall
<1>6. CASE TransportClosed(c)
  <2> DEFINE r == [call[c] EXCEPT !.st = "returning", !.err = "closed"]
  <2>1. /\ r.st = "returning" /\ r.err = "closed"
        /\ r.seq = call[c].seq /\ r.sent = call[c].sent
        /\ r.resp = call[c].resp /\ r.chan = call[c].chan
    BY <1>0, <1>6 DEF TransportClosed, CallRecord
  <2>2. SetCall(c, r) /\ UNCHANGED <<seqNum, pending, age>>
    BY <1>6 DEF TransportClosed
  <2> HIDE DEF r
  <2>3. NumbersOK'
    BY <1>0, <1>6, <2>1, <2>2, NumbersOfCall DEF TransportClosed
  <2>4. LocalsOK(c, r)
    BY <1>0, <1>6, <2>1 DEF TransportClosed, LocalsOK
  <2> QED
    BY <2>2, <2>3, <2>4, LocalsOfCall
<1> QED
  BY <1>1, <1>2, <1>3, <1>4, <1>5, <1>6

\* The steps that enter and leave the map, and a goroutine's next call.
LEMMA LocalsMoves ==
  ASSUME TransportInv, NEW c \in Caller
  PROVE  /\ Register(c) => LocalsOK(c, [call[c] EXCEPT !.st = "registered"])
         /\ Unregister(c) =>
              LocalsOK(c, [call[c] EXCEPT !.st = "returned", !.chan = <<>>])
         /\ LocalsOK(c, IdleCall(c))
         /\ \A to, body, seq :
              LocalsOK(c, [IdleCall(c) EXCEPT !.st = "numbered", !.to = to,
                                              !.body = body, !.seq = seq])
<1>0. /\ LocalsOK(c, call[c]) /\ call[c] \in CallRecord /\ MaxRetries[c] \in Nat
  BY TransportAssumption DEF TransportInv, TransportTypeOK
<1>1. ASSUME Register(c)
      PROVE  LocalsOK(c, [call[c] EXCEPT !.st = "registered"])
  <2> DEFINE r == [call[c] EXCEPT !.st = "registered"]
  <2>1. /\ r.st = "registered" /\ r.seq = call[c].seq /\ r.err = call[c].err
        /\ r.resp = call[c].resp /\ r.chan = call[c].chan
        /\ r.sent = call[c].sent /\ r.attempts = call[c].attempts
    BY <1>0 DEF CallRecord
  <2> HIDE DEF r
  <2>2. LocalsOK(c, r)
    BY <1>0, <1>1, <2>1 DEF Register, LocalsOK
  <2> QED
    BY <2>2 DEF r
<1>2. ASSUME Unregister(c)
      PROVE  LocalsOK(c, [call[c] EXCEPT !.st = "returned", !.chan = <<>>])
  <2> DEFINE r == [call[c] EXCEPT !.st = "returned", !.chan = <<>>]
  <2>1. /\ r.st = "returned" /\ r.seq = call[c].seq /\ r.err = call[c].err
        /\ r.resp = call[c].resp /\ r.chan = <<>>
        /\ r.sent = call[c].sent /\ r.attempts = call[c].attempts
    BY <1>0 DEF CallRecord
  <2> HIDE DEF r
  <2>2. LocalsOK(c, r)
    BY <1>0, <1>2, <2>1 DEF Unregister, LocalsOK
  <2> QED
    BY <2>2 DEF r
<1>3. LocalsOK(c, IdleCall(c))
  BY <1>0, SMTT(30) DEF LocalsOK, IdleCall
<1>4. ASSUME NEW to, NEW body, NEW seq
      PROVE  LocalsOK(c, [IdleCall(c) EXCEPT !.st = "numbered", !.to = to,
                                             !.body = body, !.seq = seq])
  BY <1>0, SMTT(30) DEF LocalsOK, IdleCall
<1> QED
  BY <1>1, <1>2, <1>3, <1>4

\* A datagram handed to a caller is under the number of that caller's call.
LEMMA Delivered ==
  ASSUME TransportInv, NEW m \in DOMAIN net, DeliverToCaller(m)
  PROVE  NumbersOK' /\ \A d \in Caller : LocalsOK(d, call'[d])
<1> DEFINE c == Claimant(m)
<1>0. m \in Message /\ TransportTypeOK /\ NumbersOK
  BY DEF TransportInv, NumbersOK, TransportTypeOK
<1>1. c \in Caller
  BY <1>0, SMTT(30) DEF DeliverToCaller, Claimant, Message, TransportTypeOK
<1>2. Registered(c) /\ Home[c] = m.dst /\ call[c].seq = m.seq
  BY <1>0, <1>1, SMTT(30) DEF Claimant, Message, NumbersOK, SlotsMatchCalls
<1> DEFINE r == [call[c] EXCEPT !.chan = IF @ = <<>> THEN <<m>> ELSE @]
<1>3. SetCall(c, r) /\ UNCHANGED <<seqNum, pending, age>>
  BY DEF DeliverToCaller
<1> HIDE DEF c
<1>4. LocalsOK(c, call[c]) /\ call[c] \in CallRecord
  BY <1>1 DEF TransportInv, TransportTypeOK
<1>5. /\ r.st = call[c].st /\ r.seq = call[c].seq /\ r.err = call[c].err
      /\ r.resp = call[c].resp /\ r.sent = call[c].sent
      /\ r.attempts = call[c].attempts
      /\ r.chan = IF call[c].chan = <<>> THEN <<m>> ELSE call[c].chan
  BY <1>4 DEF CallRecord
<1> HIDE DEF r
<1>6. NumbersOK'
  BY <1>0, <1>1, <1>2, <1>3, <1>5, NumbersOfCall DEF Registered
<1>7. LocalsOK(c, r)
  BY <1>2, <1>4, <1>5, SMTT(30) DEF LocalsOK
<1> QED
  BY <1>1, <1>3, <1>6, <1>7, LocalsOfCall

\* A step of the network, of a handler or of Close touches no call.
LEMMA CallsUntouched ==
  ASSUME TransportInv, UNCHANGED <<seqNum, pending, call, age>>
  PROVE  NumbersOK' /\ \A d \in Caller : LocalsOK(d, call'[d])
<1>1. NumbersOK'
  BY NumbersFrame DEF TransportInv, NumbersOK, InFlight, Registered
<1> QED
  BY <1>1 DEF TransportInv

\* NewTransport establishes TransportInv.
LEMMA InvInit == TransportInit => TransportInv
<1> SUFFICES ASSUME TransportInit PROVE TransportInv
  OBVIOUS
<1>1. TransportTypeOK
  BY TypeInit
<1>2. \A c \in Caller : call[c] = IdleCall(c) /\ call[c].st = "idle"
  BY DEF TransportInit, IdleCall
<1>3. CounterAhead /\ AgesDistinct
  BY <1>2 DEF CounterAhead, AgesDistinct, InFlight
<1>4. SlotsMatchCalls
  BY <1>2, TransportAssumption DEF TransportInit, NoEntry, SlotsMatchCalls,
     Registered
<1>5. ASSUME NEW c \in Caller PROVE LocalsOK(c, IdleCall(c))
  BY TransportAssumption, SMTT(30) DEF LocalsOK, IdleCall
<1> QED
  BY <1>1, <1>2, <1>3, <1>4, <1>5 DEF TransportInv

\* Every step, of SendRequest or handleMessage or the network, keeps it.
LEMMA InvStep ==
  TransportInv /\ [TransportNext]_transportVars => TransportInv'
<1> SUFFICES ASSUME TransportInv, [TransportNext]_transportVars
             PROVE  TransportInv'
  OBVIOUS
<1> DEFINE Kept == NumbersOK' /\ \A d \in Caller : LocalsOK(d, call'[d])
<1>0. TransportTypeOK /\ NumbersOK /\ TransportTypeOK'
  BY TypeStep DEF TransportInv, NumbersOK
<1>1. ASSUME NEW c \in Caller, NEW to \in Endpoint, NEW body \in Request,
             SendRequest(c, to, body)
      PROVE  Kept
  <2> DEFINE r == [IdleCall(c) EXCEPT !.st = "numbered", !.to = to,
                                      !.body = body, !.seq = seqNum[Home[c]]]
  <2>0. LocalsOK(c, r) /\ SetCall(c, r)
    BY <1>1, LocalsMoves DEF SendRequest
  <2> HIDE DEF r
  <2>1. \A d \in Caller : LocalsOK(d, call'[d])
    BY <2>0, LocalsOfCall
  <2> QED
    BY <1>0, <1>1, <2>1, NumbersEnter
<1>2. ASSUME NEW c \in Caller, CallerStep(c)
      PROVE  Kept
  <2>1. CASE Register(c)
    <3>1. \A d \in Caller : LocalsOK(d, call'[d])
      BY <2>1, LocalsMoves, LocalsOfCall DEF Register
    <3> QED
      BY <1>0, <2>1, <3>1, NumbersRegister
  <2>2. CASE Unregister(c)
    <3>1. \A d \in Caller : LocalsOK(d, call'[d])
      BY <2>2, LocalsMoves, LocalsOfCall DEF Unregister
    <3> QED
      BY <1>0, <2>2, <3>1, NumbersUnregister
  <2> QED
    BY <1>2, <2>1, <2>2, SelectStep DEF CallerStep
<1>3. ASSUME NEW c \in Caller, Resume(c)
      PROVE  Kept
  <2>1. \A d \in Caller : LocalsOK(d, call'[d])
    BY <1>3, LocalsMoves, LocalsOfCall DEF Resume
  <2> QED
    BY <1>0, <1>3, <2>1, NumbersForget
<1>4. ASSUME NEW m \in DOMAIN net, DeliverToCaller(m)
      PROVE  Kept
  BY <1>4, Delivered
<1>5. ASSUME NEW m \in DOMAIN net, HandlerStep(m) \/ Lose(m) \/ Duplicate(m)
      PROVE  Kept
  BY <1>5, CallsUntouched
     DEF HandlerStep, HandleSilently, HandleAndAnswer, Lose, Duplicate
<1>6. ASSUME NEW e \in Endpoint, Cancel(e) \/ Close(e)
      PROVE  Kept
  BY <1>6, CallsUntouched DEF Cancel, Close
<1>7. ASSUME NEW e \in Endpoint, Restart(e)
      PROVE  Kept
  <2>1. \A d \in Caller : call'[d] = IdleCall(d) \/ call'[d] = call[d]
    BY <1>7 DEF Restart
  <2>2. \A d \in Caller : LocalsOK(d, call'[d])
    BY <2>1, LocalsMoves DEF TransportInv
  <2> QED
    BY <1>0, <1>7, <2>2, NumbersRestart
<1>8. ASSUME UNCHANGED transportVars
      PROVE  Kept
  BY <1>8, CallsUntouched DEF transportVars
<1> HIDE DEF Kept
<1>9. Kept
  BY <1>1, <1>2, <1>3, <1>4, <1>5, <1>6, <1>7, <1>8 DEF TransportNext
<1> QED
  BY <1>0, <1>9 DEF Kept, TransportInv, NumbersOK, LocalsOK

(***************************************************************************)
(* TransportInv holds in every reachable state.                            *)
(***************************************************************************)
THEOREM TransportInvariant == TransportSpec => []TransportInv
BY InvInit, InvStep, PTL DEF TransportSpec

(***************************************************************************)
(* The map of pending requests of SendRequest and its deferred delete      *)
(* holds exactly the calls in progress, whatever the size of the number    *)
(* space, as long as the counter does not go once around during a call.    *)
(***************************************************************************)
THEOREM PendingIsExact == TransportSpec => []SlotsMatchCalls
<1>1. TransportInv => SlotsMatchCalls
  BY DEF TransportInv
<1> QED
  BY <1>1, TransportInvariant, PTL

(***************************************************************************)
(* SendRequest returns either an error, or a message that handleMessage    *)
(* received for its endpoint under the number of the call.                 *)
(***************************************************************************)
THEOREM OutcomeIsSound == TransportSpec => []OutcomeSound
<1>1. TransportInv => OutcomeSound
  BY DEF TransportInv, LocalsOK, OutcomeSound
<1> QED
  BY <1>1, TransportInvariant, PTL

(***************************************************************************)
(* The retransmission loop of SendRequest puts at most maxRetries copies   *)
(* on the wire, and exactly that many before "max retries exceeded".       *)
(***************************************************************************)
THEOREM CopiesAreBounded == TransportSpec => []CopiesBounded
<1>1. TransportInv => CopiesBounded
  BY DEF TransportInv, LocalsOK, CopiesBounded
<1> QED
  BY <1>1, TransportInvariant, PTL

-----------------------------------------------------------------------------
(***************************************************************************)
(* Transport implements RemoteCall.                                        *)
(***************************************************************************)

\* What a step of c that gives it the locals r is to RemoteCall.
LEMMA RemoteOfCall ==
  ASSUME TransportTypeOK, NEW c \in Caller, NEW r, SetCall(c, r)
  PROVE  /\ CallPhase' = [CallPhase EXCEPT ![c] = Outcome(r)]
         /\ CallNumber' = [CallNumber EXCEPT ![c] = NumberHeld(r)]
         /\ CallAnswer' = [CallAnswer EXCEPT ![c] = r.resp]
BY SetCallEffect DEF TransportTypeOK, CallPhase, CallNumber, CallAnswer

\* A step that RemoteCall does not see.
LEMMA RemoteStutter ==
  ASSUME TransportTypeOK, NEW c \in Caller, NEW r, SetCall(c, r),
         Outcome(r) = Outcome(call[c]), NumberHeld(r) = NumberHeld(call[c]),
         r.resp = call[c].resp
  PROVE  UNCHANGED Remote!vars
<1>1. CallPhase' = CallPhase
  <2>1. CallPhase[c] = Outcome(r)
    BY DEF CallPhase
  <2>2. CallPhase' = [CallPhase EXCEPT ![c] = CallPhase[c]]
    BY <2>1, RemoteOfCall
  <2> QED
    BY <2>2 DEF CallPhase
<1>2. CallNumber' = CallNumber
  <2>1. CallNumber[c] = NumberHeld(r)
    BY DEF CallNumber
  <2>2. CallNumber' = [CallNumber EXCEPT ![c] = CallNumber[c]]
    BY <2>1, RemoteOfCall
  <2> QED
    BY <2>2 DEF CallNumber
<1>3. CallAnswer' = CallAnswer
  <2>1. CallAnswer[c] = r.resp
    BY DEF CallAnswer
  <2>2. CallAnswer' = [CallAnswer EXCEPT ![c] = CallAnswer[c]]
    BY <2>1, RemoteOfCall
  <2> QED
    BY <2>2 DEF CallAnswer
<1> QED
  BY <1>1, <1>2, <1>3 DEF Remote!vars

\* A return statement of SendRequest with an error decides the call.
LEMMA RemoteFail ==
  ASSUME TransportInv, NEW c \in Caller, NEW r, SetCall(c, r),
         call[c].st \in {"registered", "waiting"},
         r.st = "returning", r.seq = call[c].seq, r.resp = call[c].resp
  PROVE  Remote!Fail(c)
<1>1. call[c].resp = <<>> /\ TransportTypeOK
  BY DEF TransportInv, LocalsOK
<1>2. Outcome(call[c]) = "open" /\ Outcome(r) = "failed"
  BY <1>1 DEF Outcome
<1>3. NumberHeld(r) = NumberHeld(call[c])
  BY DEF NumberHeld
<1>4. CallNumber' = CallNumber /\ CallAnswer' = CallAnswer
  <2>1. CallNumber' = [CallNumber EXCEPT ![c] = CallNumber[c]]
    BY <1>1, <1>3, RemoteOfCall, SMTT(30) DEF CallNumber
  <2>2. CallAnswer' = [CallAnswer EXCEPT ![c] = CallAnswer[c]]
    BY <1>1, RemoteOfCall, SMTT(30) DEF CallAnswer
  <2> QED
    BY <2>1, <2>2 DEF CallNumber, CallAnswer
<1>5. CallPhase[c] = "open" /\ CallPhase' = [CallPhase EXCEPT ![c] = "failed"]
  BY <1>1, <1>2, RemoteOfCall, SMTT(30) DEF CallPhase
<1> QED
  BY <1>4, <1>5 DEF Remote!Fail

(***************************************************************************)
(* nextSeqNum hands out a number no call of the endpoint holds: the        *)
(* counter is less than once around ahead of the number of each of them.   *)
(***************************************************************************)
LEMMA RemoteOpen ==
  ASSUME TransportInv, NEW c \in Caller, NEW to \in Endpoint,
         NEW body \in Request, SendRequest(c, to, body)
  PROVE  Remote!Open(c)
<1> DEFINE e == Home[c]
           n == seqNum[e]
           r == [IdleCall(c) EXCEPT !.st = "numbered", !.to = to,
                                    !.body = body, !.seq = n]
<1>0. TransportTypeOK /\ e \in Endpoint /\ n \in SeqNums
  BY TransportAssumption DEF TransportInv, TransportTypeOK
<1>1. call[c].st = "idle" /\ SetCall(c, r)
  BY DEF SendRequest
<1>2. r.st = "numbered" /\ r.seq = n /\ r.resp = <<>>
  BY DEF IdleCall
<1> HIDE DEF n, r
<1>3. call[c].resp = <<>>
  BY <1>1 DEF TransportInv, LocalsOK
<1>4. Outcome(call[c]) = "idle" /\ Outcome(r) = "open" /\ NumberHeld(r) = n
  BY <1>1, <1>2 DEF Outcome, NumberHeld
<1>5. CallPhase[c] = "idle" /\ CallPhase' = [CallPhase EXCEPT ![c] = "open"]
  BY <1>0, <1>1, <1>4, RemoteOfCall, SMTT(30) DEF CallPhase
<1>6. CallNumber' = [CallNumber EXCEPT ![c] = n]
  BY <1>0, <1>1, <1>4, RemoteOfCall
<1>7. CallAnswer' = CallAnswer
  <2>1. CallAnswer' = [CallAnswer EXCEPT ![c] = CallAnswer[c]]
    BY <1>0, <1>1, <1>2, <1>3, RemoteOfCall, SMTT(30) DEF CallAnswer
  <2> QED
    BY <2>1 DEF CallAnswer
<1>8. ASSUME NEW d \in Caller, Home[d] = e
      PROVE  CallNumber[d] # n
  <2>1. CASE call[d].st = "idle"
    BY <1>0, <2>1, SMTT(30) DEF CallNumber, NumberHeld, SeqNums
  <2>2. CASE call[d].st # "idle"
    <3>1. call[d].seq \in SeqNums /\ age[d] \in Nat
      BY <1>0, FieldsType DEF TransportTypeOK
    <3>2. age[d] < Window
      BY <1>8, <2>2 DEF SendRequest, InFlight
    <3>3. n = Ahead(call[d].seq, age[d] + 1)
      BY <1>8, <2>2 DEF TransportInv, CounterAhead, InFlight, n
    <3>4. n # call[d].seq
      BY <3>1, <3>2, <3>3, TransportAssumption, SMTT(30) DEF Ahead, SeqNums
    <3> QED
      BY <2>2, <3>4 DEF CallNumber, NumberHeld
  <2> QED
    BY <2>1, <2>2
<1> QED
  BY <1>0, <1>5, <1>6, <1>7, <1>8 DEF Remote!Open

\* The select picks the channel: what is in it bears the call's number.
LEMMA RemoteAnswer ==
  ASSUME TransportInv, NEW c \in Caller, TakeResponse(c)
  PROVE  Remote!Answer(c)
<1> DEFINE m == call[c].chan[1]
           r == [call[c] EXCEPT !.st = "returning", !.resp = call[c].chan,
                                !.chan = <<>>]
<1>0. TransportTypeOK /\ call[c] \in CallRecord
  BY DEF TransportInv, TransportTypeOK
<1>1. /\ call[c].st = "waiting" /\ call[c].chan # <<>> /\ SetCall(c, r)
  BY DEF TakeResponse
<1>2. call[c].chan = <<m>> /\ m \in Message
  BY <1>0, <1>1, FieldsType, SMTT(30) DEF Option
<1>3. m.dst = Home[c] /\ m.seq = call[c].seq
  BY <1>1 DEF TransportInv, LocalsOK
<1>4. r.st = "returning" /\ r.resp = call[c].chan /\ r.seq = call[c].seq
  BY <1>0 DEF CallRecord
<1> HIDE DEF m, r
<1>5. Outcome(call[c]) = "open" /\ Outcome(r) = "answered"
  BY <1>1, <1>4 DEF Outcome
<1>6. CallPhase[c] = "open" /\ CallPhase' = [CallPhase EXCEPT ![c] = "answered"]
  BY <1>0, <1>1, <1>5, RemoteOfCall, SMTT(30) DEF CallPhase
<1>7. CallNumber[c] = call[c].seq /\ CallNumber' = CallNumber
  <2>1. CallNumber[c] = call[c].seq /\ NumberHeld(r) = call[c].seq
    BY <1>1, <1>4 DEF CallNumber, NumberHeld
  <2>2. CallNumber' = [CallNumber EXCEPT ![c] = CallNumber[c]]
    BY <1>0, <1>1, <2>1, RemoteOfCall
  <2> QED
    BY <2>1, <2>2 DEF CallNumber
<1>8. CallAnswer' = [CallAnswer EXCEPT ![c] = <<m>>]
  <2>1. CallAnswer' = [CallAnswer EXCEPT ![c] = r.resp]
    BY <1>0, <1>1, RemoteOfCall
  <2>2. r.resp = <<m>>
    BY <1>2, <1>4
  <2> QED
    BY <2>1, <2>2
<1> QED
  BY <1>2, <1>3, <1>6, <1>7, <1>8 DEF Remote!Answer

\* The function that called SendRequest has its outcome.
LEMMA RemoteFinish ==
  ASSUME TransportInv, NEW c \in Caller, Resume(c)
  PROVE  Remote!Finish(c)
<1>1. /\ TransportTypeOK /\ call[c].st = "returned" /\ SetCall(c, IdleCall(c))
  BY DEF TransportInv, Resume
<1>2. Outcome(call[c]) \in {"failed", "answered"}
  BY <1>1 DEF Outcome
<1>3. /\ Outcome(IdleCall(c)) = "idle" /\ NumberHeld(IdleCall(c)) = 0
      /\ IdleCall(c).resp = <<>>
  BY DEF Outcome, NumberHeld, IdleCall
<1>4. CallPhase[c] \in {"failed", "answered"}
  BY <1>2 DEF CallPhase
<1> QED
  BY <1>1, <1>3, <1>4, RemoteOfCall, SMTT(30) DEF Remote!Finish

\* The process ends, and its calls with it.
LEMMA RemoteReset ==
  ASSUME NEW e \in Endpoint, Restart(e)
  PROVE  Remote!Reset(e)
<1>1. \A c \in Caller : /\ Outcome(IdleCall(c)) = "idle"
                        /\ NumberHeld(IdleCall(c)) = 0
                        /\ IdleCall(c).resp = <<>>
  BY DEF Outcome, NumberHeld, IdleCall
<1>2. call' = [c \in Caller |-> IF Home[c] = e THEN IdleCall(c) ELSE call[c]]
  BY DEF Restart
<1>3. CallPhase' = [c \in Caller |-> IF Home[c] = e THEN "idle" ELSE CallPhase[c]]
  BY <1>1, <1>2 DEF CallPhase
<1>4. CallNumber' = [c \in Caller |-> IF Home[c] = e THEN 0 ELSE CallNumber[c]]
  BY <1>1, <1>2 DEF CallNumber
<1>5. CallAnswer' = [c \in Caller |-> IF Home[c] = e THEN <<>> ELSE CallAnswer[c]]
  BY <1>1, <1>2 DEF CallAnswer
<1> QED
  BY <1>3, <1>4, <1>5 DEF Remote!Reset

\* Every step of a goroutine in SendRequest is a step of RemoteCall or none.
LEMMA RemoteCallerStep ==
  ASSUME TransportInv, NEW c \in Caller, CallerStep(c)
  PROVE  Remote!Fail(c) \/ Remote!Answer(c) \/ UNCHANGED Remote!vars
<1>0. TransportTypeOK /\ call[c] \in CallRecord
  BY DEF TransportInv, TransportTypeOK
<1>1. CASE Register(c)
  <2> DEFINE r == [call[c] EXCEPT !.st = "registered"]
  <2>1. call[c].st = "numbered" /\ SetCall(c, r)
    BY <1>1 DEF Register
  <2>2. r.st = "registered" /\ r.seq = call[c].seq /\ r.resp = call[c].resp
    BY <1>0 DEF CallRecord
  <2> HIDE DEF r
  <2>3. Outcome(r) = Outcome(call[c]) /\ NumberHeld(r) = NumberHeld(call[c])
    BY <2>1, <2>2 DEF Outcome, NumberHeld
  <2> QED
    BY <1>0, <2>1, <2>2, <2>3, RemoteStutter
<1>2. CASE Transmit(c)
  <2> DEFINE r == [call[c] EXCEPT !.st = "waiting", !.sent = 1]
  <2>1. call[c].st = "registered" /\ SetCall(c, r)
    BY <1>2 DEF Transmit
  <2>2. r.st = "waiting" /\ r.seq = call[c].seq /\ r.resp = call[c].resp
    BY <1>0 DEF CallRecord
  <2> HIDE DEF r
  <2>3. Outcome(r) = Outcome(call[c]) /\ NumberHeld(r) = NumberHeld(call[c])
    BY <2>1, <2>2 DEF Outcome, NumberHeld
  <2> QED
    BY <1>0, <2>1, <2>2, <2>3, RemoteStutter
<1>3. CASE Retransmit(c)
  <2> DEFINE r == [call[c] EXCEPT !.attempts = @ + 1, !.sent = @ + 1]
  <2>1. SetCall(c, r)
    BY <1>3 DEF Retransmit
  <2>2. r.st = call[c].st /\ r.seq = call[c].seq /\ r.resp = call[c].resp
    BY <1>0 DEF CallRecord
  <2> HIDE DEF r
  <2>3. Outcome(r) = Outcome(call[c]) /\ NumberHeld(r) = NumberHeld(call[c])
    BY <2>2 DEF Outcome, NumberHeld
  <2> QED
    BY <1>0, <2>1, <2>2, <2>3, RemoteStutter
<1>4. CASE GiveUp(c)
  <2> DEFINE r == [call[c] EXCEPT !.st = "returning", !.attempts = @ + 1,
                                  !.err = "retries"]
  <2>1. call[c].st = "waiting" /\ SetCall(c, r)
    BY <1>4 DEF GiveUp
  <2>2. r.st = "returning" /\ r.seq = call[c].seq /\ r.resp = call[c].resp
    BY <1>0 DEF CallRecord
  <2> HIDE DEF r
  <2> QED
    BY <2>1, <2>2, RemoteFail
<1>5. CASE SendError(c)
  <2> DEFINE r == [call[c] EXCEPT !.st = "returning", !.err = "send",
                     !.attempts = IF call[c].st = "waiting" THEN @ + 1 ELSE @]
  <2>1. call[c].st \in {"registered", "waiting"} /\ SetCall(c, r)
    BY <1>5 DEF SendError
  <2>2. r.st = "returning" /\ r.seq = call[c].seq /\ r.resp = call[c].resp
    BY <1>0 DEF CallRecord
  <2> HIDE DEF r
  <2> QED
    BY <2>1, <2>2, RemoteFail
<1>6. CASE TakeResponse(c)
  BY <1>6, RemoteAnswer
<1>7. CASE TransportClosed(c)
  <2> DEFINE r == [call[c] EXCEPT !.st = "returning", !.err = "closed"]
  <2>1. call[c].st = "waiting" /\ SetCall(c, r)
    BY <1>7 DEF TransportClosed
  <2>2. r.st = "returning" /\ r.seq = call[c].seq /\ r.resp = call[c].resp
    BY <1>0 DEF CallRecord
  <2> HIDE DEF r
  <2> QED
    BY <2>1, <2>2, RemoteFail
<1>8. CASE Unregister(c)
  <2> DEFINE r == [call[c] EXCEPT !.st = "returned", !.chan = <<>>]
  <2>1. call[c].st = "returning" /\ SetCall(c, r)
    BY <1>8 DEF Unregister
  <2>2. r.st = "returned" /\ r.seq = call[c].seq /\ r.resp = call[c].resp
    BY <1>0 DEF CallRecord
  <2> HIDE DEF r
  <2>3. Outcome(r) = Outcome(call[c]) /\ NumberHeld(r) = NumberHeld(call[c])
    BY <2>1, <2>2 DEF Outcome, NumberHeld
  <2> QED
    BY <1>0, <2>1, <2>2, <2>3, RemoteStutter
<1> QED
  BY <1>1, <1>2, <1>3, <1>4, <1>5, <1>6, <1>7, <1>8 DEF CallerStep

\* NewTransport makes an initial state of RemoteCall.
LEMMA RemoteInit == TransportInit => Remote!Init
<1>1. \A c \in Caller : /\ Outcome(IdleCall(c)) = "idle"
                        /\ NumberHeld(IdleCall(c)) = 0
                        /\ IdleCall(c).resp = <<>>
  BY DEF Outcome, NumberHeld, IdleCall
<1> QED
  BY <1>1, SMTT(30)
     DEF TransportInit, Remote!Init, CallPhase, CallNumber, CallAnswer

\* Every step of the transports and the network is one of RemoteCall or none.
LEMMA RemoteStep ==
  TransportInv /\ [TransportNext]_transportVars => [Remote!Next]_(Remote!vars)
<1> SUFFICES ASSUME TransportInv, [TransportNext]_transportVars
             PROVE  Remote!Next \/ UNCHANGED Remote!vars
  OBVIOUS
<1>0. TransportTypeOK
  BY DEF TransportInv
<1>1. ASSUME NEW c \in Caller, CallerStep(c)
      PROVE  Remote!Next \/ UNCHANGED Remote!vars
  BY <1>1, RemoteCallerStep DEF Remote!Next
<1>2. ASSUME NEW c \in Caller, Resume(c)
      PROVE  Remote!Next
  BY <1>2, RemoteFinish DEF Remote!Next
<1>3. ASSUME NEW c \in Caller, NEW to \in Endpoint, NEW body \in Request,
             SendRequest(c, to, body)
      PROVE  Remote!Next
  BY <1>3, RemoteOpen DEF Remote!Next
<1>4. ASSUME NEW m \in DOMAIN net, DeliverToCaller(m)
      PROVE  UNCHANGED Remote!vars
  <2> DEFINE c == Claimant(m)
             r == [call[c] EXCEPT !.chan = IF @ = <<>> THEN <<m>> ELSE @]
  <2>1. SetCall(c, r) /\ c \in Caller
    <3>1. m.dst \in Endpoint /\ m.seq \in SeqNums
      BY <1>0 DEF TransportTypeOK, Message
    <3>2. c \in Caller
      BY <1>0, <1>4, <3>1, SMTT(30)
         DEF DeliverToCaller, Claimant, TransportTypeOK
    <3> QED
      BY <1>4, <3>2 DEF DeliverToCaller
  <2>2. r.st = call[c].st /\ r.seq = call[c].seq /\ r.resp = call[c].resp
    BY <1>0, <2>1 DEF TransportTypeOK, CallRecord
  <2> HIDE DEF r, c
  <2>3. Outcome(r) = Outcome(call[c]) /\ NumberHeld(r) = NumberHeld(call[c])
    BY <2>2 DEF Outcome, NumberHeld
  <2> QED
    BY <1>0, <2>1, <2>2, <2>3, RemoteStutter
<1>5. ASSUME call' = call
      PROVE  UNCHANGED Remote!vars
  BY <1>5 DEF Remote!vars, CallPhase, CallNumber, CallAnswer
<1>6. ASSUME NEW m \in DOMAIN net, HandlerStep(m) \/ Lose(m) \/ Duplicate(m)
      PROVE  UNCHANGED Remote!vars
  BY <1>5, <1>6
     DEF HandlerStep, HandleSilently, HandleAndAnswer, Lose, Duplicate
<1>7. ASSUME NEW e \in Endpoint, Cancel(e) \/ Close(e)
      PROVE  UNCHANGED Remote!vars
  BY <1>5, <1>7 DEF Cancel, Close
<1>8. ASSUME NEW e \in Endpoint, Restart(e)
      PROVE  Remote!Next
  BY <1>8, RemoteReset DEF Remote!Next
<1>9. CASE UNCHANGED transportVars
  BY <1>5, <1>9 DEF transportVars
<1> QED
  BY <1>1, <1>2, <1>3, <1>4, <1>6, <1>7, <1>8, <1>9 DEF TransportNext

(***************************************************************************)
(* SendRequest implements RemoteCall: an exclusive number for every call   *)
(* and one outcome, decided once, for any number of goroutines, any wrap   *)
(* of the counter and whatever the network and the peer do.                *)
(***************************************************************************)
THEOREM TransportImplementsRemoteCall == TransportSpec => ImplementsRemoteCall
BY TransportInvariant, RemoteInit, RemoteStep, PTL
   DEF TransportSpec, ImplementsRemoteCall, Remote!Spec
=============================================================================
