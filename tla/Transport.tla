------------------------------ MODULE Transport ------------------------------
(***************************************************************************)
(* The request/response layer of pkg/protocol/transport.go: every endpoint *)
(* (the control plane, each user plane) owns one Transport, with a counter *)
(* of sequence numbers, a map of pending requests and one goroutine that   *)
(* receives datagrams.  Goroutines of the endpoint, the callers, are       *)
(* inside SendRequest concurrently.  The datagrams between the endpoints   *)
(* travel over UDP: they may be reordered, duplicated, and lost.           *)
(*                                                                         *)
(* The module is complete by itself: Spec lets the applications above the  *)
(* transports send any request at any time and answer any request at most  *)
(* once per copy received.  ControlPlane and UserPlane conjoin the actions *)
(* below with the control and user plane's own state.                      *)
(***************************************************************************)
EXTENDS Naturals, Sequences, FiniteSets

CONSTANTS
  Endpoint,       \* the processes that own a Transport
  Caller,         \* the goroutines that call SendRequest
  Home,           \* Home[c] is the endpoint goroutine c runs in
  Request,        \* what a request message carries besides its header
  Response,       \* what a response message carries besides its header
  MaxSeqNum,      \* 0xFFFFFF in the code
  MaxRetries,     \* MaxRetries[c]: the maxRetries argument of c's calls
  Window,         \* at most so many numbers are issued during one call
  Unreachable,    \* destinations a send may fail for
  NoCaller,       \* the absence of an entry in a map of pending requests
  MaxInFlight,    \* bound: datagrams the network holds at a time
  MaxDuplicates,  \* bound: datagrams the network duplicates
  MaxRestarts     \* bound: crashes followed by a restart, per endpoint

(***************************************************************************)
(* A call lasts at most maxRetries * timeout, 9 seconds as configured,     *)
(* and no endpoint issues 2^24 requests in that time.                      *)
(***************************************************************************)
ASSUME TransportAssumption ==
  /\ Home \in [Caller -> Endpoint]
  /\ MaxRetries \in [Caller -> Nat]
  /\ NoCaller \notin Caller
  /\ Request # {}
  /\ MaxSeqNum \in Nat \ {0}
  /\ Window \in Nat
  /\ Window < MaxSeqNum
  /\ MaxDuplicates \in Nat
  /\ MaxRestarts \in Nat

VARIABLES
  seqNum,      \* seqNum[e]: Transport.seqNum of endpoint e
  pending,     \* pending[e][s]: the caller whose pendingRequest is at s
  call,        \* call[c]: the locals of c's SendRequest
  age,         \* age[c]: history, numbers issued by Home[c] after c's
  closed,      \* closed[e]: how far Close is
  net,         \* the bag of datagrams in flight
  duplicates,  \* how many datagrams the network duplicated
  restarts     \* restarts[e]: how many times endpoint e restarted

transportVars ==
  <<seqNum, pending, call, age, closed, net, duplicates, restarts>>

SeqNums == 1 .. MaxSeqNum

Message ==
  [src: Endpoint, dst: Endpoint, seq: SeqNums, body: Request \cup Response]

\* A Go value that may be nil, or a channel of capacity one.
Option(S) == {<<>>} \cup {<<x>> : x \in S}

(***************************************************************************)
(* Where a caller is in SendRequest: outside it; after nextSeqNum; after   *)
(* the insertion into pending; in the select loop; past a return           *)
(* statement, before the deferred delete; and past that, the result not    *)
(* yet looked at by the function that called SendRequest.                  *)
(***************************************************************************)
CallState ==
  {"idle", "numbered", "registered", "waiting", "returning", "returned"}

CallRecord ==
  [st: CallState, to: Endpoint, body: Request, seq: SeqNums,
   attempts: Nat, sent: Nat, chan: Option(Message), resp: Option(Message),
   err: {"none", "send", "closed", "retries"}]

InFlight(c) == call[c].st # "idle"
Registered(c) == call[c].st \in {"registered", "waiting", "returning"}

\* The network has a number of copies of each datagram that is under way.
EmptyNet == [m \in {} |-> 0]
InTransit(bag) == Cardinality(UNION {{m} \X (1 .. bag[m]) : m \in DOMAIN bag})

NoEntry == [s \in SeqNums |-> NoCaller]

\* A goroutine that has not called SendRequest yet; the other fields are dead.
IdleCall(c) ==
  [st |-> "idle", to |-> Home[c], body |-> CHOOSE b \in Request : TRUE,
   seq |-> 1, attempts |-> 0, sent |-> 0, chan |-> <<>>, resp |-> <<>>,
   err |-> "none"]

TransportInit ==
  /\ seqNum = [e \in Endpoint |-> 1]
  /\ pending = [e \in Endpoint |-> NoEntry]
  /\ call = [c \in Caller |-> IdleCall(c)]
  /\ age = [c \in Caller |-> 0]
  /\ closed = [e \in Endpoint |-> "open"]
  /\ net = EmptyNet
  /\ duplicates = 0
  /\ restarts = [e \in Endpoint |-> 0]

-----------------------------------------------------------------------------
(***************************************************************************)
(* SendRequest, one action per step other goroutines can observe.          *)
(***************************************************************************)

SetCall(c, locals) == call' = [call EXCEPT ![c] = locals]

\* Mutant: never wraps.
NextSeqNumUnbounded(s) == s + 1

NextSeqNum(s) == IF s + 1 > MaxSeqNum THEN 1 ELSE s + 1

\* SendRequest is entered and takes a number, under the mutex.
SendRequest(c, to, body) ==
  LET e == Home[c] IN
  /\ call[c].st = "idle"
  /\ \A d \in Caller : Home[d] = e /\ InFlight(d) => age[d] < Window
  /\ SetCall(c, [IdleCall(c) EXCEPT !.st = "numbered", !.to = to,
                                    !.body = body, !.seq = seqNum[e]])
  /\ seqNum' = [seqNum EXCEPT ![e] = NextSeqNum(@)]
  /\ age' = [d \in Caller |-> IF d = c THEN 0
                              ELSE IF Home[d] = e /\ InFlight(d)
                                   THEN age[d] + 1 ELSE age[d]]
  /\ UNCHANGED <<pending, closed, net, duplicates, restarts>>

\* The pendingRequest is put under its number, under the mutex again.
Register(c) ==
  /\ call[c].st = "numbered"
  /\ pending' = [pending EXCEPT ![Home[c]][call[c].seq] = c]
  /\ SetCall(c, [call[c] EXCEPT !.st = "registered"])
  /\ UNCHANGED <<seqNum, age, closed, net, duplicates, restarts>>

RequestOf(c) ==
  [src |-> Home[c], dst |-> call[c].to, seq |-> call[c].seq,
   body |-> call[c].body]

\* UDP: what the network has no room for is lost.
Put(bag, m) ==
  IF InTransit(bag) < MaxInFlight
  THEN [n \in DOMAIN bag \cup {m} |->
          (IF n \in DOMAIN bag THEN bag[n] ELSE 0) + (IF n = m THEN 1 ELSE 0)]
  ELSE bag

\* One copy of m is taken from the network.
Take(bag, m) ==
  [n \in {n \in DOMAIN bag : n # m \/ bag[n] > 1} |->
     IF n = m THEN bag[n] - 1 ELSE bag[n]]

\* The first send; the timer is armed and the select loop is entered.
Transmit(c) ==
  /\ call[c].st = "registered"
  /\ closed[Home[c]] # "closed"
  /\ SetCall(c, [call[c] EXCEPT !.st = "waiting", !.sent = 1])
  /\ net' = Put(net, RequestOf(c))
  /\ UNCHANGED <<seqNum, pending, age, closed, duplicates, restarts>>

\* Mutant: one retransmission too many.
RetransmitOneMore(c) ==
  /\ call[c].st = "waiting"
  /\ call[c].attempts < MaxRetries[c]
  /\ closed[Home[c]] # "closed"
  /\ SetCall(c, [call[c] EXCEPT !.attempts = @ + 1, !.sent = @ + 1])
  /\ net' = Put(net, RequestOf(c))
  /\ UNCHANGED <<seqNum, pending, age, closed, duplicates, restarts>>

\* The timer fires and attempts stays below maxRetries: sent again.
Retransmit(c) ==
  /\ call[c].st = "waiting"
  /\ call[c].attempts + 1 < MaxRetries[c]
  /\ closed[Home[c]] # "closed"
  /\ SetCall(c, [call[c] EXCEPT !.attempts = @ + 1, !.sent = @ + 1])
  /\ net' = Put(net, RequestOf(c))
  /\ UNCHANGED <<seqNum, pending, age, closed, duplicates, restarts>>

\* Mutant: the timer is not reset by a retransmission, and fires once only.
GiveUpUnlessResent(c) ==
  /\ call[c].st = "waiting"
  /\ call[c].attempts = 0
  /\ call[c].attempts + 1 >= MaxRetries[c]
  /\ SetCall(c, [call[c] EXCEPT !.st = "returning",
                                !.attempts = @ + 1, !.err = "retries"])
  /\ UNCHANGED <<seqNum, pending, age, closed, net, duplicates, restarts>>

\* The timer fires and attempts reaches maxRetries.
GiveUp(c) ==
  /\ call[c].st = "waiting"
  /\ call[c].attempts + 1 >= MaxRetries[c]
  /\ SetCall(c, [call[c] EXCEPT !.st = "returning",
                                !.attempts = @ + 1, !.err = "retries"])
  /\ UNCHANGED <<seqNum, pending, age, closed, net, duplicates, restarts>>

\* WriteToUDP fails, at the first send or at a later one.
SendError(c) ==
  /\ closed[Home[c]] = "closed" \/ call[c].to \in Unreachable
  /\ \/ call[c].st = "registered"
     \/ call[c].st = "waiting" /\ call[c].attempts + 1 < MaxRetries[c]
  /\ SetCall(c, [call[c] EXCEPT !.st = "returning", !.err = "send",
                  !.attempts = IF call[c].st = "waiting" THEN @ + 1 ELSE @])
  /\ UNCHANGED <<seqNum, pending, age, closed, net, duplicates, restarts>>

\* The select picks the response channel.
TakeResponse(c) ==
  /\ call[c].st = "waiting"
  /\ call[c].chan # <<>>
  /\ SetCall(c, [call[c] EXCEPT !.st = "returning",
                                !.resp = call[c].chan, !.chan = <<>>])
  /\ UNCHANGED <<seqNum, pending, age, closed, net, duplicates, restarts>>

\* Mutant: returns neither a message nor an error.
TransportClosedSilently(c) ==
  /\ call[c].st = "waiting"
  /\ closed[Home[c]] # "open"
  /\ SetCall(c, [call[c] EXCEPT !.st = "returning"])
  /\ UNCHANGED <<seqNum, pending, age, closed, net, duplicates, restarts>>

\* The select picks the cancelled context.
TransportClosed(c) ==
  /\ call[c].st = "waiting"
  /\ closed[Home[c]] # "open"
  /\ SetCall(c, [call[c] EXCEPT !.st = "returning", !.err = "closed"])
  /\ UNCHANGED <<seqNum, pending, age, closed, net, duplicates, restarts>>

\* Mutant: the delete is not deferred, and an error returns before it.
UnregisterAnswered(c) ==
  /\ call[c].st = "returning"
  /\ pending' = IF call[c].err = "none"
                THEN [pending EXCEPT ![Home[c]][call[c].seq] = NoCaller]
                ELSE pending
  /\ SetCall(c, [call[c] EXCEPT !.st = "returned", !.chan = <<>>])
  /\ UNCHANGED <<seqNum, age, closed, net, duplicates, restarts>>

\* Mutant: the deferred function returns a response that came too late.
UnregisterLate(c) ==
  /\ call[c].st = "returning"
  /\ pending' = [pending EXCEPT ![Home[c]][call[c].seq] = NoCaller]
  /\ SetCall(c, IF call[c].err = "retries" /\ call[c].chan # <<>>
                THEN [call[c] EXCEPT !.st = "returned", !.chan = <<>>,
                                     !.err = "none", !.resp = call[c].chan]
                ELSE [call[c] EXCEPT !.st = "returned", !.chan = <<>>])
  /\ UNCHANGED <<seqNum, age, closed, net, duplicates, restarts>>

\* The deferred delete, under the mutex; whatever entry is there goes.
Unregister(c) ==
  /\ call[c].st = "returning"
  /\ pending' = [pending EXCEPT ![Home[c]][call[c].seq] = NoCaller]
  /\ SetCall(c, [call[c] EXCEPT !.st = "returned", !.chan = <<>>])
  /\ UNCHANGED <<seqNum, age, closed, net, duplicates, restarts>>

\* The function that called SendRequest goes on with resp and err.
Resume(c) ==
  /\ call[c].st = "returned"
  /\ SetCall(c, IdleCall(c))
  /\ age' = [age EXCEPT ![c] = 0]
  /\ UNCHANGED <<seqNum, pending, closed, net, duplicates, restarts>>

-----------------------------------------------------------------------------
(***************************************************************************)
(* receiveLoop and handleMessage.  One goroutine per endpoint receives and *)
(* runs the handlers, so a handler is one step.                            *)
(***************************************************************************)

\* Between the two halves of Close the goroutine may still be reading.
Arrives(m) == m \in DOMAIN net /\ closed[m.dst] # "closed"

\* The entry a message finds is looked up by its number and nothing else.
Claimant(m) == pending[m.dst][m.seq]

\* isPending: to the caller's channel, or dropped when one is there already.
DeliverToCaller(m) ==
  /\ Arrives(m)
  /\ Claimant(m) # NoCaller
  /\ net' = Take(net, m)
  /\ SetCall(Claimant(m), [call[Claimant(m)] EXCEPT
                             !.chan = IF @ = <<>> THEN <<m>> ELSE @])
  /\ UNCHANGED <<seqNum, pending, age, closed, duplicates, restarts>>

\* No entry: the handler for the type, if one is registered, gets it.
ToHandler(m) == Arrives(m) /\ Claimant(m) = NoCaller

\* No handler for the type, or a handler that returns without answering.
HandleSilently(m) ==
  /\ ToHandler(m)
  /\ net' = Take(net, m)
  /\ UNCHANGED <<seqNum, pending, call, age, closed, duplicates, restarts>>

\* A handler that ends in SendResponse, with the number of the request.
HandleAndAnswer(m, body) ==
  /\ ToHandler(m)
  /\ net' = Put(Take(net, m),
                [src |-> m.dst, dst |-> m.src, seq |-> m.seq, body |-> body])
  /\ UNCHANGED <<seqNum, pending, call, age, closed, duplicates, restarts>>

-----------------------------------------------------------------------------
(***************************************************************************)
(* Close, the death of a process, and the network.                         *)
(***************************************************************************)

\* Close cancels the context, which the select loops see, ...
Cancel(e) ==
  /\ closed[e] = "open"
  /\ closed' = [closed EXCEPT ![e] = "cancelled"]
  /\ UNCHANGED <<seqNum, pending, call, age, net, duplicates, restarts>>

\* ... and then closes the socket, which sends and receives see.
Close(e) ==
  /\ closed[e] = "cancelled"
  /\ closed' = [closed EXCEPT ![e] = "closed"]
  /\ UNCHANGED <<seqNum, pending, call, age, net, duplicates, restarts>>

\* The process ends, at any point, and a new one makes a NewTransport.
Restart(e) ==
  /\ restarts[e] < MaxRestarts
  /\ restarts' = [restarts EXCEPT ![e] = @ + 1]
  /\ seqNum' = [seqNum EXCEPT ![e] = 1]
  /\ pending' = [pending EXCEPT ![e] = NoEntry]
  /\ call' = [c \in Caller |-> IF Home[c] = e THEN IdleCall(c) ELSE call[c]]
  /\ age' = [c \in Caller |-> IF Home[c] = e THEN 0 ELSE age[c]]
  /\ closed' = [closed EXCEPT ![e] = "open"]
  /\ UNCHANGED <<net, duplicates>>

Lose(m) ==
  /\ m \in DOMAIN net
  /\ net' = Take(net, m)
  /\ UNCHANGED <<seqNum, pending, call, age, closed, duplicates, restarts>>

Duplicate(m) ==
  /\ m \in DOMAIN net
  /\ duplicates < MaxDuplicates
  /\ duplicates' = duplicates + 1
  /\ net' = Put(net, m)
  /\ UNCHANGED <<seqNum, pending, call, age, closed, restarts>>

-----------------------------------------------------------------------------
\* What goroutine c does on its own once it is inside SendRequest.
CallerStep(c) ==
  \/ Register(c) \/ Transmit(c) \/ Retransmit(c) \/ GiveUp(c) \/ SendError(c)
  \/ TakeResponse(c) \/ TransportClosed(c) \/ Unregister(c)

HandlerStep(m) ==
  \/ HandleSilently(m)
  \/ m.body \in Request /\ \E b \in Response : HandleAndAnswer(m, b)

TransportNext ==
  \/ \E c \in Caller :
       \/ CallerStep(c)
       \/ Resume(c)
       \/ \E to \in Endpoint \ {Home[c]}, body \in Request :
            SendRequest(c, to, body)
  \/ \E m \in DOMAIN net :
       DeliverToCaller(m) \/ HandlerStep(m) \/ Lose(m) \/ Duplicate(m)
  \/ \E e \in Endpoint : Cancel(e) \/ Close(e) \/ Restart(e)

TransportSpec == TransportInit /\ [][TransportNext]_transportVars

(***************************************************************************)
(* A goroutine inside SendRequest keeps running: no lock is held across a  *)
(* blocking operation, and its timer fires.  Nothing is assumed of the     *)
(* network, of the peer or of the applications.                            *)
(***************************************************************************)
FairCallers == \A c \in Caller : WF_transportVars(CallerStep(c))

FairTransportSpec == TransportSpec /\ FairCallers

-----------------------------------------------------------------------------
\* Type correctness of the state of the transports and of the network.
TransportTypeOK ==
  /\ seqNum \in [Endpoint -> SeqNums]
  /\ pending \in [Endpoint -> [SeqNums -> Caller \cup {NoCaller}]]
  /\ call \in [Caller -> CallRecord]
  /\ age \in [Caller -> Nat]
  /\ closed \in [Endpoint -> {"open", "cancelled", "closed"}]
  /\ DOMAIN net \subseteq Message
  /\ duplicates \in 0 .. MaxDuplicates
  /\ restarts \in [Endpoint -> 0 .. MaxRestarts]

(***************************************************************************)
(* The map of pending requests is exactly the set of calls between the     *)
(* insertion in SendRequest and its deferred delete, each under its own    *)
(* number.  So no call loses its slot to a later one or to the delete of   *)
(* an earlier one although the counter wraps around, and no entry outlives *)
(* its call to swallow the datagrams that bear its number.                 *)
(***************************************************************************)
SlotsMatchCalls ==
  \A e \in Endpoint, s \in SeqNums, c \in Caller :
    pending[e][s] = c <=> Registered(c) /\ Home[c] = e /\ call[c].seq = s

(***************************************************************************)
(* A SendRequest that returns has one outcome: an error, or a message that *)
(* came to its endpoint under its number, whatever the receiving goroutine *)
(* and the timer did meanwhile.                                            *)
(***************************************************************************)
OutcomeSound ==
  \A c \in Caller : call[c].st \in {"returning", "returned"} =>
    /\ (call[c].err = "none") <=> (call[c].resp # <<>>)
    /\ call[c].resp # <<>> => /\ call[c].resp[1].dst = Home[c]
                              /\ call[c].resp[1].seq = call[c].seq

(***************************************************************************)
(* A call puts at most maxRetries copies of its request on the wire (one   *)
(* when maxRetries is 0), and has put that many there when it fails with   *)
(* "max retries exceeded": it neither gives up early nor sends on.  To the *)
(* code N1 counts transmissions; RetransmittedN1Times is what the          *)
(* documentation makes of it.                                              *)
(***************************************************************************)
CopiesBounded ==
  \A c \in Caller :
    LET most == IF MaxRetries[c] = 0 THEN 1 ELSE MaxRetries[c] IN
    /\ call[c].sent <= most
    /\ call[c].err = "retries" => call[c].sent = most

(***************************************************************************)
(* README.md:18 and cmd/pfcp-cp/main.go:24 describe N1, the maxRetries of  *)
(* a call, as "Max retransmission attempts": a SendRequest that fails with *)
(* "max retries exceeded" has sent its request and then again N1 times.    *)
(***************************************************************************)
RetransmittedN1Times ==
  \A c \in Caller :
    call[c].err = "retries" => call[c].sent = 1 + MaxRetries[c]

(***************************************************************************)
(* Every SendRequest returns, whatever the network loses and whoever       *)
(* closes the transport or answers wrongly meanwhile.                      *)
(***************************************************************************)
CallsReturn ==
  \A c \in Caller : call[c].st # "idle" ~> call[c].st \in {"returned", "idle"}

-----------------------------------------------------------------------------
(***************************************************************************)
(* The refinement: a call is open from taking its number to a return       *)
(* statement, and decided from there to the caller's next step.            *)
(***************************************************************************)
Outcome(r) ==
  CASE r.st = "idle" -> "idle"
    [] r.st \in {"returning", "returned"} ->
         IF r.resp = <<>> THEN "failed" ELSE "answered"
    [] OTHER -> "open"

NumberHeld(r) == IF r.st = "idle" THEN 0 ELSE r.seq

CallPhase == [c \in Caller |-> Outcome(call[c])]
CallNumber == [c \in Caller |-> NumberHeld(call[c])]
CallAnswer == [c \in Caller |-> call[c].resp]

Remote == INSTANCE RemoteCall WITH
  Number <- SeqNums, phase <- CallPhase, number <- CallNumber,
  answer <- CallAnswer

(***************************************************************************)
(* SendRequest with its counter, its map of pending requests, its channel  *)
(* and its timer implements RemoteCall: while the counter wraps around,    *)
(* calls interleave and late copies arrive, no two calls of an endpoint    *)
(* hold one number, and an outcome once decided is not changed by what     *)
(* comes after it.                                                         *)
(***************************************************************************)
ImplementsRemoteCall == Remote!Spec
=============================================================================
