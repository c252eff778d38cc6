----------------------------- MODULE RemoteCall -----------------------------
(***************************************************************************)
(* What SendRequest of pkg/protocol/transport.go promises to the functions *)
(* that call it, with nothing of how: no counter, no map of pending        *)
(* requests, no channel, no timer and no network.  A call holds a number   *)
(* that no other call of its endpoint holds until it is over, and it has   *)
(* one outcome, decided once: a failure, or a message addressed to the     *)
(* endpoint that bears the call's number.                                  *)
(***************************************************************************)
EXTENDS Naturals, Sequences

CONSTANTS
  Endpoint,  \* the processes
  Caller,    \* the goroutines that call
  Home,      \* Home[c] is the endpoint goroutine c runs in
  Number,    \* the numbers a call may hold; 0 is none
  Message    \* what may be an answer

VARIABLES
  phase,     \* phase[c] is "idle", "open", "failed" or "answered"
  number,    \* number[c]: the number c's call holds
  answer     \* answer[c]: empty, or one message

vars == <<phase, number, answer>>

Init ==
  /\ phase = [c \in Caller |-> "idle"]
  /\ number = [c \in Caller |-> 0]
  /\ answer = [c \in Caller |-> <<>>]

\* The call begins, under a number its endpoint does not use.
Open(c) ==
  /\ phase[c] = "idle"
  /\ phase' = [phase EXCEPT ![c] = "open"]
  /\ \E n \in Number : /\ \A d \in Caller : Home[d] = Home[c] => number[d] # n
                        /\ number' = [number EXCEPT ![c] = n]
  /\ UNCHANGED answer

\* It is decided, by a message that bears its number or by an error.
Answer(c) ==
  /\ phase[c] = "open"
  /\ phase' = [phase EXCEPT ![c] = "answered"]
  /\ \E m \in Message : /\ m.dst = Home[c]
                         /\ m.seq = number[c]
                         /\ answer' = [answer EXCEPT ![c] = <<m>>]
  /\ UNCHANGED number

Fail(c) ==
  /\ phase[c] = "open"
  /\ phase' = [phase EXCEPT ![c] = "failed"]
  /\ UNCHANGED <<number, answer>>

\* The caller has seen the outcome; the number may be used again.
Finish(c) ==
  /\ phase[c] \in {"failed", "answered"}
  /\ phase' = [phase EXCEPT ![c] = "idle"]
  /\ number' = [number EXCEPT ![c] = 0]
  /\ answer' = [answer EXCEPT ![c] = <<>>]

\* The process ends, and its calls with it.
Reset(e) ==
  LET Keep(f, none) == [c \in Caller |-> IF Home[c] = e THEN none ELSE f[c]] IN
  /\ phase' = Keep(phase, "idle")
  /\ number' = Keep(number, 0)
  /\ answer' = Keep(answer, <<>>)

Next ==
  \/ \E c \in Caller :
       Open(c) \/ Answer(c) \/ Fail(c) \/ Finish(c)
  \/ \E e \in Endpoint : Reset(e)

Spec == Init /\ [][Next]_vars
=============================================================================
