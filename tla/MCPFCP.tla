------------------------------- MODULE MCPFCP -------------------------------
EXTENDS PFCP, TLC

CONSTANTS
  N1,          \* how often a gRPC goroutine sends a request in all
  CPRequests,  \* how many requests the control plane sends
  UPRequests   \* how many requests each user plane sends

MCHome == [c \in Caller |-> IF c \in UP THEN c ELSE CP]

MCMaxRetries == [c \in Caller |-> IF c \in Worker THEN N1 ELSE 1]

MCMaxRequests == [e \in Endpoint |-> IF e = CP THEN CPRequests ELSE UPRequests]

WorkerSymmetry == Permutations(Worker)

\* Bound: one restart, of either side, or one duplicated datagram.
OneFault ==
  \A u \in UP : restarts[CP] + restarts[u] + duplicates <= 1

=============================================================================
