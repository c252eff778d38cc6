---------------------------- MODULE MCTransport ----------------------------
EXTENDS Transport, TLC

CONSTANTS cp, up, w1, w2

\* Two goroutines of one endpoint.
MCHome == w1 :> cp @@ w2 :> cp

\* One goroutine retransmits once, the other is configured with 0.
MCMaxRetries == w1 :> 2 @@ w2 :> 0

=============================================================================
