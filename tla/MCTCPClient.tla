---------------------------- MODULE MCTCPClient -----------------------------
\* One stream, past the limit at each byte or at the second one; two streams, of which
\* one brings a byte; two streams of a byte each which only the client ends.
EXTENDS TCPClient

Ends == {"ended", "reset"}
MCStreams ==
  { [sizes |-> <<3>>, ends |-> Ends, limit |-> 1],
    [sizes |-> <<2>>, ends |-> Ends, limit |-> 2],
    [sizes |-> <<1, 0>>, ends |-> Ends, limit |-> 1],
    [sizes |-> <<1, 1>>, ends |-> {}, limit |-> 2] }
=============================================================================
