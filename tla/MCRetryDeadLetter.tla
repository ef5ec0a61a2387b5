------------------------- MODULE MCRetryDeadLetter --------------------------
(* Small instances of RetryDeadLetter for TLC.                             *)
EXTENDS RetryDeadLetter, TLC

\* Every call of Send has a message of its own.
MCPassed == [m \in Msg |-> m]

\* A policy that reaches the cap, one that starts above it, and one whose loop
\* is empty.
MCPolicy ==
    {[maxRetries |-> 2,  base |-> 2, max |-> 3, mult |-> 2],
     [maxRetries |-> 2,  base |-> 5, max |-> 3, mult |-> 1],
     [maxRetries |-> -1, base |-> 1, max |-> 3, mult |-> 2]}

\* A wrapped BrokerError that is retryable, one that is not and has a retryable
\* cause, and an error that is none.
MCError ==
    {<<PlainError, "CONNECTION_FAILED">>, <<"HANDLER_ERROR", "CONNECTION_FAILED">>,
     <<PlainError>>}
=============================================================================
