---------------------------- MODULE MCComponents -----------------------------
EXTENDS Components

\* Of three downloads that share one place for a request one has two parts; so it is with
\* three files to send.
MCLoaderParts == [a |-> 2, b |-> 1, c |-> 1]
MCItemParts == [a |-> 2, b |-> 1, c |-> 1]

\* Each endpoint is better than the one before.
MCPriority == [ipv6 |-> 0, http |-> 1, tcp |-> 2]
=============================================================================
