----------------------------- MODULE MCSRPLSync -----------------------------
(* Small instances of SRPLSync for TLC.                                    *)
EXTENDS SRPLSync, TLC

CONSTANTS h1, h2

OneHost == {h1}
TwoHosts == {h1, h2}

\* One key: every update is admitted.  Two keys: the last update is signed by
\* a second client that wants the same name.
OneKey == [n \in 0 .. MaxUpdates |-> 1]
TwoKeys == [n \in 0 .. MaxUpdates |-> IF n = MaxUpdates THEN 2 ELSE 1]

\* The SRP client roams between the servers, or each has a server of its own.
Roaming == [h \in Hosts |-> E]
Separate == [h \in Hosts |-> IF h = h1 THEN {"cl"} ELSE {"sv"}]

=============================================================================
