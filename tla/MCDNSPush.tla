----------------------------- MODULE MCDNSPush -----------------------------
EXTENDS DNSPush, TLC
CONSTANTS q1, q2, q3, a, b
ThreeQuestions == {q1, q2, q3}
TwoQuestions == {q1, q3}
Asks == q1 :> a @@ q2 :> a @@ q3 :> b
=============================================================================
