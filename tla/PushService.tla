---------------------------- MODULE PushService ----------------------------
(***************************************************************************)
(* What the DNS Push client of mDNSResponder promises about each name that *)
(* clients have long-lived questions for, whatever servers, connections    *)
(* and timers it takes (DNSPush implements it).                            *)
(***************************************************************************)
CONSTANT Names

VARIABLES
  mode,    \* per name: off, waiting (for push), push or poll
  granted, \* the names the push server has accepted a subscription for
  pinned   \* the names with a cached answer that does not expire

vars == <<mode, granted, pinned>>

Init == mode = [n \in Names |-> "off"] /\ granted = {} /\ pinned = {}

\* The first question for n is opened.
Open(n) ==
  /\ mode[n] = "off"
  /\ mode' = [mode EXCEPT ![n] = "waiting"]
  /\ UNCHANGED <<granted, pinned>>

Waiting == [n \in Names |-> IF mode[n] = "off" THEN "off" ELSE "waiting"]

\* On wake every name looks for push again, and keeps what it was given.
Wake == mode' = Waiting /\ UNCHANGED <<granted, pinned>>

\* With a new DNS configuration every name starts over, without its answers.
Restart == mode' = Waiting /\ granted' \subseteq granted /\ pinned' = {}

\* The last question for n is closed: nothing that cannot expire stays behind.
Close(n) ==
  /\ mode[n] # "off"
  /\ mode' = [mode EXCEPT ![n] = "off"]
  /\ pinned' = pinned \ {n}
  /\ UNCHANGED granted

\* The push server accepts a subscription or ends one nobody relies on.
Grant(n) == granted' = granted \cup {n} /\ UNCHANGED <<mode, pinned>>
Revoke(n) == mode[n] # "push" /\ granted' = granted \ {n} /\ UNCHANGED <<mode, pinned>>

\* A name is served by push only while its subscription is granted; the answer
\* cached so far gets a last second.
Push(n) ==
  /\ mode[n] # "off" /\ n \in granted
  /\ mode' = [mode EXCEPT ![n] = "push"]
  /\ pinned' = pinned \ {n}
  /\ UNCHANGED granted

\* A grant that comes after n fell back suspends the polling for a while.
Stall(n) ==
  /\ mode[n] = "poll" /\ n \in granted
  /\ mode' = [mode EXCEPT ![n] = "waiting"]
  /\ pinned' = pinned \ {n}
  /\ UNCHANGED granted

\* A name falls back to polling.
Fall(n) ==
  /\ mode[n] # "off"
  /\ mode' = [mode EXCEPT ![n] = "poll"]
  /\ pinned' \in {pinned, pinned \ {n}}
  /\ UNCHANGED granted

\* The connection ends: every name it served falls back at once.
Lose(N) ==
  /\ granted' = {}
  /\ \A n \in Names : mode[n] = "push" => n \in N
  /\ \A n \in N : mode[n] # "off"
  /\ mode' = [n \in Names |-> IF n \in N THEN "poll" ELSE mode[n]]
  /\ pinned' = {}

\* The push server announces or withdraws a record.
Pin(n) == mode[n] # "off" /\ pinned' = pinned \cup {n} /\ UNCHANGED <<mode, granted>>
Withdraw(n) == pinned' = pinned \ {n} /\ UNCHANGED <<mode, granted>>

\* Only steps that change something here are steps of the service.
Next ==
  /\ vars' # vars
  /\ \/ \E n \in Names : \/ Open(n) \/ Close(n) \/ Push(n) \/ Stall(n) \/ Fall(n)
                         \/ Grant(n) \/ Revoke(n) \/ Pin(n) \/ Withdraw(n)
     \/ \E N \in SUBSET Names : Lose(N)
     \/ Wake \/ Restart

Spec == Init /\ [][Next]_vars
=============================================================================
