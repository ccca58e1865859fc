--------------------------- MODULE PushServiceProofs ---------------------------
(***************************************************************************)
(* DNSPush implements PushService.  Sound (DNSPushProofs) says that the    *)
(* objects of the client fit together; Serving, below, says what the names *)
(* can rely on: a subscription that was asked for, granted or is in use is *)
(* one the push server has and is not asked to end.  Together they are     *)
(* inductive, and every action is one step of the service or none.         *)
(***************************************************************************)
EXTENDS DNSPushProofs

-----------------------------------------------------------------------------
(* What the names can rely on.                                             *)

\* The push server keeps a subscription: it has it on some connection, and is not
\* asked there to end it.
Ends(m, n) == m.type = "unsubscribe" /\ m.name = n
LastsOn(p, n, a) ==
  <<a, n>> \in p.subs /\ \A j \in 1..Len(p.up) : Ends(p.up[j], n) => p.up[j].conn # a
Lasting(p, n) == \E a \in Attempts : LastsOn(p, n, a)

\* A name in use has one question that is no duplicate, and a question that
\* looks for its zone does not poll.
OnePrimary(qs) ==
  \A x, y \in Questions :
    (/\ qs[x].on /\ qs[x].dup = NoQuestion
     /\ qs[y].on /\ qs[y].dup = NoQuestion
     /\ NameOf[x] = NameOf[y]) => x = y
NotPolling(qs) == \A x \in Questions : qs[x].nta => qs[x].state # "Poll"

\* The queries of a dso_state_t belong to questions in use, requests and
\* responses are about the name of their question, and a subscription asked
\* for, granted or in use is not ended.
QueriesInUse(qs, out) ==
  \A i \in Slots : out[i] \in Questions => qs[out[i]].on /\ qs[out[i]].dup = NoQuestion
RequestsLast(out, p) ==
  \A i \in Requests(p) : out[p.up[i].slot] \in Questions =>
    /\ p.up[i].name = NameOf[out[p.up[i].slot]]
    /\ \A j \in 1..Len(p.up) : j > i => ~Ends(p.up[j], p.up[i].name)
ResponsesLast(out, p) ==
  \A i \in Responses(p) : out[p.down[i].slot] \in Questions =>
    /\ p.down[i].name = NameOf[out[p.down[i].slot]]
    /\ p.down[i].ok => Lasting(p, p.down[i].name)
PushedLast(qs, s, p) ==
  \A x \in Questions : qs[x].server = s /\ qs[x].state = "Established" => Lasting(p, NameOf[x])

Granting(qs, s, out, p) ==
  QueriesInUse(qs, out) /\ RequestsLast(out, p) /\ ResponsesLast(out, p) /\ PushedLast(qs, s, p)

\* Nothing is relied on once a pointer is bad.
Serving(S) ==
  /\ OnePrimary(S.q) /\ NotPolling(S.q)
  /\ S.bad \/ \A s \in Servers : S.dso[s].life = "live"
                                   => Granting(S.q, s, S.dso[s].out, S.peer[s])

-----------------------------------------------------------------------------
(* One server.                                                             *)

\* The questions and the table of queries change: a query that is new has a slot
\* no message has, and what is newly served by push is granted.
LEMMA GrantingTable ==
  ASSUME NEW qs, NEW qt, NEW s, NEW out, NEW o, NEW p, Granting(qs, s, out, p), Matched(out, p),
         \A i \in Slots : o[i] \in Questions =>
            (o[i] = out[i] \/ out[i] = Free) /\ qt[o[i]].on /\ qt[o[i]].dup = NoQuestion,
         \A x \in Questions : qt[x].server = s /\ qt[x].state = "Established" =>
            Lasting(p, NameOf[x]) \/ (qs[x].server = s /\ qs[x].state = "Established")
  PROVE  Granting(qt, s, o, p)
<1>1. QueriesInUse(qt, o)
  BY DEF QueriesInUse
<1>2. RequestsLast(o, p)
  <2> SUFFICES ASSUME NEW i \in Requests(p), o[p.up[i].slot] \in Questions
               PROVE  /\ p.up[i].name = NameOf[o[p.up[i].slot]]
                      /\ \A j \in 1..Len(p.up) : j > i => ~Ends(p.up[j], p.up[i].name)
    BY DEF RequestsLast
  <2>1. p.up[i].slot \in Slots /\ out[p.up[i].slot] # Free
    BY DEF Matched
  <2>2. o[p.up[i].slot] = out[p.up[i].slot]
    BY <2>1
  <2> QED BY <2>2 DEF Granting, RequestsLast
<1>3. ResponsesLast(o, p)
  <2> SUFFICES ASSUME NEW i \in Responses(p), o[p.down[i].slot] \in Questions
               PROVE  /\ p.down[i].name = NameOf[o[p.down[i].slot]]
                      /\ p.down[i].ok => Lasting(p, p.down[i].name)
    BY DEF ResponsesLast
  <2>1. p.down[i].slot \in Slots /\ out[p.down[i].slot] # Free
    BY DEF Matched
  <2>2. o[p.down[i].slot] = out[p.down[i].slot]
    BY <2>1
  <2> QED BY <2>2 DEF Granting, ResponsesLast
<1>4. PushedLast(qt, s, p)
  BY DEF PushedLast, Granting
<1> QED BY <1>1, <1>2, <1>3, <1>4 DEF Granting

\* The messages are described by where they are.
LEMMA AppendedIs ==
  ASSUME NEW X, NEW u \in Seq(X), NEW m \in X, NEW w, w = Append(u, m)
  PROVE  /\ w \in Seq(X) /\ Len(u) \in Nat /\ Len(w) = Len(u) + 1 /\ w[Len(u) + 1] = m
         /\ \A i \in 1..Len(u) : w[i] = u[i] /\ i \in 1..Len(w)
         /\ \A i \in 1..Len(w) : i \in 1..Len(u) \/ i = Len(u) + 1
  OBVIOUS

\* A message joins those on their way to the push server.  A request is about
\* its question; a subscription somebody relies on is not ended.
LEMMA GrantingSend ==
  ASSUME NEW qs, NEW s, NEW out, NEW p \in PeerRecord, Granting(qs, s, out, p), Matched(out, p),
         NEW m \in Messages, NEW r, r.up = Append(p.up, m), r.down = p.down, r.subs = p.subs,
         m.type = "subscribe" /\ out[m.slot] \in Questions => m.name = NameOf[out[m.slot]],
         m.type = "unsubscribe" =>
           /\ \A i \in Slots : out[i] \in Questions => NameOf[out[i]] # m.name
           /\ \A x \in Questions : qs[x].server = s /\ qs[x].state = "Established" => NameOf[x] # m.name
  PROVE  Granting(qs, s, out, r)
<1>1. p.up \in Seq(Messages)
  BY DEF PeerRecord
<1>2. /\ Len(p.up) \in Nat /\ Len(r.up) = Len(p.up) + 1 /\ r.up[Len(p.up) + 1] = m
      /\ \A i \in 1..Len(p.up) : r.up[i] = p.up[i] /\ i \in 1..Len(r.up)
      /\ \A i \in 1..Len(r.up) : i \in 1..Len(p.up) \/ i = Len(p.up) + 1
  BY <1>1, AppendedIs
<1>3. ASSUME NEW n, Lasting(p, n), m.type = "unsubscribe" => n # m.name PROVE Lasting(r, n)
  <2>1. PICK a \in Attempts : LastsOn(p, n, a)
    BY <1>3 DEF Lasting
  <2>2. LastsOn(r, n, a)
    BY <1>2, <1>3, <2>1 DEF LastsOn, Ends
  <2> QED BY <2>2 DEF Lasting
<1>4. PushedLast(qs, s, r)
  BY <1>3 DEF PushedLast, Granting
<1>5. ResponsesLast(out, r)
  <2> SUFFICES ASSUME NEW i \in Responses(r), out[r.down[i].slot] \in Questions
               PROVE  /\ r.down[i].name = NameOf[out[r.down[i].slot]]
                      /\ r.down[i].ok => Lasting(r, r.down[i].name)
    BY DEF ResponsesLast
  <2>1. i \in Responses(p) /\ r.down[i] = p.down[i]
    BY DEF Responses
  <2>2. p.down[i].slot \in Slots
    BY <2>1 DEF Matched
  <2>3. p.down[i].name = NameOf[out[p.down[i].slot]] /\ (p.down[i].ok => Lasting(p, p.down[i].name))
    BY <2>1 DEF Granting, ResponsesLast
  <2> QED BY <1>3, <2>1, <2>2, <2>3
<1>6. RequestsLast(out, r)
  <2> SUFFICES ASSUME NEW i \in Requests(r), out[r.up[i].slot] \in Questions
               PROVE  /\ r.up[i].name = NameOf[out[r.up[i].slot]]
                      /\ \A j \in 1..Len(r.up) : j > i => ~Ends(r.up[j], r.up[i].name)
    BY DEF RequestsLast
  <2>1. CASE i \in 1..Len(p.up)
    <3>1. i \in Requests(p) /\ r.up[i] = p.up[i]
      BY <1>2, <2>1 DEF Requests
    <3>2. p.up[i].slot \in Slots
      BY <3>1 DEF Matched
    <3>3. /\ p.up[i].name = NameOf[out[p.up[i].slot]]
          /\ \A j \in 1..Len(p.up) : j > i => ~Ends(p.up[j], p.up[i].name)
      BY <3>1 DEF Granting, RequestsLast
    <3>4. ~Ends(m, p.up[i].name)
      BY <3>1, <3>2, <3>3 DEF Ends
    <3> QED BY <1>2, <3>1, <3>3, <3>4
  <2>2. CASE i = Len(p.up) + 1
    BY <1>2, <2>2 DEF Requests
  <2> QED BY <1>2, <2>1, <2>2 DEF Requests
<1>7. QueriesInUse(qs, out)
  BY DEF Granting
<1> QED BY <1>4, <1>5, <1>6, <1>7 DEF Granting

\* The push server reads a message: what it ends nobody relies on.
LEMMA GrantingRead ==
  ASSUME NEW qs, NEW s, NEW out, NEW p \in PeerRecord, Granting(qs, s, out, p), NEW k \in DOMAIN p.up,
         NEW r, r.up = Without(p.up, k), r.down = p.down,
         \A a, n : <<a, n>> \in p.subs =>
           <<a, n>> \in r.subs \/ (Ends(p.up[k], n) /\ p.up[k].conn = a)
  PROVE  Granting(qs, s, out, r) /\ \A n : Lasting(p, n) => Lasting(r, n)
<1> DEFINE P(i) == Place(k, i)
<1>1. /\ k \in 1..Len(p.up)
      /\ \A i \in 1..Len(r.up) : r.up[i] = p.up[P(i)] /\ P(i) \in 1..Len(p.up)
      /\ \A i, j \in 1..Len(r.up) : i < j <=> P(i) < P(j)
  <2>1. p.up \in Seq(Messages)
    BY DEF PeerRecord
  <2> QED BY <2>1, WithoutIs
<1> HIDE DEF P
<1>2. ASSUME NEW n, Lasting(p, n) PROVE Lasting(r, n)
  <2>1. PICK a \in Attempts : LastsOn(p, n, a)
    BY <1>2 DEF Lasting
  <2>2. LastsOn(r, n, a)
    BY <1>1, <2>1 DEF LastsOn
  <2> QED BY <2>2 DEF Lasting
<1>3. PushedLast(qs, s, r)
  BY <1>2 DEF PushedLast, Granting
<1>4. ResponsesLast(out, r)
  BY <1>2 DEF ResponsesLast, Responses, Granting
<1>5. RequestsLast(out, r)
  <2> SUFFICES ASSUME NEW i \in Requests(r), out[r.up[i].slot] \in Questions
               PROVE  /\ r.up[i].name = NameOf[out[r.up[i].slot]]
                      /\ \A j \in 1..Len(r.up) : j > i => ~Ends(r.up[j], r.up[i].name)
    BY DEF RequestsLast
  <2>1. i \in 1..Len(r.up) /\ P(i) \in Requests(p) /\ r.up[i] = p.up[P(i)]
    BY <1>1 DEF Requests
  <2>2. /\ p.up[P(i)].name = NameOf[out[p.up[P(i)].slot]]
        /\ \A j \in 1..Len(p.up) : j > P(i) => ~Ends(p.up[j], p.up[P(i)].name)
    BY <2>1 DEF Granting, RequestsLast
  <2>3. ASSUME NEW j \in 1..Len(r.up), j > i PROVE ~Ends(r.up[j], r.up[i].name)
    <3>1. i < j /\ i \in 1..Len(r.up)
      BY <2>1, <2>3
    <3>2. P(i) < P(j) /\ P(j) \in 1..Len(p.up) /\ r.up[j] = p.up[P(j)]
      BY <1>1, <3>1
    <3>3. P(j) > P(i)
      BY <1>1, <2>1, <3>2
    <3> QED BY <2>1, <2>2, <3>2, <3>3
  <2> QED BY <2>1, <2>2, <2>3
<1>6. QueriesInUse(qs, out)
  BY DEF Granting
<1> QED BY <1>2, <1>3, <1>4, <1>5, <1>6 DEF Granting

\* A message joins those on their way to the client.
LEMMA GrantingAnswer ==
  ASSUME NEW qs, NEW s, NEW out, NEW p \in PeerRecord, Granting(qs, s, out, p), NEW m \in Answers,
         NEW r, r.up = p.up, r.subs = p.subs, r.down = Append(p.down, m),
         m.type = "response" /\ out[m.slot] \in Questions =>
           m.name = NameOf[out[m.slot]] /\ (m.ok => Lasting(p, m.name))
  PROVE  Granting(qs, s, out, r)
<1>1. \A n : Lasting(p, n) <=> Lasting(r, n)
  BY DEF Lasting, LastsOn
<1>2. PushedLast(qs, s, r)
  BY <1>1 DEF PushedLast, Granting
<1>3. RequestsLast(out, r)
  BY DEF RequestsLast, Requests, Granting
<1>4. ResponsesLast(out, r)
  <2>1. p.down \in Seq(Answers)
    BY DEF PeerRecord
  <2>2. /\ Len(p.down) \in Nat /\ r.down[Len(p.down) + 1] = m
        /\ \A i \in 1..Len(p.down) : r.down[i] = p.down[i]
        /\ \A i \in 1..Len(r.down) : i \in 1..Len(p.down) \/ i = Len(p.down) + 1
    BY <2>1, AppendedIs
  <2>3. \A i \in Responses(r) : /\ i = Len(p.down) + 1 \/ i \in Responses(p)
                                /\ i = Len(p.down) + 1 => r.down[i] = m /\ m.type = "response"
                                /\ i # Len(p.down) + 1 => r.down[i] = p.down[i]
    BY <2>2 DEF Responses
  <2> QED BY <1>1, <2>3 DEF ResponsesLast, Granting
<1>5. QueriesInUse(qs, out)
  BY DEF Granting
<1> QED BY <1>2, <1>3, <1>4, <1>5 DEF Granting

\* The client reads a message.
LEMMA GrantingHear ==
  ASSUME NEW qs, NEW s, NEW out, NEW p \in PeerRecord, Granting(qs, s, out, p), NEW k \in DOMAIN p.down,
         NEW r, r.up = p.up, r.subs = p.subs, r.down = Without(p.down, k)
  PROVE  Granting(qs, s, out, r)
<1>1. \A n : Lasting(p, n) <=> Lasting(r, n)
  BY DEF Lasting, LastsOn
<1>2. PushedLast(qs, s, r)
  BY <1>1 DEF PushedLast, Granting
<1>3. RequestsLast(out, r)
  BY DEF RequestsLast, Requests, Granting
<1>4. ResponsesLast(out, r)
  <2>1. p.down \in Seq(Answers)
    BY DEF PeerRecord
  <2>2. \A i \in 1..Len(r.down) : r.down[i] = p.down[Place(k, i)] /\ Place(k, i) \in 1..Len(p.down)
    BY <2>1, WithoutIs
  <2>3. \A i \in Responses(r) : r.down[i] = p.down[Place(k, i)] /\ Place(k, i) \in Responses(p)
    BY <2>2 DEF Responses
  <2> QED BY <1>1, <2>3 DEF ResponsesLast, Granting
<1>5. QueriesInUse(qs, out)
  BY DEF Granting
<1> QED BY <1>2, <1>3, <1>4, <1>5 DEF Granting

\* A connection ends: the messages and the subscriptions are left alone.
LEMMA GrantingClosed ==
  ASSUME NEW qs, NEW s, NEW out, NEW p, Granting(qs, s, out, p),
         NEW r, r.up = p.up, r.subs = p.subs, r.down = p.down
  PROVE  Granting(qs, s, out, r)
<1>1. \A n : Lasting(p, n) => Lasting(r, n)
  BY DEF Lasting, LastsOn
<1>2. PushedLast(qs, s, r)
  BY <1>1 DEF PushedLast, Granting
<1>3. RequestsLast(out, r)
  BY DEF RequestsLast, Requests, Granting
<1>4. ResponsesLast(out, r)
  BY <1>1 DEF ResponsesLast, Responses, Granting
<1>5. QueriesInUse(qs, out)
  BY DEF Granting
<1> QED BY <1>2, <1>3, <1>4, <1>5 DEF Granting

-----------------------------------------------------------------------------
(* The operators, for the server they are about.                           *)

\* A message is written or is not.
LEMMA WriteIs ==
  ASSUME NEW S \in States, NEW s \in Servers, NEW m
  PROVE  LET T == Write(S, s, m)
         IN  /\ T.dso = S.dso
             /\ \/ T.peer = S.peer
                \/ /\ T.peer[s].up = Append(S.peer[s].up, m)
                   /\ T.peer[s].down = S.peer[s].down /\ T.peer[s].subs = S.peer[s].subs
<1> DEFINE T == Write(S, s, m)
           r == [S.peer[s] EXCEPT !.up = Append(S.peer[s].up, m)]
<1>1. CASE ~Usable(S, s, m.conn)
  BY <1>1 DEF Write
<1>2. CASE Usable(S, s, m.conn)
  <2>1. T = [S EXCEPT !.peer = [S.peer EXCEPT ![s] = r]]
    BY <1>2 DEF Write, States
  <2>2. S.peer[s] \in PeerRecord
    BY DEF States
  <2>3. r.up = Append(S.peer[s].up, m) /\ r.down = S.peer[s].down /\ r.subs = S.peer[s].subs
    BY <2>2 DEF PeerRecord
  <2> HIDE DEF r, T
  <2>4. T.dso = S.dso /\ T.peer[s] = r
    BY <2>1 DEF States
  <2> QED BY <2>3, <2>4 DEF T
<1> QED BY <1>1, <1>2

\* A subscribe request for a question in use.
LEMMA AskGrants ==
  ASSUME NEW S \in States, NEW s \in Servers, NEW x \in Questions, NEW qs,
         Matched(S.dso[s].out, S.peer[s]), Granting(qs, s, S.dso[s].out, S.peer[s]),
         qs[x].on, qs[x].dup = NoQuestion
  PROVE  LET T == SendSubscribe(S, s, x)
         IN  Granting(qs, s, T.dso[s].out, T.peer[s])
<1> DEFINE free == {i \in Slots : S.dso[s].out[i] = Free}
           slot == Min(free)
           g == Message(S, s, "garbage", 0, NameOf[x])
           m == Message(S, s, "subscribe", slot, NameOf[x])
           W == [S EXCEPT !.dso[s].out[slot] = x]
           T == SendSubscribe(S, s, x)
           p == S.peer[s]
<1>0. S.dso[s] \in DSORecord /\ p \in PeerRecord
  BY DEF States
<1>1. CASE S.dso[s].transport = "none"
  BY <1>1 DEF SendSubscribe
<1>2. CASE S.dso[s].transport # "none" /\ free = {}
  <2>1. g \in Messages /\ g.type = "garbage"
    <3>1. 0 \in 0..MaxOutstanding
      BY PushAssumption
    <3> QED BY <3>1, MessageTyped
  <2>2. T = Write(S, s, g)
    BY <1>2 DEF SendSubscribe
  <2> HIDE DEF T, g
  <2>3. T.dso = S.dso /\ (\/ T.peer = S.peer
                          \/ /\ T.peer[s].up = Append(p.up, g)
                             /\ T.peer[s].down = p.down /\ T.peer[s].subs = p.subs)
    BY <2>2, WriteIs
  <2> QED BY <1>0, <2>1, <2>3, GrantingSend DEF T
<1>3. CASE S.dso[s].transport # "none" /\ free # {}
  <2>1. T = Write(W, s, m)
    BY <1>3 DEF SendSubscribe
  <2>2. slot \in Slots /\ S.dso[s].out[slot] = Free
    <3>1. free \in SUBSET Nat
      BY PushAssumption DEF Slots
    <3> QED BY <1>3, <3>1, MinIs
  <2>3. m \in Messages /\ m.type = "subscribe" /\ m.slot = slot /\ m.name = NameOf[x]
    <3>1. slot \in 0..MaxOutstanding
      BY <2>2, PushAssumption DEF Slots
    <3> HIDE DEF slot
    <3> QED BY <3>1, MessageTyped
  <2> HIDE DEF slot, T, m
  <2> DEFINE o == [S.dso[s].out EXCEPT ![slot] = x]
  <2>4. o \in [Slots -> Questions \cup {Free, Ignored}]
    BY <1>0, <2>2 DEF DSORecord
  <2>5. o[slot] = x /\ \A i \in Slots : o[i] = S.dso[s].out[i] \/ (i = slot /\ o[i] = x)
    BY <1>0, <2>2 DEF DSORecord
  <2>6. W \in States /\ W.dso[s].out = o /\ W.peer = S.peer
    <3>1. [S.dso[s] EXCEPT !.out = o] \in DSORecord /\ [S.dso[s] EXCEPT !.out = o].out = o
      BY <1>0, <2>4 DEF DSORecord
    <3>2. W = [S EXCEPT !.dso = [S.dso EXCEPT ![s] = [S.dso[s] EXCEPT !.out = o]]]
      OBVIOUS
    <3> HIDE DEF o, W
    <3> QED BY <3>1, <3>2 DEF States
  <2> HIDE DEF o, W
  <2>7. Granting(qs, s, o, p)
    <3>1. \A i \in Slots : o[i] \in Questions =>
            (o[i] = S.dso[s].out[i] \/ S.dso[s].out[i] = Free) /\ qs[o[i]].on /\ qs[o[i]].dup = NoQuestion
      BY <2>2, <2>5 DEF Granting, QueriesInUse
    <3> HIDE DEF p
    <3> QED BY <3>1, GrantingTable DEF p
  <2>8. Matched(o, p)
    <3>1. \A i \in Slots : o[i] = Free => S.dso[s].out[i] = Free
      BY <2>5, <2>2
    <3> QED BY <3>1, IgnoreMatched
  <2>9. T.dso = W.dso /\ (\/ T.peer = W.peer
                          \/ /\ T.peer[s].up = Append(p.up, m)
                             /\ T.peer[s].down = p.down /\ T.peer[s].subs = p.subs)
    <3>1. T.dso = W.dso /\ (\/ T.peer = W.peer
                            \/ /\ T.peer[s].up = Append(W.peer[s].up, m)
                               /\ T.peer[s].down = W.peer[s].down /\ T.peer[s].subs = W.peer[s].subs)
      BY <2>1, <2>6, WriteIs, Zenon
    <3> QED BY <2>6, <3>1
  <2>10. CASE T.peer = W.peer
    BY <2>6, <2>7, <2>9, <2>10 DEF T
  <2>11. CASE /\ T.peer[s].up = Append(p.up, m)
              /\ T.peer[s].down = p.down /\ T.peer[s].subs = p.subs
    <3>1. m.type # "unsubscribe" /\ m.name = NameOf[o[m.slot]]
      BY <2>3, <2>5
    <3>2. p \in PeerRecord
      BY <1>0
    <3> HIDE DEF p
    <3>3. Granting(qs, s, o, T.peer[s])
      BY <2>3, <2>7, <2>8, <2>11, <3>1, <3>2, GrantingSend
    <3> QED BY <2>6, <2>9, <3>3 DEF T
  <2> QED BY <2>9, <2>10, <2>11
<1> QED BY <1>1, <1>2, <1>3

\* The queries of question x are forgotten.
Ignoring(out, x) == [i \in Slots |-> IF out[i] = x THEN Ignored ELSE out[i]]

\* What UnsubscribeQuestionFromDNSPushServer says to the push server: with a
\* session it ends the subscription, and without it may do nothing.
LEMMA UnsubscribeSays ==
  ASSUME NEW S, Sound(S), NEW x \in Questions, NEW s \in Servers, S.q[x].server = s
  PROVE  LET T == Unsubscribe(S, x)
             p == S.peer[s]
             m == Message(S, s, "unsubscribe", 0, NameOf[x])
         IN  \/ T.dso[s].out = S.dso[s].out /\ T.peer = S.peer
             \/ /\ T.dso[s].out = Ignoring(S.dso[s].out, x)
                /\ \/ T.peer = S.peer
                   \/ /\ T.peer[s].up = Append(p.up, m)
                      /\ T.peer[s].down = p.down /\ T.peer[s].subs = p.subs
<1> DEFINE o == Ignoring(S.dso[s].out, x)
           ignored == [S EXCEPT !.dso[s].out = o]
           told == IF S.server[s].state \notin {"Connected", "SessionEstablished"} THEN S
                   ELSE IF S.dso[s].session THEN SendUnsubscribe(ignored, s, x) ELSE ignored
           D == Unpin([told EXCEPT !.dso[s].acts = @ \ {x}], {NameOf[x]})
           m == Message(S, s, "unsubscribe", 0, NameOf[x])
           T == Unsubscribe(S, x)
           p == S.peer[s]
<1>1. S \in States /\ S.server[s].connection /\ S.dso[s] \in DSORecord /\ p \in PeerRecord
  <2>1. 0 \notin Servers
    BY PushAssumption DEF Servers
  <2> QED BY <2>1, HolderListed, SoundParts DEF Sound
<1>0. m \in Messages
  <2>1. 0 \in 0..MaxOutstanding
    BY PushAssumption
  <2> QED BY <1>1, <2>1, MessageTyped
<1>2. o \in [Slots -> Questions \cup {Free, Ignored}]
  BY <1>1 DEF Ignoring, DSORecord
<1>3. T = ReleaseForQuestions(D, {x}, s)
  BY <1>1 DEF Unsubscribe, Ignoring
<1> HIDE DEF o, T
<1>4. /\ ignored \in States /\ ignored.dso[s].out = o /\ ignored.peer = S.peer
      /\ ignored.dso[s].connection = S.dso[s].connection
  <2>1. /\ [S.dso[s] EXCEPT !.out = o] \in DSORecord /\ [S.dso[s] EXCEPT !.out = o].out = o
        /\ [S.dso[s] EXCEPT !.out = o].connection = S.dso[s].connection
    BY <1>1, <1>2 DEF DSORecord
  <2> QED BY <1>1, <2>1 DEF States
<1> HIDE DEF ignored
<1>5. /\ told \in States
      /\ \/ told.dso[s].out = S.dso[s].out /\ told.peer = S.peer
         \/ /\ told.dso[s].out = o
            /\ \/ told.peer = S.peer
               \/ /\ told.peer[s].up = Append(p.up, m)
                  /\ told.peer[s].down = p.down /\ told.peer[s].subs = p.subs
  <2>1. CASE S.server[s].state \notin {"Connected", "SessionEstablished"}
    BY <1>1, <2>1
  <2>2. CASE S.server[s].state \in {"Connected", "SessionEstablished"} /\ S.dso[s].session
    <3>1. told = Write(ignored, s, m)
      BY <1>4, <2>2 DEF SendUnsubscribe, Message
    <3>2. m \in Messages
      BY <1>0
    <3> HIDE DEF told, m
    <3>3. told \in States
      <4>1. CASE ~Usable(ignored, s, m.conn)
        BY <1>4, <3>1, <4>1 DEF Write
      <4>2. CASE Usable(ignored, s, m.conn)
        <5>1. told = [ignored EXCEPT !.peer = [ignored.peer EXCEPT ![s] = [p EXCEPT !.up = Append(p.up, m)]]]
          <6>1. told = [ignored EXCEPT !.peer[s].up = Append(@, m)]
            BY <3>1, <4>2 DEF Write
          <6>2. told = [ignored EXCEPT !.peer = [ignored.peer EXCEPT ![s] =
                          [ignored.peer[s] EXCEPT !.up = Append(ignored.peer[s].up, m)]]]
            BY <6>1, Zenon
          <6> QED BY <1>4, <6>2
        <5>2. [p EXCEPT !.up = Append(p.up, m)] \in PeerRecord
          <6>1. p \in PeerRecord
            BY <1>1
          <6> HIDE DEF p
          <6>2. p.up \in Seq(Messages)
            BY <6>1 DEF PeerRecord
          <6>3. Append(p.up, m) \in Seq(Messages)
            BY <3>2, <6>2
          <6> QED BY <6>1, <6>3, PeerUp, Zenon
        <5> QED BY <1>4, <5>1, <5>2 DEF States
      <4> QED BY <4>1, <4>2
    <3>4. told.dso = ignored.dso
          /\ \/ told.peer = ignored.peer
             \/ /\ told.peer[s].up = Append(ignored.peer[s].up, m)
                /\ told.peer[s].down = ignored.peer[s].down /\ told.peer[s].subs = ignored.peer[s].subs
      BY <1>4, <3>1, WriteIs
    <3> QED BY <1>4, <3>3, <3>4
  <2>3. CASE S.server[s].state \in {"Connected", "SessionEstablished"} /\ ~S.dso[s].session
    BY <1>4, <2>3
  <2> QED BY <2>1, <2>2, <2>3
<1> HIDE DEF told, m
<1>6. D \in States /\ D.peer = told.peer /\ D.dso[s].out = told.dso[s].out
  <2>1. told.dso[s] \in DSORecord
    BY <1>5 DEF States
  <2>2. /\ [told.dso[s] EXCEPT !.acts = @ \ {x}] \in DSORecord
        /\ [told.dso[s] EXCEPT !.acts = @ \ {x}].out = told.dso[s].out
    BY <2>1 DEF DSORecord
  <2> QED BY <1>5, <2>2 DEF Unpin, States
<1> HIDE DEF D
<1>7. T.peer = D.peer /\ T.dso = D.dso
  BY <1>3, <1>6 DEF ReleaseForQuestions, ReleaseServer, ReleaseZone, States
<1> QED BY <1>5, <1>6, <1>7 DEF o, T, m

\* So nobody relies on what is ended.
LEMMA UnsubscribeGrants ==
  ASSUME NEW S, Sound(S), NEW x \in Questions, NEW s \in Servers, S.q[x].server = s,
         OnePrimary(S.q), Granting(S.q, s, S.dso[s].out, S.peer[s])
  PROVE  LET T == Unsubscribe(S, x)
         IN  Granting(T.q, s, T.dso[s].out, T.peer[s])
<1> DEFINE T == Unsubscribe(S, x)
           p == S.peer[s]
           out == S.dso[s].out
           o == Ignoring(out, x)
           m == Message(S, s, "unsubscribe", 0, NameOf[x])
<1>1. /\ S.q \in [Questions -> QuestionRecord] /\ p \in PeerRecord /\ Matched(out, p)
      /\ out \in [Slots -> Questions \cup {Free, Ignored}]
  BY SoundParts DEF Sound, States, DSORecord
<1>2. S.q[x].on /\ S.q[x].dup = NoQuestion /\ s # 0
  BY PushAssumption DEF Sound, Asked, Servers
<1>3. T.q = [S.q EXCEPT ![x].server = 0]
  <2>1. Dropped(S, T, x, s)
    BY <1>2, UnsubscribeDrops
  <2> QED BY <2>1 DEF Dropped
<1>4. \/ T.dso[s].out = out /\ T.peer = S.peer
      \/ /\ T.dso[s].out = o
         /\ \/ T.peer = S.peer
            \/ /\ T.peer[s].up = Append(p.up, m)
               /\ T.peer[s].down = p.down /\ T.peer[s].subs = p.subs
  BY UnsubscribeSays
<1> HIDE DEF T
<1>5. \A z \in Questions : /\ T.q[z].on = S.q[z].on /\ T.q[z].dup = S.q[z].dup
                           /\ T.q[z].state = S.q[z].state
                           /\ T.q[z].server = IF z = x THEN 0 ELSE S.q[z].server
  BY <1>1, <1>3 DEF QuestionRecord
<1>6. \A z \in Questions : T.q[z].server = s => z # x /\ S.q[z].server = s
  BY <1>2, <1>5
<1>7. \A i \in Slots : o[i] \in Questions => o[i] = out[i] /\ o[i] # x
  BY PushAssumption DEF Ignoring
<1>8. \A i \in Slots : o[i] = Free => out[i] = Free
  BY PushAssumption DEF Ignoring
<1>9. m \in Messages /\ m.type = "unsubscribe" /\ m.name = NameOf[x]
  <2>1. 0 \in 0..MaxOutstanding /\ S \in States
    BY PushAssumption DEF Sound
  <2> QED BY <2>1, MessageTyped
<1>10. QueriesInUse(S.q, out)
  BY DEF Granting
<1> HIDE DEF p, out, o, m
<1>11. Granting(T.q, s, out, p)
  <2>1. \A i \in Slots : out[i] \in Questions => T.q[out[i]].on /\ T.q[out[i]].dup = NoQuestion
    BY <1>5, <1>10 DEF QueriesInUse
  <2> QED BY <1>1, <1>5, <1>6, <2>1, GrantingTable DEF p, out
<1>12. Granting(T.q, s, o, p)
  <2>1. \A i \in Slots : o[i] \in Questions => T.q[o[i]].on /\ T.q[o[i]].dup = NoQuestion
    BY <1>5, <1>7, <1>10 DEF QueriesInUse
  <2> QED BY <1>1, <1>7, <1>11, <2>1, GrantingTable
<1>13. ASSUME NEW r, r.up = Append(p.up, m), r.down = p.down, r.subs = p.subs
       PROVE  Granting(T.q, s, o, r)
  <2>1. Matched(o, p)
    BY <1>1, <1>8, IgnoreMatched
  <2>2. \A i \in Slots : o[i] \in Questions => NameOf[o[i]] # m.name
    BY <1>2, <1>7, <1>9, <1>10 DEF OnePrimary, QueriesInUse
  <2>3. \A z \in Questions : T.q[z].server = s /\ T.q[z].state = "Established" => NameOf[z] # m.name
    <3> SUFFICES ASSUME NEW z \in Questions, T.q[z].server = s, NameOf[z] = NameOf[x] PROVE FALSE
      BY <1>9
    <3>1. z # x /\ S.q[z].server = s
      BY <1>6
    <3>2. S.q[z].on /\ S.q[z].dup = NoQuestion
      BY <1>2, <3>1 DEF Sound, Asked
    <3> QED BY <1>2, <3>1, <3>2 DEF OnePrimary
  <2>4. m.type # "subscribe"
    BY <1>9
  <2> QED BY <1>1, <1>9, <1>12, <1>13, <2>1, <2>2, <2>3, <2>4, GrantingSend
<1> QED BY <1>4, <1>11, <1>12, <1>13 DEF T, p

-----------------------------------------------------------------------------
(* How the names are served.                                               *)

\* Mode and the granted names, of a state.
InUse(qs, x) == qs[x].on /\ qs[x].dup = NoQuestion
Kind(r) == IF r.state = "Poll" THEN "poll"
           ELSE IF r.state = "Established" /\ r.server # 0 THEN "push" ELSE "waiting"
ModeIn(qs, n) ==
  LET P == {x \in Questions : qs[x].on /\ NameOf[x] = n /\ qs[x].dup = NoQuestion}
  IN  IF P = {} THEN "off"
      ELSE IF \E x \in P : qs[x].state = "Poll" THEN "poll"
      ELSE IF \E x \in P : qs[x].state = "Established" /\ qs[x].server # 0 THEN "push"
      ELSE "waiting"
Modes(qs) == [n \in Names |-> ModeIn(qs, n)]
Given(S) == {n \in Names : \E s \in Servers, a \in Attempts :
                             S.dso[s].life = "live" /\ <<a, n>> \in S.peer[s].subs}

\* The names that a push server has among its subscriptions.
Had(N) == {n \in Names : \E a \in Attempts : <<a, n>> \in N}

\* A name nobody asks for is off.
LEMMA ModeOff ==
  ASSUME NEW qs, NEW n
  PROVE  ModeIn(qs, n) = "off" <=> \A x \in Questions : InUse(qs, x) => NameOf[x] # n
  BY DEF ModeIn, InUse

\* Otherwise its primary question decides.
LEMMA ModeOn ==
  ASSUME NEW qs, OnePrimary(qs), NEW x \in Questions, InUse(qs, x)
  PROVE  ModeIn(qs, NameOf[x]) = Kind(qs[x]) /\ Kind(qs[x]) \in {"poll", "push", "waiting"}
<1> DEFINE P == {z \in Questions : qs[z].on /\ NameOf[z] = NameOf[x] /\ qs[z].dup = NoQuestion}
<1>1. P = {x}
  BY DEF OnePrimary, InUse
<1> QED BY <1>1 DEF ModeIn, Kind

\* Two states with the same primary questions, up to what Kind sees, are served
\* in the same way.
LEMMA SameModes ==
  ASSUME NEW qs, NEW qt, OnePrimary(qs), OnePrimary(qt),
         \A x \in Questions : InUse(qs, x) =>
            \E y \in Questions : InUse(qt, y) /\ NameOf[y] = NameOf[x] /\ Kind(qt[y]) = Kind(qs[x]),
         \A y \in Questions : InUse(qt, y) =>
            \E x \in Questions : InUse(qs, x) /\ NameOf[y] = NameOf[x]
  PROVE  Modes(qt) = Modes(qs)
<1> SUFFICES ASSUME NEW n \in Names PROVE ModeIn(qt, n) = ModeIn(qs, n)
  BY DEF Modes
<1>1. CASE ModeIn(qs, n) = "off"
  BY <1>1, ModeOff
<1>2. CASE ModeIn(qs, n) # "off"
  <2>1. PICK x \in Questions : InUse(qs, x) /\ NameOf[x] = n
    BY <1>2, ModeOff
  <2>2. PICK y \in Questions : InUse(qt, y) /\ NameOf[y] = n /\ Kind(qt[y]) = Kind(qs[x])
    BY <2>1
  <2> QED BY <2>1, <2>2, ModeOn
<1> QED BY <1>1, <1>2

\* One primary question changes and stays in use.
LEMMA OneQuestionModes ==
  ASSUME NEW qs, OnePrimary(qs), NEW x \in Questions, InUse(qs, x), NEW qt, InUse(qt, x),
         \A z \in Questions \ {x} : qt[z] = qs[z]
  PROVE  /\ OnePrimary(qt) /\ NameOf[x] \in Names
         /\ Modes(qs)[NameOf[x]] = Kind(qs[x]) /\ Modes(qs)[NameOf[x]] # "off"
         /\ Modes(qt) = [Modes(qs) EXCEPT ![NameOf[x]] = Kind(qt[x])]
<1>1. \A z \in Questions : InUse(qt, z) <=> InUse(qs, z)
  BY DEF InUse
<1>2. OnePrimary(qt)
  BY <1>1 DEF OnePrimary, InUse
<1>3. NameOf[x] \in Names
  BY NameTyped
<1>4. ModeIn(qs, NameOf[x]) = Kind(qs[x]) /\ Kind(qs[x]) # "off" /\ ModeIn(qt, NameOf[x]) = Kind(qt[x])
  BY <1>2, ModeOn
<1>5. ASSUME NEW n \in Names, n # NameOf[x] PROVE ModeIn(qt, n) = ModeIn(qs, n)
  <2>1. CASE ModeIn(qs, n) = "off"
    BY <1>1, <2>1, ModeOff
  <2>2. CASE ModeIn(qs, n) # "off"
    <3>1. PICK y \in Questions : InUse(qs, y) /\ NameOf[y] = n
      BY <2>2, ModeOff
    <3>2. InUse(qt, y) /\ qt[y] = qs[y]
      BY <1>1, <1>5, <3>1
    <3>3. ModeIn(qs, NameOf[y]) = Kind(qs[y])
      BY <3>1, ModeOn
    <3>4. ModeIn(qt, NameOf[y]) = Kind(qt[y])
      BY <1>2, <3>2, ModeOn
    <3> QED BY <3>1, <3>2, <3>3, <3>4
  <2> QED BY <2>1, <2>2
<1>6. Modes(qt) = [Modes(qs) EXCEPT ![NameOf[x]] = Kind(qt[x])]
  <2> DEFINE F == [Modes(qs) EXCEPT ![NameOf[x]] = Kind(qt[x])]
  <2>1. F = [n \in Names |-> IF n = NameOf[x] THEN Kind(qt[x]) ELSE ModeIn(qs, n)]
    BY DEF Modes
  <2>2. \A n \in Names : ModeIn(qt, n) = IF n = NameOf[x] THEN Kind(qt[x]) ELSE ModeIn(qs, n)
    BY <1>4, <1>5
  <2> HIDE DEF F
  <2>3. F = Modes(qt)
    BY <2>1, <2>2 DEF Modes
  <2> QED BY <2>3 DEF F
<1>7. Modes(qs)[NameOf[x]] = Kind(qs[x])
  BY <1>3, <1>4 DEF Modes
<1> QED BY <1>2, <1>3, <1>4, <1>6, <1>7

\* In a sound state only the server in use has granted anything that counts.
LEMMA OnlyLive ==
  ASSUME NEW S, Sound(S), NEW s \in Servers, S.dso[s].life = "live"
  PROVE  /\ \A t \in Servers : S.dso[t].life = "live" => t = s
         /\ Given(S) = Had(S.peer[s].subs)
         /\ \A x \in Questions : S.q[x].server # 0 => S.q[x].server = s
<1>1. ASSUME NEW t \in Servers PROVE S.dso[t].life = "live" <=> S.server[t].listed
  BY SoundParts DEF Joined
<1>2. \A t \in Servers : S.dso[t].life = "live" => t = s
  BY <1>1 DEF Sound, Single
<1>3. Given(S) = Had(S.peer[s].subs)
  BY <1>2 DEF Given, Had
<1>4. ASSUME NEW x \in Questions, S.q[x].server # 0 PROVE S.q[x].server = s
  <2>1. S.q[x].server \in Servers /\ S.server[S.q[x].server].listed
    BY <1>4, HolderListed
  <2> QED BY <1>1, <1>2, <2>1
<1> QED BY <1>2, <1>3, <1>4

\* Without one nothing is granted.
LEMMA NoneLive ==
  ASSUME NEW S, \A t \in Servers : S.dso[t].life # "live"
  PROVE  Given(S) = {}
  BY DEF Given

\* The granted names depend on the life of a dso_state_t and on its subscriptions.
LEMMA SameGiven ==
  ASSUME NEW S, NEW T,
         \A t \in Servers : /\ T.dso[t].life = "live" <=> S.dso[t].life = "live"
                            /\ S.dso[t].life = "live" => T.peer[t].subs = S.peer[t].subs
  PROVE  Given(T) = Given(S)
  BY DEF Given

\* One server is in use after the step.
LEMMA ServingAt ==
  ASSUME NEW T, Sound(T), OnePrimary(T.q), NotPolling(T.q), NEW s \in Servers, T.dso[s].life = "live",
         T.bad \/ Granting(T.q, s, T.dso[s].out, T.peer[s])
  PROVE  Serving(T)
  BY OnlyLive DEF Serving

-----------------------------------------------------------------------------
(* The steps of the service.                                               *)

\* The abstract variables, before and after a step.
LEMMA ServiceIs ==
  ASSUME NEW T \in States, Become(T)
  PROVE  /\ Service!vars = <<Modes(q), Given(Now), pinned>>
         /\ Service!vars' = <<Modes(T.q), Given(T), T.pinned>>
<1>1. Service!vars = <<Modes(q), Given(Now), pinned>>
  BY NowTyped DEF Service!vars, Modes, ModeIn, Mode, Given
<1>2. q' = T.q /\ peer' = T.peer /\ dso' = T.dso /\ pinned' = T.pinned
  BY DEF Become
<1>3. Service!vars' = <<Modes(q'),
                        {n \in Names : \E s \in Servers, a \in Attempts :
                           dso'[s].life = "live" /\ <<a, n>> \in peer'[s].subs}, pinned'>>
  BY DEF Service!vars, Modes, ModeIn, Mode
<1> QED BY <1>1, <1>2, <1>3 DEF Given

\* The service does not notice.
LEMMA Unnoticed ==
  ASSUME NEW T \in States, Become(T), Modes(T.q) = Modes(q), Given(T) = Given(Now), T.pinned = pinned
  PROVE  [Service!Next]_(Service!vars)
  BY ServiceIs

\* A name falls back to polling.
LEMMA FallStep ==
  ASSUME NEW T \in States, Become(T), NEW n \in Names, Modes(q)[n] # "off",
         Modes(T.q) = [Modes(q) EXCEPT ![n] = "poll"], Given(T) = Given(Now),
         T.pinned \in {pinned, pinned \ {n}}
  PROVE  [Service!Next]_(Service!vars)
<1>1. SUFFICES ASSUME Service!vars' # Service!vars PROVE Service!Next
  BY DEF Service!Next
<1>2. Service!Fall(n)
  BY ServiceIs DEF Service!Fall, Service!vars
<1> QED BY <1>1, <1>2 DEF Service!Next

\* The first question for a name is opened.
LEMMA OpenStep ==
  ASSUME NEW T \in States, Become(T), NEW n \in Names, Modes(q)[n] = "off",
         Modes(T.q) = [Modes(q) EXCEPT ![n] = "waiting"], Given(T) = Given(Now), T.pinned = pinned
  PROVE  [Service!Next]_(Service!vars)
<1>1. SUFFICES ASSUME Service!vars' # Service!vars PROVE Service!Next
  BY DEF Service!Next
<1>2. Service!Open(n)
  BY ServiceIs DEF Service!Open, Service!vars
<1> QED BY <1>1, <1>2 DEF Service!Next

\* The last one is closed.
LEMMA CloseStep ==
  ASSUME NEW T \in States, Become(T), NEW n \in Names, Modes(q)[n] # "off",
         Modes(T.q) = [Modes(q) EXCEPT ![n] = "off"], Given(T) = Given(Now), T.pinned = pinned \ {n}
  PROVE  [Service!Next]_(Service!vars)
<1>1. SUFFICES ASSUME Service!vars' # Service!vars PROVE Service!Next
  BY DEF Service!Next
<1>2. Service!Close(n)
  BY ServiceIs DEF Service!Close, Service!vars
<1> QED BY <1>1, <1>2 DEF Service!Next

\* A name is served by push.
LEMMA PushStep ==
  ASSUME NEW T \in States, Become(T), NEW n \in Names, Modes(q)[n] # "off", n \in Given(Now),
         Modes(T.q) = [Modes(q) EXCEPT ![n] = "push"], Given(T) = Given(Now), T.pinned = pinned \ {n}
  PROVE  [Service!Next]_(Service!vars)
<1>1. SUFFICES ASSUME Service!vars' # Service!vars PROVE Service!Next
  BY DEF Service!Next
<1>2. Service!Push(n)
  BY ServiceIs DEF Service!Push, Service!vars
<1> QED BY <1>1, <1>2 DEF Service!Next

\* A grant suspends the polling.
LEMMA StallStep ==
  ASSUME NEW T \in States, Become(T), NEW n \in Names, Modes(q)[n] = "poll", n \in Given(Now),
         Modes(T.q) = [Modes(q) EXCEPT ![n] = "waiting"], Given(T) = Given(Now), T.pinned = pinned \ {n}
  PROVE  [Service!Next]_(Service!vars)
<1>1. SUFFICES ASSUME Service!vars' # Service!vars PROVE Service!Next
  BY DEF Service!Next
<1>2. Service!Stall(n)
  BY ServiceIs DEF Service!Stall, Service!vars
<1> QED BY <1>1, <1>2 DEF Service!Next

\* The push server grants a subscription, or ends one.
LEMMA GrantStep ==
  ASSUME NEW T \in States, Become(T), NEW n \in Names, Modes(T.q) = Modes(q), T.pinned = pinned,
         \/ Given(T) = Given(Now) \cup {n}
         \/ Given(T) = Given(Now) \ {n} /\ Modes(q)[n] # "push"
  PROVE  [Service!Next]_(Service!vars)
<1>1. SUFFICES ASSUME Service!vars' # Service!vars PROVE Service!Next
  BY DEF Service!Next
<1>2. Service!Grant(n) \/ Service!Revoke(n)
  BY ServiceIs DEF Service!Grant, Service!Revoke, Service!vars
<1> QED BY <1>1, <1>2 DEF Service!Next

\* A record is announced or withdrawn.
LEMMA PinStep ==
  ASSUME NEW T \in States, Become(T), NEW n \in Names, Modes(T.q) = Modes(q), Given(T) = Given(Now),
         T.pinned = pinned \ {n} \/ (T.pinned = pinned \cup {n} /\ Modes(q)[n] # "off")
  PROVE  [Service!Next]_(Service!vars)
<1>1. SUFFICES ASSUME Service!vars' # Service!vars PROVE Service!Next
  BY DEF Service!Next
<1>2. Service!Pin(n) \/ Service!Withdraw(n)
  BY ServiceIs DEF Service!Pin, Service!Withdraw, Service!vars
<1> QED BY <1>1, <1>2 DEF Service!Next

\* Every name in use looks for push again.
WaitingAgain(m) == [n \in Names |-> IF m[n] = "off" THEN "off" ELSE "waiting"]

\* That is a wakeup, or a new configuration.
LEMMA AgainStep ==
  ASSUME NEW T \in States, Become(T), Modes(T.q) = WaitingAgain(Modes(q)),
         \/ Given(T) = Given(Now) /\ T.pinned = pinned
         \/ Given(T) \subseteq Given(Now) /\ T.pinned = {}
  PROVE  [Service!Next]_(Service!vars)
<1>1. SUFFICES ASSUME Service!vars' # Service!vars PROVE Service!Next
  BY DEF Service!Next
<1>2. Service!Wake \/ Service!Restart
  BY ServiceIs DEF Service!Wake, Service!Restart, Service!Waiting, Service!vars, WaitingAgain
<1> QED BY <1>1, <1>2 DEF Service!Next

\* The connection ends, with the names N.
Lost(m, k, N) ==
  /\ N \in SUBSET Names
  /\ \A n \in Names : m[n] = "push" => n \in N
  /\ \A n \in N : m[n] # "off"
  /\ k = [n \in Names |-> IF n \in N THEN "poll" ELSE m[n]]

\* They fall back, and the cache keeps nothing permanent.
LEMMA LoseStep ==
  ASSUME NEW T \in States, Become(T), NEW N, Lost(Modes(q), Modes(T.q), N),
         Given(T) = {}, T.pinned = {}
  PROVE  [Service!Next]_(Service!vars)
<1>1. SUFFICES ASSUME Service!vars' # Service!vars PROVE Service!Next
  BY DEF Service!Next
<1>2. Service!Lose(N) /\ N \in SUBSET Names
  BY ServiceIs DEF Service!Lose, Service!vars, Lost
<1> QED BY <1>1, <1>2 DEF Service!Next

-----------------------------------------------------------------------------
(* The operators, for the names.                                           *)

\* DNSPushServerCancel: the names of its holders fall back, and nothing is granted.
LEMMA CancelServes ==
  ASSUME NEW S, Sound(S), OnePrimary(S.q), NotPolling(S.q), NEW s \in Servers, S.server[s].listed
  PROVE  LET T == DNSPushServerCancel(S, s)
             N == {NameOf[y] : y \in Holders(S, s)}
         IN  /\ Sound(T) /\ Serving(T) /\ Given(T) = {} /\ T.pinned = {}
             /\ Lost(Modes(S.q), Modes(T.q), N)
<1> DEFINE T == DNSPushServerCancel(S, s)
           H == Holders(S, s)
           N == {NameOf[y] : y \in H}
<1>1. Sound(T) /\ Cancelled(S, T, s)
  BY CancelSound
<1> HIDE DEF T
<1>2. S.q \in [Questions -> QuestionRecord] /\ H \subseteq Questions
  BY DEF Sound, States, Holders
<1>3. \A y \in Questions :
         /\ T.q[y].on = S.q[y].on /\ T.q[y].dup = S.q[y].dup
         /\ y \in H => T.q[y].server = 0 /\ T.q[y].state = "Poll" /\ ~T.q[y].nta
         /\ y \notin H => T.q[y] = S.q[y]
  <2> TAKE y \in Questions
  <2>1. S.q[y] \in QuestionRecord
    BY <1>2
  <2>2. CASE y \in H
    <3>1. T.q[y] = [S.q[y] EXCEPT !.server = 0, !.state = "Poll", !.nta = FALSE]
      BY <1>1, <2>2 DEF Cancelled
    <3> QED BY <2>1, <2>2, <3>1 DEF QuestionRecord
  <2>3. CASE y \notin H
    BY <1>1, <2>3 DEF Cancelled
  <2> QED BY <2>2, <2>3
<1>4. ASSUME NEW t \in Servers PROVE T.dso[t].life # "live"
  <2>1. CASE t = s
    <3>1. ~T.server[s].listed
      BY <1>1 DEF Cancelled
    <3>2. T.dso[s].life = "live" <=> T.server[s].listed
      BY <1>1, SoundParts DEF Joined
    <3> QED BY <2>1, <3>1, <3>2
  <2>2. CASE t # s
    <3>1. ~S.server[t].listed
      BY <2>2 DEF Sound, Single
    <3>2. S.dso[t].life = "live" <=> S.server[t].listed
      BY SoundParts DEF Joined
    <3> QED BY <1>1, <2>2, <3>1, <3>2 DEF Cancelled
  <2> QED BY <2>1, <2>2
<1>5. OnePrimary(T.q)
  BY <1>3 DEF OnePrimary
<1>6. NotPolling(T.q)
  BY <1>3 DEF NotPolling
<1>7. Serving(T)
  BY <1>4, <1>5, <1>6 DEF Serving
<1>8. Given(T) = {}
  BY <1>4, NoneLive
<1>9. ASSUME NEW y \in Questions, S.q[y].server # 0 PROVE y \in H
  <2>1. S.q[y].server \in Servers /\ S.server[S.q[y].server].listed
    BY <1>9, HolderListed
  <2> QED BY <2>1 DEF Sound, Single, Holders
<1>10. ASSUME NEW y \in H PROVE InUse(S.q, y)
  <2>1. S.q[y].server # 0
    BY PushAssumption DEF Holders, Servers
  <2> QED BY <1>2, <2>1 DEF Sound, Asked, InUse
<1>11. T.pinned = {}
  <2>1. T.pinned = S.pinned \ N
    BY <1>1 DEF Cancelled
  <2>2. ASSUME NEW n \in S.pinned PROVE n \in N
    BY <1>9 DEF Sound, Backed
  <2> QED BY <2>1, <2>2
<1> HIDE DEF H
<1>12. \A y \in Questions : InUse(T.q, y) <=> InUse(S.q, y)
  BY <1>3 DEF InUse
<1>13. ASSUME NEW n \in Names
       PROVE  /\ n \in N => ModeIn(S.q, n) # "off" /\ ModeIn(T.q, n) = "poll"
              /\ n \notin N => ModeIn(S.q, n) # "push" /\ ModeIn(T.q, n) = ModeIn(S.q, n)
  <2>1. CASE n \in N
    <3>1. PICK y \in H : n = NameOf[y]
      BY <2>1
    <3>2. InUse(S.q, y) /\ InUse(T.q, y) /\ y \in Questions
      BY <1>2, <1>10, <1>12
    <3>3. ModeIn(T.q, n) = Kind(T.q[y])
      BY <1>5, <3>1, <3>2, ModeOn
    <3>4. ModeIn(S.q, n) # "off"
      BY <3>1, <3>2, ModeOff
    <3>5. Kind(T.q[y]) = "poll"
      BY <1>3, <3>2 DEF Kind
    <3> QED BY <2>1, <3>3, <3>4, <3>5
  <2>2. CASE n \notin N /\ ModeIn(S.q, n) = "off"
    BY <1>12, <2>2, ModeOff
  <2>3. CASE n \notin N /\ ModeIn(S.q, n) # "off"
    <3>1. PICK y \in Questions : InUse(S.q, y) /\ NameOf[y] = n
      BY <2>3, ModeOff
    <3>2. y \notin H /\ S.q[y].server = 0 /\ T.q[y] = S.q[y] /\ InUse(T.q, y)
      BY <1>3, <1>9, <1>12, <2>3, <3>1
    <3>3. ModeIn(S.q, n) = Kind(S.q[y]) /\ Kind(S.q[y]) # "push"
      BY <3>1, <3>2, ModeOn DEF Kind
    <3>4. ModeIn(T.q, n) = Kind(T.q[y])
      BY <1>5, <3>1, <3>2, ModeOn
    <3> QED BY <2>3, <3>2, <3>3, <3>4
  <2> QED BY <2>1, <2>2, <2>3
<1>14. N \in SUBSET Names
  BY <1>2, NameTyped
<1> HIDE DEF N
<1>15. Lost(Modes(S.q), Modes(T.q), N)
  BY <1>13, <1>14 DEF Lost, Modes
<1> QED BY <1>1, <1>7, <1>8, <1>11, <1>15 DEF T, N, H

-----------------------------------------------------------------------------
(* The actions.                                                            *)

\* What is shown of each action: the names can go on relying on what they relied
\* on, and the service takes one of its steps or does not notice.
LEMMA Served ==
  ASSUME NEW T, Sound(T), Serving(T), Become(T)
  PROVE  Serving(Now)'
  BY BecomeIs DEF Sound

\* The service sees the questions, the dso_state_t objects, the push server and the cache.
Alike(S, T) ==
  T.q = S.q /\ T.dso = S.dso /\ T.peer = S.peer /\ T.pinned = S.pinned /\ T.bad = S.bad

\* A step that changes nothing of that.
LEMMA AlikeServes ==
  ASSUME Serving(Now), NEW T, Sound(T), Become(T), Alike(Now, T)
  PROVE  Serving(Now)' /\ [Service!Next]_(Service!vars)
<1>1. Serving(T)
  BY DEF Serving, Alike
<1>2. T \in States
  BY DEF Sound
<1>3. Modes(T.q) = Modes(q) /\ Given(T) = Given(Now) /\ T.pinned = pinned
  BY NowTyped DEF Alike, Given
<1> QED BY <1>1, <1>2, <1>3, Served, Unnoticed

\* A step that gives up the server in use.
LEMMA CancelStep ==
  ASSUME NEW S, Sound(S), OnePrimary(S.q), NotPolling(S.q), Modes(S.q) = Modes(q),
         NEW s \in Servers, S.server[s].listed, Become(DNSPushServerCancel(S, s))
  PROVE  Serving(Now)' /\ [Service!Next]_(Service!vars)
<1> DEFINE T == DNSPushServerCancel(S, s)
           N == {NameOf[y] : y \in Holders(S, s)}
<1>1. Sound(T) /\ Serving(T) /\ Given(T) = {} /\ T.pinned = {} /\ Lost(Modes(q), Modes(T.q), N)
  BY CancelServes
<1>2. T \in States
  BY <1>1 DEF Sound
<1> HIDE DEF T, N
<1> QED BY <1>1, <1>2, Served, LoseStep DEF T

\* dso_connect_internal changes nothing of that either, or gives up the server.
LEMMA ConnectInternalIs ==
  ASSUME NEW S, Sound(S), NEW s \in Servers, S.connect[s].life = "live"
  PROVE  \/ Alike(S, ConnectInternal(S, s))
         \/ ConnectInternal(S, s) = DNSPushServerCancel(S, s) /\ S.server[s].listed
<1> DEFINE c == S.connect[s]
<1>1. S \in States
  BY DEF Sound
<1>2. CASE c.queue > 0
  <2> DEFINE d == [c EXCEPT !.queue = @ - 1, !.tried = @ + 1, !.connecting = TRUE,
                            !.current = c.tried + 1, !.nw[c.tried + 1] = "starting",
                            !.last_event = TRUE]
  <2>1. ConnectInternal(S, s) = PutConnect(S, s, d)
    BY <1>1, <1>2 DEF ConnectInternal, PutConnect
  <2> HIDE DEF d
  <2> QED BY <1>1, <2>1 DEF PutConnect, Alike, States
<1>3. CASE ~(c.queue > 0) /\ c.lookup
  BY <1>1, <1>3 DEF ConnectInternal, Alike, States
<1>4. CASE ~(c.queue > 0) /\ ~c.lookup
  <2>1. S.server[s].listed
    BY SoundParts DEF Joined
  <2> QED BY <1>4, <2>1 DEF ConnectInternal
<1> QED BY <1>2, <1>3, <1>4

\* A step of the connection attempts: S is the current state but for them.
LEMMA AttemptServes ==
  ASSUME Serving(Now), NEW S, Sound(S), Alike(Now, S), NEW s \in Servers, S.connect[s].life = "live",
         Become(S) \/ Become(ConnectInternal(S, s))
  PROVE  Serving(Now)' /\ [Service!Next]_(Service!vars)
<1>1. CASE Become(S)
  BY <1>1, AlikeServes
<1>2. CASE Become(ConnectInternal(S, s))
  <2> DEFINE T == ConnectInternal(S, s)
  <2>1. Sound(T)
    BY ConnectInternalSound
  <2>2. CASE Alike(S, T)
    <3>1. Alike(Now, T)
      BY <2>2 DEF Alike
    <3> HIDE DEF T
    <3> QED BY <1>2, <2>1, <3>1, AlikeServes DEF T
  <2>3. CASE T = DNSPushServerCancel(S, s) /\ S.server[s].listed
    <3>1. OnePrimary(S.q) /\ NotPolling(S.q) /\ Modes(S.q) = Modes(q)
      BY NowTyped DEF Serving, Alike
    <3>2. Become(DNSPushServerCancel(S, s))
      BY <1>2, <2>3
    <3> QED BY <2>3, <3>1, <3>2, CancelStep
  <2> QED BY <2>2, <2>3, ConnectInternalIs
<1> QED BY <1>1, <1>2

\* A replaced connect record is not seen.
LEMMA PutConnectAlike ==
  ASSUME NEW S \in States, NEW s \in Servers, NEW c
  PROVE  Alike(S, PutConnect(S, s, c))
  BY DEF PutConnect, Alike, States

\* A lookup result, or its end.
LEMMA AddressCallbackServes ==
  ASSUME Sound(Now), Serving(Now), NEW s \in Servers, AddressCallback(s)
  PROVE  Serving(Now)' /\ [Service!Next]_(Service!vars)
<1> DEFINE c == connect[s]
           seen == [Now EXCEPT !.connect[s].last_event = TRUE]
           With(n) == [seen EXCEPT !.connect[s].queue = n]
           Changed(n) == IF c.connecting THEN With(n) ELSE ConnectInternal(With(n), s)
<1>1. Now \in States /\ Now.connect[s] = c
  BY NowTyped DEF Sound
<1>2. c \in ConnectRecord /\ Quiet(dso[s], c, peer[s])
  BY SoundParts, NowTyped
<1>3. c.life = "live" /\ c.lookup /\ c.queue + c.tried <= MaxAddresses /\ c.queue \in Nat /\ c.tried \in Nat
  BY <1>2 DEF AddressCallback, Quiet, ConnectRecord
<1>4. ASSUME NEW n \in Nat, n + c.tried <= MaxAddresses
      PROVE  Sound(With(n)) /\ Alike(Now, With(n)) /\ With(n).connect[s].life = "live"
  <2> DEFINE e == [c EXCEPT !.last_event = TRUE, !.queue = n]
             S == With(n)
  <2>1. S = PutConnect(Now, s, e)
    BY <1>1 DEF PutConnect, States
  <2>2. e \in ConnectRecord /\ e.life = c.life /\ e.queue = n /\ e.tried = c.tried
    BY <1>2 DEF ConnectRecord
  <2> HIDE DEF e, c, S
  <2>3. Sound(PutConnect(Now, s, e)) /\ Alike(Now, PutConnect(Now, s, e))
    BY <1>1, <1>3, <1>4, <2>2, ConnectSound, PutConnectAlike
  <2>4. S.connect[s] = e
    BY <1>1, <2>1, <2>2, PutConnectIs, Zenon
  <2> QED BY <1>3, <2>1, <2>2, <2>3, <2>4 DEF S
<1>5. Sound(seen) /\ Alike(Now, seen) /\ seen.connect[s].life = "live"
  <2> DEFINE e == [c EXCEPT !.last_event = TRUE]
  <2>1. seen = PutConnect(Now, s, e)
    BY <1>1 DEF PutConnect, States
  <2>2. e \in ConnectRecord /\ e.life = c.life /\ e.queue = c.queue /\ e.tried = c.tried
    BY <1>2 DEF ConnectRecord
  <2> HIDE DEF e, c, seen
  <2>3. Sound(PutConnect(Now, s, e)) /\ Alike(Now, PutConnect(Now, s, e))
    BY <1>1, <1>3, <2>2, ConnectSound, PutConnectAlike
  <2>4. seen.connect[s] = e
    BY <1>1, <2>1, <2>2, PutConnectIs, Zenon
  <2> QED BY <1>3, <2>1, <2>2, <2>3, <2>4
<1>6. ASSUME NEW n \in Nat, n + c.tried <= MaxAddresses, Become(Changed(n))
      PROVE  Serving(Now)' /\ [Service!Next]_(Service!vars)
  <2> DEFINE S == With(n)
  <2>1. Sound(S) /\ Alike(Now, S) /\ S.connect[s].life = "live"
    BY <1>4, <1>6
  <2>2. Become(S) \/ Become(ConnectInternal(S, s))
    BY <1>6
  <2> HIDE DEF S
  <2> QED BY <2>1, <2>2, AttemptServes
<1> HIDE DEF Changed, seen
<1>7. CASE Become(seen)
  BY <1>5, <1>7, AttemptServes
<1>8. CASE c.tried + c.queue = 0 /\ Become(Changed(1))
  <2>1. 1 \in Nat /\ 1 + c.tried <= MaxAddresses
    BY <1>3, <1>8, PushAssumption
  <2> QED BY <1>6, <1>8, <2>1
<1>9. CASE c.tried + c.queue \in 1..MaxAddresses - 1 /\ Become(Changed(c.queue + 1))
  <2>1. c.queue + 1 \in Nat /\ c.queue + 1 + c.tried <= MaxAddresses
    BY <1>3, <1>9, PushAssumption
  <2> QED BY <1>6, <1>9, <2>1
<1>10. CASE c.queue > 0 /\ Become(Changed(c.queue - 1))
  <2>1. c.queue - 1 \in Nat /\ c.queue - 1 + c.tried <= MaxAddresses
    BY <1>3, <1>10, PushAssumption
  <2> QED BY <1>6, <1>10, <2>1
<1>11. CASE c.tried > 0 /\ Become(Changed(c.queue))
  BY <1>3, <1>6, <1>11
<1> QED BY <1>7, <1>8, <1>9, <1>10, <1>11 DEF AddressCallback, Changed, seen

\* An attempt waits.
LEMMA ConnectionWaitingServes ==
  ASSUME Sound(Now), Serving(Now), NEW s \in Servers, NEW a \in Attempts, ConnectionWaiting(s, a)
  PROVE  Serving(Now)' /\ [Service!Next]_(Service!vars)
<1>1. UNCHANGED <<q, dso, peer, pinned, bad>>
  BY DEF ConnectionWaiting
<1>2. Serving(Now)'
  BY <1>1, NowTyped DEF Serving, Now
<1>3. UNCHANGED Service!vars
  BY <1>1 DEF Service!vars, Mode
<1> QED BY <1>2, <1>3

\* The server is given up: after 90 seconds, or when the read fails.
LEMMA GivesUpServes ==
  ASSUME Sound(Now), Serving(Now), NEW s \in Servers, ConnectTimeout(s) \/ ReadFails(s)
  PROVE  Serving(Now)' /\ [Service!Next]_(Service!vars)
<1>1. Become(DNSPushServerCancel(Now, s))
  BY DEF ConnectTimeout, ReadFails
<1>2. /\ Quiet(dso[s], connect[s], peer[s]) /\ connect[s] \in ConnectRecord
      /\ Joined(server[s], dso[s], connect[s], Holders(Now, s))
  BY SoundParts, NowTyped
<1>3. Now.server[s].listed
  BY <1>2, NowTyped DEF ConnectTimeout, ReadFails, Quiet, Joined
<1>4. OnePrimary(Now.q) /\ NotPolling(Now.q) /\ Modes(Now.q) = Modes(q)
  BY NowTyped DEF Serving
<1> QED BY <1>1, <1>3, <1>4, CancelStep

\* The state handler of a failed attempt takes it off the connect record.
LEMMA ConnectionFailedIs ==
  ASSUME Sound(Now), NEW s \in Servers, NEW a \in Attempts, ConnectionFailed(s, a)
  PROVE  \E S : /\ Sound(S) /\ Alike(Now, S) /\ S.connect[s].life = "live"
                /\ Become(ConnectInternal(S, s))
<1> DEFINE c == connect[s]
           d == [c EXCEPT !.connecting = FALSE, !.current = 0, !.nw[a] = "none"]
           S == [Now EXCEPT !.connect[s].connecting = FALSE, !.connect[s].current = 0,
                            !.connect[s].nw[a] = "none"]
<1>1. Now \in States /\ Now.connect[s] = c
  BY NowTyped DEF Sound
<1>2. c \in ConnectRecord /\ Quiet(dso[s], c, peer[s])
  BY SoundParts, NowTyped
<1>3. c.life = "live" /\ c.queue + c.tried <= MaxAddresses
  BY <1>2 DEF ConnectionFailed, Quiet, ConnectRecord
<1>4. d \in ConnectRecord
  BY <1>2, ConnectFields
<1>5. d.life = c.life /\ d.queue = c.queue /\ d.tried = c.tried
  BY <1>2 DEF ConnectRecord
<1>6. S = PutConnect(Now, s, d)
  <2> DEFINE S1 == [Now EXCEPT !.connect[s].connecting = FALSE]
             S2 == [S1 EXCEPT !.connect[s].current = 0]
             c1 == [c EXCEPT !.connecting = FALSE]
             c2 == [c1 EXCEPT !.current = 0]
  <2>1. c1 \in ConnectRecord /\ c2 \in ConnectRecord
    BY <1>2 DEF ConnectRecord
  <2>2. S1 = PutConnect(Now, s, c1)
    BY <1>1, Zenon DEF PutConnect
  <2>3. S = [S2 EXCEPT !.connect[s].nw[a] = "none"] /\ d = [c2 EXCEPT !.nw[a] = "none"]
    BY Zenon
  <2> HIDE DEF c1, c, S1
  <2>4. S1.connect[s] = c1 /\ S1 \in States
    BY <1>1, <2>1, <2>2, PutConnectIs, Zenon
  <2>5. S2 = PutConnect(S1, s, c2)
    BY <2>4, Zenon DEF PutConnect
  <2> HIDE DEF c2, S2
  <2>6. S2 = PutConnect(Now, s, c2)
    BY <1>1, <2>1, <2>2, <2>5, PutConnectIs, Zenon
  <2>7. S2.connect[s] = c2 /\ S2 \in States
    BY <1>1, <2>1, <2>6, PutConnectIs, Zenon
  <2>8. S = PutConnect(S2, s, d)
    BY <2>3, <2>7, Zenon DEF PutConnect
  <2> HIDE DEF S, d
  <2> QED BY <1>1, <2>1, <2>6, <2>8, PutConnectIs, ZenonT(60)
<1> HIDE DEF d, c
<1>7. Sound(PutConnect(Now, s, d))
  BY <1>1, <1>3, <1>4, <1>5, ConnectSound
<1>8. S.connect[s] = d
  <2> HIDE DEF S
  <2> QED BY <1>1, <1>4, <1>6, PutConnectIs, Zenon
<1>9. Become(ConnectInternal(S, s))
  BY DEF ConnectionFailed
<1>10. Alike(Now, PutConnect(Now, s, d))
  BY <1>1, PutConnectAlike
<1> HIDE DEF S
<1> QED BY <1>3, <1>5, <1>6, <1>7, <1>8, <1>9, <1>10

\* So the service does not notice, or the server is given up.
LEMMA ConnectionFailedServes ==
  ASSUME Sound(Now), Serving(Now), NEW s \in Servers, NEW a \in Attempts, ConnectionFailed(s, a)
  PROVE  Serving(Now)' /\ [Service!Next]_(Service!vars)
  BY ConnectionFailedIs, AttemptServes

\* A step that changes only the push server's end of an open connection.
LEMMA PeerServes ==
  ASSUME Sound(Now), Serving(Now), ~bad, NEW s \in Servers, NEW p \in PeerRecord,
         peer' = [peer EXCEPT ![s] = p], UNCHANGED <<q, server, dso, connect, pinned, bad>>,
         Sound(Now)', dso[s].life = "live" => Granting(q, s, dso[s].out, p)
  PROVE  LET T == PutPeer(Now, s, p)
         IN  /\ Serving(Now)'
             /\ T \in States /\ Become(T) /\ T.q = q /\ T.pinned = pinned
             /\ dso[s].life # "live" => Given(T) = Given(Now)
             /\ dso[s].life = "live" => Given(T) = Had(p.subs) /\ Given(Now) = Had(peer[s].subs)
<1> DEFINE T == PutPeer(Now, s, p)
<1>1. Now \in States
  BY DEF Sound
<1>2. T \in States /\ T.peer = [peer EXCEPT ![s] = p] /\ T.q = q /\ T.dso = dso /\ T.server = server
      /\ T.pinned = pinned /\ T.bad = bad /\ T.connect = connect /\ T.peer[s] = p
  <2>1. T \in States /\ T.peer[s] = p
    BY <1>1, PutPeerIs
  <2>2. /\ T.peer = [Now.peer EXCEPT ![s] = p] /\ T.q = Now.q /\ T.dso = Now.dso
        /\ T.server = Now.server /\ T.pinned = Now.pinned /\ T.bad = Now.bad
        /\ T.connect = Now.connect
    BY <1>1 DEF PutPeer, States
  <2> HIDE DEF T
  <2> QED BY <2>1, <2>2, NowTyped
<1> HIDE DEF T
<1>3. Become(T)
  BY <1>2 DEF Become
<1>4. Sound(T)
  BY <1>2, <1>3, BecomeIs
<1>5. \A t \in Servers \ {s} : T.peer[t] = peer[t]
  BY <1>1, <1>2, NowTyped DEF States
<1>6. Serving(T)
  <2>1. OnePrimary(T.q) /\ NotPolling(T.q)
    BY <1>2, NowTyped DEF Serving
  <2>2. ASSUME NEW t \in Servers, T.dso[t].life = "live"
        PROVE  Granting(T.q, t, T.dso[t].out, T.peer[t])
    <3>1. CASE t = s
      BY <1>2, <2>2, <3>1
    <3>2. CASE t # s
      BY <1>2, <1>5, <2>2, <3>2, NowTyped DEF Serving
    <3> QED BY <3>1, <3>2
  <2> QED BY <2>1, <2>2 DEF Serving
<1>7. CASE dso[s].life = "live"
  <2>1. Given(Now) = Had(peer[s].subs)
    BY <1>7, NowTyped, OnlyLive
  <2>2. Given(T) = Had(p.subs)
    BY <1>2, <1>4, <1>7, OnlyLive
  <2> QED BY <1>2, <1>3, <1>4, <1>6, <1>7, <2>1, <2>2, Served DEF T
<1>8. CASE dso[s].life # "live"
  <2>1. Given(T) = Given(Now)
    <3>1. \A t \in Servers : /\ T.dso[t].life = "live" <=> Now.dso[t].life = "live"
                             /\ Now.dso[t].life = "live" => T.peer[t].subs = Now.peer[t].subs
      BY <1>2, <1>5, <1>8, NowTyped
    <3> QED BY <3>1, SameGiven
  <2> QED BY <1>2, <1>3, <1>4, <1>6, <1>8, <2>1, Served DEF T
<1> QED BY <1>7, <1>8

\* The service does not notice a step that leaves the subscriptions alone.
LEMMA PeerUnnoticed ==
  ASSUME Sound(Now), Serving(Now), ~bad, NEW s \in Servers, NEW p \in PeerRecord,
         peer' = [peer EXCEPT ![s] = p], UNCHANGED <<q, server, dso, connect, pinned, bad>>,
         Sound(Now)', dso[s].life = "live" => Granting(q, s, dso[s].out, p), p.subs = peer[s].subs
  PROVE  Serving(Now)' /\ [Service!Next]_(Service!vars)
<1> DEFINE T == PutPeer(Now, s, p)
<1>1. /\ Serving(Now)' /\ T \in States /\ Become(T) /\ T.q = q /\ T.pinned = pinned
      /\ dso[s].life # "live" => Given(T) = Given(Now)
      /\ dso[s].life = "live" => Given(T) = Had(p.subs) /\ Given(Now) = Had(peer[s].subs)
  BY PeerServes
<1> HIDE DEF T
<1>2. Given(T) = Given(Now) /\ Modes(T.q) = Modes(q)
  BY <1>1
<1> QED BY <1>1, <1>2, Unnoticed

\* What the server in use grants.
LEMMA LiveGrants ==
  ASSUME Serving(Now), ~bad, NEW s \in Servers, dso[s].life = "live"
  PROVE  Granting(q, s, dso[s].out, peer[s])
  BY NowTyped DEF Serving

\* The connection ends.
LEMMA PeerClosesServes ==
  ASSUME Sound(Now), Serving(Now), ~bad, NEW s \in Servers, NEW a \in Attempts,
         PeerCloses(s, a)
  PROVE  Serving(Now)' /\ [Service!Next]_(Service!vars)
<1> DEFINE p == peer[s]
           r == [p EXCEPT !.open = p.open \ {a}]
<1>1. p \in PeerRecord /\ peer \in [Servers -> PeerRecord]
  BY SoundParts, NowTyped DEF Sound, States
<1>2. r \in PeerRecord /\ r.up = p.up /\ r.down = p.down /\ r.subs = p.subs
  <2>1. r \in PeerRecord /\ r.up = p.up /\ r.down = p.down
    BY <1>1, PeerShut, Zenon
  <2> QED BY <1>1, <2>1 DEF PeerRecord
<1>3. peer' = [peer EXCEPT ![s] = r]
  BY <1>1 DEF PeerCloses
<1>4. Sound(Now)'
  BY PeerClosesSound
<1>5. UNCHANGED <<q, server, dso, connect, pinned, bad>>
  BY DEF PeerCloses
<1> HIDE DEF r
<1>6. dso[s].life = "live" => Granting(q, s, dso[s].out, r)
  BY <1>2, LiveGrants, GrantingClosed
<1> QED BY <1>2, <1>3, <1>4, <1>5, <1>6, PeerUnnoticed

\* A record changes.
LEMMA PeerUpdateServes ==
  ASSUME Sound(Now), Serving(Now), ~bad, NEW s \in Servers, NEW a \in Attempts, NEW n \in Names,
         NEW add \in BOOLEAN, PeerUpdate(s, a, n, add)
  PROVE  Serving(Now)' /\ [Service!Next]_(Service!vars)
<1> DEFINE p == peer[s]
           m == [type |-> "update", slot |-> 0, name |-> n, conn |-> a, ok |-> add]
           r == [p EXCEPT !.down = Append(p.down, m)]
<1>1. p \in PeerRecord /\ peer \in [Servers -> PeerRecord]
  BY SoundParts, NowTyped DEF Sound, States
<1>2. m \in Answers /\ m.type = "update"
  BY PushAssumption DEF Answers
<1>3. peer' = [peer EXCEPT ![s] = r]
  BY <1>1 DEF PeerUpdate
<1> HIDE DEF m
<1>4. r \in PeerRecord /\ r.up = p.up /\ r.down = Append(p.down, m) /\ r.subs = p.subs
  <2> HIDE DEF p
  <2>1. Append(p.down, m) \in Seq(Answers)
    BY <1>1, <1>2 DEF PeerRecord
  <2>2. r \in PeerRecord /\ r.up = p.up /\ r.down = Append(p.down, m)
    BY <1>1, <2>1, PeerDown, Zenon
  <2> QED BY <1>1, <2>2 DEF PeerRecord
<1>5. Sound(Now)'
  BY PeerUpdateSound
<1>6. UNCHANGED <<q, server, dso, connect, pinned, bad>>
  BY DEF PeerUpdate
<1> HIDE DEF r
<1>7. dso[s].life = "live" => Granting(q, s, dso[s].out, r)
  BY <1>1, <1>2, <1>4, LiveGrants, GrantingAnswer
<1> QED BY <1>3, <1>4, <1>5, <1>6, <1>7, PeerUnnoticed

\* What the push server does with the k-th message: it is read, which gives w, and
\* r is the result, with an answer, without one, or with the connection closed.
Reading(p, r, k, w) ==
  LET m == p.up[k]
  IN  /\ m.conn \in Attempts /\ (\A j \in 1..Len(p.up) : j < k => p.up[j].conn # m.conn)
      /\ w.up = Without(p.up, k) /\ w.down = p.down /\ r.up = w.up /\ r.subs = w.subs
      /\ \/ /\ m.type = "subscribe"
            /\ \E ok \in BOOLEAN :
                 /\ r.subs = IF ok THEN p.subs \cup {<<m.conn, m.name>>} ELSE p.subs
                 /\ r.down = Append(w.down, [type |-> "response", slot |-> m.slot, name |-> m.name,
                                             conn |-> m.conn, ok |-> ok])
         \/ Ends(m, m.name) /\ r.subs = p.subs \ {<<m.conn, m.name>>} /\ r.down = w.down
         \/ r.subs = p.subs /\ r.down = w.down

\* The external push server does one of these.
LEMMA PeerReceiveIs ==
  ASSUME Sound(Now), NEW s \in Servers, PeerReceive(s)
  PROVE  \E k \in DOMAIN peer[s].up, r \in PeerRecord, w \in PeerRecord :
           peer' = [peer EXCEPT ![s] = r] /\ Reading(peer[s], r, k, w)
<1> DEFINE p == peer[s]
           Took(i) ==
             LET m == p.up[i]
                 P == [p EXCEPT !.up = Without(p.up, i)]
                 A(ok) == [type |-> "response", slot |-> m.slot, name |-> m.name, conn |-> m.conn, ok |-> ok]
             IN  /\ m.conn \in p.open
                 /\ \/ m.type = "subscribe"
                       /\ peer' = [peer EXCEPT ![s] = [P EXCEPT !.subs = P.subs \cup {<<m.conn, m.name>>},
                                                                !.down = Append(P.down, A(TRUE))]]
                    \/ m.type = "subscribe"
                       /\ peer' = [peer EXCEPT ![s] = [P EXCEPT !.down = Append(P.down, A(FALSE))]]
                    \/ m.type = "unsubscribe"
                       /\ peer' = [peer EXCEPT ![s] = [P EXCEPT !.subs = P.subs \ {<<m.conn, m.name>>}]]
                    \/ peer' = [peer EXCEPT ![s] = [P EXCEPT !.open = P.open \ {m.conn}]]
<1>0. PICK k \in Foremost(p.up) : Took(k)
  BY Zenon DEF PeerReceive
<1> DEFINE m == p.up[k]
           P == [p EXCEPT !.up = Without(p.up, k)]
           A(ok) == [type |-> "response", slot |-> m.slot, name |-> m.name, conn |-> m.conn, ok |-> ok]
           R == [P EXCEPT !.down = Append(P.down, A(FALSE))]
           V == [P EXCEPT !.subs = P.subs \cup {<<m.conn, m.name>>}]
           G == [V EXCEPT !.down = Append(P.down, A(TRUE))]
           U == [P EXCEPT !.subs = P.subs \ {<<m.conn, m.name>>}]
           C == [P EXCEPT !.open = P.open \ {m.conn}]
<1>1. p \in PeerRecord /\ m.conn \in p.open
  BY <1>0, SoundParts, NowTyped
<1>2. p.up \in Seq(Messages) /\ p.open \subseteq Attempts
  BY <1>1 DEF PeerRecord
<1>a. k \in DOMAIN p.up /\ \A j \in 1..Len(p.up) : j < k => p.up[j].conn # m.conn
  BY <1>2 DEF Foremost
<1>3. m \in Messages /\ Without(p.up, k) \in Seq(Messages)
  BY <1>2, <1>a, WithoutIs
<1>4. P \in PeerRecord /\ P.up = Without(p.up, k) /\ P.down = p.down /\ P.subs = p.subs
  <2>1. P \in PeerRecord /\ P.up = Without(p.up, k) /\ P.down = p.down
    BY <1>1, <1>3, PeerUp, Zenon
  <2> QED BY <1>1, <2>1 DEF PeerRecord
<1>5. m.name \in Names /\ m.slot \in 0..MaxOutstanding /\ m.conn \in Attempts
  BY <1>1, <1>2, <1>3 DEF Messages
<1>6. \/ m.type = "subscribe" /\ peer' = [peer EXCEPT ![s] = G]
      \/ m.type = "subscribe" /\ peer' = [peer EXCEPT ![s] = R]
      \/ m.type = "unsubscribe" /\ peer' = [peer EXCEPT ![s] = U]
      \/ peer' = [peer EXCEPT ![s] = C]
  BY <1>0, Zenon
<1>7. /\ P.subs \cup {<<m.conn, m.name>>} \in SUBSET (Attempts \X Names)
      /\ P.subs \ {<<m.conn, m.name>>} \in SUBSET (Attempts \X Names)
  BY <1>4, <1>5 DEF PeerRecord
<1> HIDE DEF P, m, p, Took
<1>8. ASSUME NEW ok \in BOOLEAN PROVE Append(P.down, A(ok)) \in Seq(Answers)
  <2>1. A(ok) \in Answers
    BY <1>5 DEF Answers
  <2> HIDE DEF A
  <2> QED BY <1>4, <2>1 DEF PeerRecord
<1>9. ASSUME NEW r, NEW w, r.up = w.up, r.subs = w.subs, w.up = P.up, w.down = P.down,
             \/ m.type = "subscribe" /\ r.subs = P.subs \cup {<<m.conn, m.name>>} /\ r.down = Append(w.down, A(TRUE))
             \/ m.type = "subscribe" /\ r.subs = P.subs /\ r.down = Append(w.down, A(FALSE))
             \/ m.type = "unsubscribe" /\ r.subs = P.subs \ {<<m.conn, m.name>>} /\ r.down = w.down
             \/ r.subs = P.subs /\ r.down = w.down
      PROVE  Reading(p, r, k, w)
  BY <1>4, <1>5, <1>9, <1>a DEF Reading, Ends, m
<1> HIDE DEF A
<1>10. CASE m.type = "subscribe" /\ peer' = [peer EXCEPT ![s] = G]
  <2>1. /\ V \in PeerRecord /\ V.up = P.up /\ V.down = P.down
        /\ V.subs = P.subs \cup {<<m.conn, m.name>>}
    BY <1>4, <1>7, PeerSubs DEF PeerRecord
  <2>2. G \in PeerRecord /\ G.up = V.up /\ G.down = Append(P.down, A(TRUE))
    BY <1>8, <2>1, PeerDown, Zenon
  <2>3. G.subs = V.subs
    <3> HIDE DEF V
    <3> QED BY <2>1 DEF PeerRecord
  <2> HIDE DEF V, G
  <2>4. Reading(p, G, k, V)
    BY <1>9, <1>10, <2>1, <2>2, <2>3
  <2> QED BY <1>10, <1>a, <2>1, <2>2, <2>4 DEF p
<1>11. CASE m.type = "subscribe" /\ peer' = [peer EXCEPT ![s] = R]
  <2>1. R \in PeerRecord /\ R.up = P.up /\ R.down = Append(P.down, A(FALSE))
    BY <1>4, <1>8, PeerDown, Zenon
  <2>2. R.subs = P.subs
    BY <1>4 DEF PeerRecord
  <2> HIDE DEF R
  <2>3. Reading(p, R, k, P)
    BY <1>9, <1>11, <2>1, <2>2
  <2> QED BY <1>4, <1>11, <1>a, <2>1, <2>3 DEF p
<1>12. CASE m.type = "unsubscribe" /\ peer' = [peer EXCEPT ![s] = U]
  <2>1. /\ U \in PeerRecord /\ U.up = P.up /\ U.down = P.down
        /\ U.subs = P.subs \ {<<m.conn, m.name>>}
    BY <1>4, <1>7, PeerSubs DEF PeerRecord
  <2> HIDE DEF U
  <2>2. Reading(p, U, k, U)
    BY <1>9, <1>12, <2>1
  <2> QED BY <1>12, <1>a, <2>1, <2>2 DEF p
<1>13. CASE peer' = [peer EXCEPT ![s] = C]
  <2>1. C \in PeerRecord /\ C.up = P.up /\ C.down = P.down /\ C.subs = P.subs
    <3>1. C \in PeerRecord /\ C.up = P.up /\ C.down = P.down
      BY <1>4, PeerShut, Zenon
    <3> QED BY <1>4, <3>1 DEF PeerRecord
  <2> HIDE DEF C
  <2>2. Reading(p, C, k, P)
    BY <1>9, <2>1
  <2> QED BY <1>4, <1>13, <1>a, <2>1, <2>2 DEF p
<1> QED BY <1>6, <1>10, <1>11, <1>12, <1>13

\* What it grants it can be relied on for, and nobody relies on what it ends.
LEMMA ReadingGrants ==
  ASSUME NEW qs, NEW s, NEW out, NEW p \in PeerRecord, Granting(qs, s, out, p), NEW k \in DOMAIN p.up,
         NEW r \in PeerRecord, NEW w \in PeerRecord, Reading(p, r, k, w)
  PROVE  Granting(qs, s, out, r)
<1> DEFINE m == p.up[k]
<1>1. /\ m \in Messages /\ k \in 1..Len(p.up) /\ Len(p.up) \in Nat
      /\ \A i \in 1..Len(w.up) : w.up[i] = p.up[Place(k, i)] /\ Place(k, i) \in 1..Len(p.up)
                                 /\ Place(k, i) # k
  <2>1. p.up \in Seq(Messages)
    BY DEF PeerRecord
  <2>2. w.up = Without(p.up, k)
    BY DEF Reading
  <2> QED BY <2>1, <2>2, WithoutIs
<1>2. \A a, n : <<a, n>> \in p.subs => <<a, n>> \in w.subs \/ (Ends(m, n) /\ m.conn = a)
  BY DEF Reading, Ends
<1>3. Granting(qs, s, out, w)
  BY <1>2, GrantingRead DEF Reading
<1>4. CASE m.type = "subscribe"
           /\ \E ok \in BOOLEAN :
                /\ r.subs = IF ok THEN p.subs \cup {<<m.conn, m.name>>} ELSE p.subs
                /\ r.down = Append(w.down, [type |-> "response", slot |-> m.slot, name |-> m.name,
                                            conn |-> m.conn, ok |-> ok])
  <2>1. PICK ok \in BOOLEAN :
          /\ r.subs = IF ok THEN p.subs \cup {<<m.conn, m.name>>} ELSE p.subs
          /\ r.down = Append(w.down, [type |-> "response", slot |-> m.slot, name |-> m.name,
                                      conn |-> m.conn, ok |-> ok])
    BY <1>4
  <2> DEFINE a == [type |-> "response", slot |-> m.slot, name |-> m.name, conn |-> m.conn, ok |-> ok]
  <2>2. /\ a \in Answers /\ a.type = "response" /\ a.slot = m.slot
        /\ a.name = m.name /\ a.ok = ok
    BY <1>1 DEF Messages, Answers
  <2>3. k \in Requests(p)
    BY <1>1, <1>4 DEF Requests
  <2>4. r.down = Append(w.down, a) /\ r.subs = w.subs /\ r.up = w.up
    BY <2>1 DEF Reading
  <2> HIDE DEF a
  <2>5. ASSUME out[a.slot] \in Questions
        PROVE  a.name = NameOf[out[a.slot]] /\ (a.ok => Lasting(w, a.name))
    <3>1. /\ m.name = NameOf[out[m.slot]]
          /\ \A j \in 1..Len(p.up) : j > k => ~Ends(p.up[j], m.name)
      BY <2>2, <2>3, <2>5 DEF Granting, RequestsLast
    <3>2. ASSUME NEW i \in 1..Len(w.up), Ends(w.up[i], m.name) PROVE w.up[i].conn # m.conn
      <4>1. w.up[i] = p.up[Place(k, i)] /\ Place(k, i) \in 1..Len(p.up) /\ Place(k, i) # k
        BY <1>1, <3>2
      <4>2. ~(Place(k, i) > k)
        BY <3>1, <3>2, <4>1
      <4>3. Place(k, i) < k
        BY <1>1, <4>1, <4>2
      <4> QED BY <4>1, <4>3 DEF Reading
    <3>3. a.ok => <<m.conn, m.name>> \in w.subs
      BY <2>1, <2>2, <2>4
    <3>4. a.ok => LastsOn(w, m.name, m.conn)
      BY <3>2, <3>3 DEF LastsOn
    <3>5. m.conn \in Attempts
      BY DEF Reading
    <3> QED BY <2>2, <3>1, <3>4, <3>5 DEF Lasting
  <2> QED BY <1>3, <2>2, <2>4, <2>5, GrantingAnswer
<1>5. CASE r.down = w.down
  BY <1>3, <1>5, GrantingClosed DEF Reading
<1> QED BY <1>4, <1>5 DEF Reading

\* A message read by the push server.
LEMMA PeerReceiveServes ==
  ASSUME Sound(Now), Serving(Now), ~bad, NEW s \in Servers, PeerReceive(s)
  PROVE  Serving(Now)' /\ [Service!Next]_(Service!vars)
<1> DEFINE p == peer[s]
<1>1. PICK k \in DOMAIN p.up, r \in PeerRecord, w \in PeerRecord :
        peer' = [peer EXCEPT ![s] = r] /\ Reading(p, r, k, w)
  BY PeerReceiveIs
<1>2. p \in PeerRecord
  BY SoundParts, NowTyped
<1>3. Sound(Now)' /\ UNCHANGED <<q, server, dso, connect, pinned, bad>>
  BY PeerReceiveSound DEF PeerReceive
<1> DEFINE n == p.up[k].name
           a == p.up[k].conn
           T == PutPeer(Now, s, r)
<1>4. n \in Names /\ k \in 1..Len(p.up) /\ a \in Attempts
  <2> HIDE DEF p
  <2>1. p.up \in Seq(Messages)
    BY <1>2 DEF PeerRecord
  <2>2. p.up[k] \in Messages /\ k \in 1..Len(p.up)
    BY <2>1, WithoutIs
  <2> QED BY <1>1, <2>2 DEF Messages, Reading
<1>5. dso[s].life = "live" => Granting(q, s, dso[s].out, r)
  BY <1>1, <1>2, LiveGrants, ReadingGrants
<1>6. /\ Serving(Now)' /\ T \in States /\ Become(T) /\ T.q = q /\ T.pinned = pinned
      /\ dso[s].life # "live" => Given(T) = Given(Now)
      /\ dso[s].life = "live" => Given(T) = Had(r.subs) /\ Given(Now) = Had(p.subs)
  BY <1>1, <1>3, <1>5, PeerServes
<1> HIDE DEF T
<1>7. CASE dso[s].life # "live" \/ r.subs = p.subs
  <2>1. Given(T) = Given(Now) /\ Modes(T.q) = Modes(q)
    BY <1>6, <1>7
  <2> QED BY <1>6, <2>1, Unnoticed
<1>8. CASE dso[s].life = "live" /\ r.subs = p.subs \cup {<<a, n>>}
  <2>1. Had(r.subs) = Had(p.subs) \cup {n}
    <3> HIDE DEF a, n, p
    <3> QED BY <1>4, <1>8 DEF Had
  <2> QED BY <1>4, <1>6, <1>8, <2>1, GrantStep
<1>9. CASE dso[s].life = "live" /\ r.subs = p.subs \ {<<a, n>>} /\ Ends(p.up[k], n)
  <2>1. Had(r.subs) = Had(p.subs) \/ (Had(r.subs) = Had(p.subs) \ {n} /\ n \notin Had(r.subs))
    <3> HIDE DEF a, n, p
    <3> QED BY <1>4, <1>9 DEF Had
  <2>2. n \in Had(r.subs) \/ Modes(q)[n] # "push"
    <3> SUFFICES ASSUME Modes(q)[n] = "push" PROVE n \in Had(r.subs)
      OBVIOUS
    <3>1. ModeIn(q, n) = "push" /\ OnePrimary(q)
      BY <1>4, NowTyped DEF Modes, Serving
    <3>2. PICK x \in Questions : InUse(q, x) /\ NameOf[x] = n
      BY <3>1, ModeOff
    <3>3. q[x].state = "Established" /\ q[x].server # 0
      BY <3>1, <3>2, ModeOn DEF Kind
    <3>4. q[x].server = s
      BY <1>9, <3>3, OnlyLive, NowTyped
    <3>5. Lasting(p, n)
      BY <1>9, <3>2, <3>3, <3>4, LiveGrants DEF Granting, PushedLast
    <3>6. PICK b \in Attempts : LastsOn(p, n, b)
      BY <3>5 DEF Lasting
    <3>7. b # a /\ <<b, n>> \in p.subs
      BY <1>4, <1>9, <3>6 DEF LastsOn
    <3> HIDE DEF a, n, p
    <3> QED BY <1>4, <1>9, <3>7 DEF Had
  <2>3. Modes(T.q) = Modes(q)
    BY <1>6
  <2>4. CASE Had(r.subs) = Had(p.subs)
    BY <1>6, <1>9, <2>3, <2>4, Unnoticed
  <2>5. CASE Had(r.subs) = Had(p.subs) \ {n} /\ n \notin Had(r.subs)
    BY <1>4, <1>6, <1>9, <2>2, <2>3, <2>5, GrantStep
  <2> QED BY <2>1, <2>4, <2>5
<1> QED BY <1>1, <1>7, <1>8, <1>9 DEF Reading

-----------------------------------------------------------------------------
(* The questions, for the names.                                           *)

\* Only the questions change: those in use stay in use, and none is newly served
\* by push.
LEMMA QuestionsServe ==
  ASSUME NEW S, Sound(S), Serving(S), NEW T, T.dso = S.dso, T.peer = S.peer, T.bad = S.bad,
         OnePrimary(T.q), NotPolling(T.q),
         \A x \in Questions : InUse(S.q, x) => InUse(T.q, x),
         \A x \in Questions : T.q[x].server # 0 /\ T.q[x].state = "Established" =>
           S.q[x].server = T.q[x].server /\ S.q[x].state = "Established"
  PROVE  Serving(T) /\ Given(T) = Given(S)
<1>1. ASSUME ~T.bad, NEW s \in Servers, T.dso[s].life = "live"
      PROVE  Granting(T.q, s, T.dso[s].out, T.peer[s])
  <2> DEFINE out == S.dso[s].out
             p == S.peer[s]
  <2>1. Granting(S.q, s, out, p) /\ Matched(out, p) /\ s # 0
    BY <1>1, SoundParts, PushAssumption DEF Serving, Servers
  <2>2. \A i \in Slots : out[i] \in Questions => T.q[out[i]].on /\ T.q[out[i]].dup = NoQuestion
    BY <2>1 DEF Granting, QueriesInUse, InUse
  <2> HIDE DEF out, p
  <2>3. Granting(T.q, s, out, p)
    BY <2>1, <2>2, GrantingTable
  <2> QED BY <2>3 DEF out, p
<1>2. Serving(T)
  BY <1>1 DEF Serving
<1>3. Given(T) = Given(S)
  BY SameGiven
<1> QED BY <1>2, <1>3

\* mDNS_StartQuery.
LEMMA StartServes ==
  ASSUME NEW S, Sound(S), Serving(S), NEW x \in Questions, ~S.q[x].on
  PROVE  LET T == Start(S, x)
             n == NameOf[x]
         IN  /\ Sound(T) /\ Serving(T) /\ Given(T) = Given(S) /\ T.pinned = S.pinned
             /\ \/ Modes(T.q) = Modes(S.q) /\ Modes(S.q)[n] # "off"
                \/ Modes(S.q)[n] = "off" /\ Modes(T.q) = [Modes(S.q) EXCEPT ![n] = "waiting"]
<1> DEFINE T == Start(S, x)
           n == NameOf[x]
<1>1. Sound(T) /\ StartedIn(S, T, x)
  BY StartSound
<1> HIDE DEF T
<1>2. PICK p \in Questions \cup {NoQuestion} :
        /\ T.q = [S.q EXCEPT ![x] = [on |-> TRUE, dup |-> p, state |-> "Init", server |-> 0,
                                     nta |-> FALSE]]
        /\ p = NoQuestion <=> Primary(S, n) = {}
        /\ p # NoQuestion => p \in Primary(S, n)
  BY <1>1 DEF StartedIn
<1>3. S.q \in [Questions -> QuestionRecord] /\ n \in Names
  BY NameTyped DEF Sound, States
<1>4. /\ T.q[x].on = TRUE /\ T.q[x].dup = p /\ T.q[x].state = "Init" /\ T.q[x].server = 0
      /\ T.q[x].nta = FALSE
      /\ \A z \in Questions \ {x} : T.q[z] = S.q[z]
  BY <1>2, <1>3
<1>5. \A z \in Questions : InUse(S.q, z) => InUse(T.q, z) /\ z # x
  BY <1>4 DEF InUse
<1>6. OnePrimary(T.q) /\ OnePrimary(S.q)
  <2>1. OnePrimary(S.q)
    BY DEF Serving
  <2>2. p = NoQuestion => \A z \in Questions : S.q[z].on /\ S.q[z].dup = NoQuestion => NameOf[z] # n
    BY <1>2 DEF Primary
  <2> QED BY <1>4, <2>1, <2>2 DEF OnePrimary
<1>7. NotPolling(T.q)
  BY <1>4 DEF Serving, NotPolling
<1>8. /\ T.dso = S.dso /\ T.peer = S.peer /\ T.bad = S.bad /\ T.pinned = S.pinned
  BY <1>1 DEF StartedIn
<1>9. \A z \in Questions : T.q[z].server # 0 /\ T.q[z].state = "Established" =>
        S.q[z].server = T.q[z].server /\ S.q[z].state = "Established"
  BY <1>4
<1>10. Serving(T) /\ Given(T) = Given(S)
  BY <1>5, <1>6, <1>7, <1>8, <1>9, QuestionsServe
<1>11. CASE p # NoQuestion
  <2>1. p \in Questions /\ InUse(S.q, p) /\ NameOf[p] = n
    BY <1>2, <1>11 DEF Primary, InUse
  <2>2. ModeIn(S.q, n) # "off"
    BY <2>1, ModeOff
  <2>3. \A z \in Questions : InUse(T.q, z) => z # x /\ InUse(S.q, z)
    BY <1>4, <1>11 DEF InUse
  <2>4. Modes(T.q) = Modes(S.q)
    BY <1>4, <1>5, <1>6, <2>3, SameModes
  <2> QED BY <1>1, <1>3, <1>8, <1>10, <2>2, <2>4 DEF Modes, T
<1>12. CASE p = NoQuestion
  <2>1. \A z \in Questions : InUse(S.q, z) => NameOf[z] # n
    BY <1>2, <1>12 DEF Primary, InUse
  <2>2. ModeIn(S.q, n) = "off"
    BY <2>1, ModeOff
  <2>3. InUse(T.q, x) /\ Kind(T.q[x]) = "waiting"
    BY <1>4, <1>12 DEF InUse, Kind
  <2>4. ModeIn(T.q, n) = "waiting"
    BY <1>6, <2>3, ModeOn
  <2>5. ASSUME NEW m \in Names, m # n PROVE ModeIn(T.q, m) = ModeIn(S.q, m)
    <3>1. CASE ModeIn(S.q, m) = "off"
      <4>1. \A z \in Questions : InUse(T.q, z) => z = x \/ InUse(S.q, z)
        BY <1>4 DEF InUse
      <4>2. \A z \in Questions : InUse(T.q, z) => NameOf[z] # m
        BY <2>5, <3>1, <4>1, ModeOff
      <4> QED BY <3>1, <4>2, ModeOff
    <3>2. CASE ModeIn(S.q, m) # "off"
      <4>1. PICK z \in Questions : InUse(S.q, z) /\ NameOf[z] = m
        BY <3>2, ModeOff
      <4>2. InUse(T.q, z) /\ T.q[z] = S.q[z]
        BY <1>4, <1>5, <4>1
      <4> QED BY <1>6, <4>1, <4>2, ModeOn
    <3> QED BY <3>1, <3>2
  <2>6. Modes(T.q) = [Modes(S.q) EXCEPT ![n] = "waiting"]
    <3>1. Modes(T.q) = [m \in Names |-> IF m = n THEN "waiting" ELSE ModeIn(S.q, m)]
      BY <2>4, <2>5 DEF Modes
    <3> QED BY <3>1 DEF Modes
  <2>7. Modes(S.q)[n] = "off"
    BY <1>3, <2>2 DEF Modes
  <2> QED BY <1>1, <1>8, <1>10, <2>6, <2>7 DEF T
<1> QED BY <1>11, <1>12

\* A question is started.
LEMMA StartQueryServes ==
  ASSUME Sound(Now), Serving(Now), NEW x \in Questions, StartQuery(x)
  PROVE  Serving(Now)' /\ [Service!Next]_(Service!vars)
<1> DEFINE T == Start(Now, x)
           n == NameOf[x]
<1>1. ~Now.q[x].on /\ Become(T)
  BY NowTyped DEF StartQuery
<1>2. /\ Sound(T) /\ Serving(T) /\ Given(T) = Given(Now) /\ T.pinned = pinned
      /\ \/ Modes(T.q) = Modes(q)
         \/ Modes(q)[n] = "off" /\ Modes(T.q) = [Modes(q) EXCEPT ![n] = "waiting"]
  BY <1>1, StartServes, NowTyped
<1> HIDE DEF T
<1>3. T \in States /\ n \in Names
  BY <1>2, NameTyped DEF Sound
<1> QED BY <1>1, <1>2, <1>3, Served, Unnoticed, OpenStep

\* How mDNS_StopQuery gets there: the question hands over to a duplicate, is
\* unsubscribed or has no server, and is cleared; a query that still points at it
\* is bad.
StopVia(S, U, x) ==
  \/ \E y \in Questions : S.q[y].dup = x /\ Moved(S, U, x, y)
  \/ U = S
  \/ S.q[x].server \in Servers /\ U = Unsubscribe(S, x) /\ Dropped(S, U, x, S.q[x].server)

\* The cases of mDNS_StopQuery.
LEMMA StopIs ==
  ASSUME NEW S, Sound(S), NEW x \in Questions
  PROVE  LET T == Stop(S, x)
         IN  \E U : /\ Sound(U) /\ StopVia(S, U, x) /\ Cleared(U, T, x) /\ (~T.bad => ~S.bad)
                    /\ ~T.bad => \A s \in Servers, i \in Slots : U.dso[s].life = "live" => U.dso[s].out[i] # x
<1> DEFINE dups == {y \in Questions : S.q[y].dup = x}
           y == CHOOSE z \in dups : TRUE
           R == IF dups # {} THEN HandOver(S, x, y) ELSE S
           U == IF R.q[x].server # 0 THEN Unsubscribe(R, x) ELSE R
           b == U.bad \/ \E s \in Servers, i \in Slots : U.dso[s].life = "live" /\ U.dso[s].out[i] = x
           T == Clear(U, x, b)
<1>1. Stop(S, x) = T
  BY DEF Stop, Clear
<1>2. b \in BOOLEAN
  OBVIOUS
<1>3. Sound(U) /\ StopVia(S, U, x) /\ Unused(U, x) /\ U.bad = S.bad
  <2>1. CASE dups # {}
    <3>1. y \in Questions /\ S.q[y].dup = x
      BY <2>1
    <3> HIDE DEF y
    <3>2. R = HandOver(S, x, y)
      BY <2>1
    <3> HIDE DEF R
    <3>3. Moved(S, R, x, y)
      BY <3>1, <3>2, HandOverMoves
    <3>4. Sound(R) /\ \A z \in Questions : R.q[z].dup # x
      BY <3>1, <3>3, MovedSound
    <3>5. x # y
      BY <3>1, PushAssumption DEF Sound, Asked, NoQuestion
    <3>6. R.q[x].server = 0
      <4>1. R.q[x] = [S.q[x] EXCEPT !.server = 0, !.nta = FALSE] /\ S.q[x] \in QuestionRecord
        BY <3>3, <3>5 DEF Moved, Sound, States
      <4> QED BY <4>1 DEF QuestionRecord
    <3>7. U = R
      BY <3>6
    <3> HIDE DEF U
    <3>8. StopVia(S, U, x)
      BY <3>1, <3>3, <3>7, Zenon DEF StopVia
    <3>9. U.bad = S.bad
      BY <3>3, <3>7 DEF Moved
    <3> QED BY <3>4, <3>6, <3>7, <3>8, <3>9 DEF Unused
  <2>2. CASE dups = {} /\ S.q[x].server = 0
    <3>1. U = S /\ \A z \in Questions : S.q[z].dup # x
      BY <2>2
    <3> HIDE DEF U
    <3> QED BY <2>2, <3>1 DEF StopVia, Unused
  <2>3. CASE dups = {} /\ S.q[x].server # 0
    <3>1. U = Unsubscribe(S, x) /\ \A z \in Questions : S.q[z].dup # x
      BY <2>3
    <3> HIDE DEF U
    <3>2. Dropped(S, U, x, S.q[x].server) /\ S.q[x].server \in Servers
      BY <2>3, <3>1, UnsubscribeDrops, HolderListed
    <3>3. Sound(U)
      BY <3>2, DropSound
    <3>4. S.q \in [Questions -> QuestionRecord] /\ U.q = [S.q EXCEPT ![x].server = 0] /\ U.bad = S.bad
      BY <3>2 DEF Sound, States, Dropped
    <3>5. U.q[x].server = 0 /\ \A z \in Questions : U.q[z].dup # x
      BY <3>1, <3>4 DEF QuestionRecord
    <3> QED BY <3>1, <3>2, <3>3, <3>4, <3>5 DEF StopVia, Unused
  <2> QED BY <2>1, <2>2, <2>3
<1> HIDE DEF U
<1>4. T.bad = b
  <2> HIDE DEF b
  <2>1. U \in States
    BY <1>3 DEF Sound
  <2> QED BY <2>1 DEF Clear, States
<1>5. ~T.bad => /\ ~S.bad
                /\ \A s \in Servers, i \in Slots : U.dso[s].life = "live" => U.dso[s].out[i] # x
  BY <1>3, <1>4
<1> HIDE DEF b, T
<1>6. Cleared(U, T, x)
  BY <1>2, <1>3, ClearSound DEF T
<1> QED BY <1>1, <1>3, <1>5, <1>6

\* mDNS_StopQuery, for the server in use: what is on its way is still about
\* questions in use, or a pointer is bad.
LEMMA StopGrants ==
  ASSUME NEW S, Sound(S), Serving(S), NEW x \in Questions, ~Stop(S, x).bad, NEW s \in Servers,
         Stop(S, x).dso[s].life = "live"
  PROVE  LET T == Stop(S, x)
         IN  Granting(T.q, s, T.dso[s].out, T.peer[s])
<1> DEFINE T == Stop(S, x)
<1>1. PICK U : /\ Sound(U) /\ StopVia(S, U, x) /\ Cleared(U, T, x) /\ ~S.bad
               /\ \A t \in Servers, i \in Slots : U.dso[t].life = "live" => U.dso[t].out[i] # x
  BY StopIs
<1>2. T.dso[s].life = S.dso[s].life
  <2>1. StoppedIn(S, T, x)
    BY StopSound
  <2> HIDE DEF T
  <2> QED BY <2>1 DEF StoppedIn
<1>3. T.dso[s].life = "live"
  OBVIOUS
<1> HIDE DEF T
<1>4. Granting(S.q, s, S.dso[s].out, S.peer[s]) /\ Matched(S.dso[s].out, S.peer[s]) /\ OnePrimary(S.q)
  BY <1>1, <1>2, <1>3, SoundParts DEF Serving
<1>5. S \in States /\ S.q \in [Questions -> QuestionRecord] /\ s # 0
  BY PushAssumption DEF Sound, States, Servers
<1>6. Granting(U.q, s, U.dso[s].out, U.peer[s])
  <2>1. ASSUME NEW y \in Questions, S.q[y].dup = x, Moved(S, U, x, y)
        PROVE  Granting(U.q, s, U.dso[s].out, U.peer[s])
    <3> DEFINE out == S.dso[s].out
               p == S.peer[s]
    <3>1. U.dso[s].out = out /\ U.peer[s] = p
      <4>1. S.dso[s] \in DSORecord
        BY SoundParts
      <4>2. S.dso[s].acts \in SUBSET Questions
        BY <4>1 DEF DSORecord
      <4>3. (S.dso[s].acts \ {x}) \cup {y} \in SUBSET Questions
        BY <4>2
      <4>4. [S.dso[s] EXCEPT !.acts = (S.dso[s].acts \ {x}) \cup {y}].out = out
        BY <4>1, <4>3, ActivitiesTyped
      <4> QED BY <2>1, <4>4 DEF Moved
    <3>2. ASSUME NEW z \in Questions
          PROVE  /\ S.q[z].on /\ S.q[z].dup = NoQuestion => U.q[z].on /\ U.q[z].dup = NoQuestion
                 /\ U.q[z].server = s /\ U.q[z].state = "Established" =>
                      (z = y /\ S.q[x].server = s /\ S.q[x].state = "Established")
                      \/ (S.q[z].server = s /\ S.q[z].state = "Established")
      <4>1. S.q[z] \in QuestionRecord /\ S.q[x] \in QuestionRecord
        BY <1>5
      <4>2. x # NoQuestion
        BY PushAssumption DEF NoQuestion
      <4>3. CASE z = y
        <5>1. U.q[z] = [S.q[x] EXCEPT !.dup = NoQuestion]
          BY <2>1, <4>3 DEF Moved
        <5> QED BY <2>1, <4>1, <4>2, <4>3, <5>1 DEF QuestionRecord
      <4>4. CASE z # y /\ z = x
        <5>1. U.q[z] = [S.q[x] EXCEPT !.server = 0, !.nta = FALSE]
          BY <2>1, <4>4 DEF Moved
        <5> QED BY <1>5, <4>1, <4>4, <5>1 DEF QuestionRecord
      <4>5. CASE z # y /\ z # x /\ S.q[z].dup = x
        <5>1. U.q[z] = [S.q[z] EXCEPT !.dup = y]
          BY <2>1, <4>5 DEF Moved
        <5> QED BY <4>1, <4>2, <4>5, <5>1 DEF QuestionRecord
      <4>6. CASE z # y /\ z # x /\ S.q[z].dup # x
        BY <2>1, <4>6 DEF Moved
      <4> QED BY <4>3, <4>4, <4>5, <4>6
    <3>3. NameOf[y] = NameOf[x]
      BY <2>1, PushAssumption DEF Sound, Asked, NoQuestion
    <3> HIDE DEF out, p
    <3>4. \A i \in Slots : out[i] \in Questions => U.q[out[i]].on /\ U.q[out[i]].dup = NoQuestion
      BY <1>4, <3>2 DEF Granting, QueriesInUse, out
    <3>5. \A z \in Questions : U.q[z].server = s /\ U.q[z].state = "Established" =>
            Lasting(p, NameOf[z]) \/ (S.q[z].server = s /\ S.q[z].state = "Established")
      BY <1>4, <3>2, <3>3 DEF Granting, PushedLast, p
    <3>6. Granting(S.q, s, out, p) /\ Matched(out, p)
      BY <1>4 DEF out, p
    <3>7. Granting(U.q, s, out, p)
      BY <3>4, <3>5, <3>6, GrantingTable
    <3> QED BY <3>1, <3>7
  <2>2. CASE U = S
    BY <1>4, <2>2
  <2>3. CASE S.q[x].server \in Servers /\ U = Unsubscribe(S, x) /\ Dropped(S, U, x, S.q[x].server)
    <3>1. S.dso[s].life = "live" /\ S.q[x].server # 0
      BY <1>2, <1>3, <2>3, PushAssumption DEF Servers
    <3>2. S.q[x].server = s
      BY <3>1, OnlyLive
    <3> QED BY <1>4, <2>3, <3>2, UnsubscribeGrants
  <2> QED BY <1>1, <2>1, <2>2, <2>3 DEF StopVia
<1> DEFINE out == U.dso[s].out
           p == U.peer[s]
<1>7. Granting(U.q, s, out, p) /\ Matched(out, p)
  BY <1>1, <1>6, SoundParts
<1>8. T.dso = U.dso /\ T.peer = U.peer /\ T.q = [U.q EXCEPT ![x] = Stopped]
  BY <1>1 DEF Cleared
<1>9. \A i \in Slots : out[i] # x
  BY <1>1, <1>3, <1>8
<1>10. Stopped.server = 0 /\ \A z \in Questions : T.q[z] = IF z = x THEN Stopped ELSE U.q[z]
  BY <1>1, <1>8 DEF Sound, States, Stopped
<1> HIDE DEF out, p
<1>11. \A i \in Slots : out[i] \in Questions => T.q[out[i]].on /\ T.q[out[i]].dup = NoQuestion
  BY <1>7, <1>9, <1>10 DEF Granting, QueriesInUse
<1>12. \A z \in Questions : T.q[z].server = s => T.q[z] = U.q[z]
  BY <1>5, <1>10
<1>13. Granting(T.q, s, out, p)
  BY <1>7, <1>11, <1>12, GrantingTable
<1> QED BY <1>8, <1>13 DEF out, p, T

\* mDNS_StopQuery, for the names: a duplicate takes over, or the name is closed.
LEMMA StopServes ==
  ASSUME NEW S, Sound(S), Serving(S), NEW x \in Questions
  PROVE  LET T == Stop(S, x)
             n == NameOf[x]
         IN  /\ Sound(T) /\ Serving(T) /\ Given(T) = Given(S)
             /\ \/ Modes(T.q) = Modes(S.q) /\ T.pinned = S.pinned
                \/ /\ Modes(S.q)[n] # "off" /\ Modes(T.q) = [Modes(S.q) EXCEPT ![n] = "off"]
                   /\ T.pinned = S.pinned \ {n}
<1> DEFINE T == Stop(S, x)
           n == NameOf[x]
<1>1. Sound(T) /\ StoppedIn(S, T, x)
  BY StopSound
<1>2. \A s \in Servers : ~T.bad /\ T.dso[s].life = "live" => Granting(T.q, s, T.dso[s].out, T.peer[s])
  BY StopGrants
<1> HIDE DEF T
<1>3. S.q \in [Questions -> QuestionRecord] /\ x # NoQuestion /\ n \in Names
  BY PushAssumption, NameTyped DEF Sound, States, NoQuestion
<1>4. Given(T) = Given(S)
  BY <1>1, SameGiven DEF StoppedIn
<1>5. OnePrimary(S.q) /\ NotPolling(S.q)
  BY DEF Serving
<1>6. Stopped.on = FALSE /\ Stopped.nta = FALSE
  BY DEF Stopped
<1>7. CASE \A y \in Questions : S.q[y].dup # x
  <2>1. /\ T.q[x] = Stopped /\ \A z \in Questions \ {x} : T.q[z] = S.q[z]
        /\ T.pinned = IF S.q[x].server # 0 THEN S.pinned \ {n} ELSE S.pinned
    BY <1>1, <1>3, <1>7 DEF StoppedIn
  <2>2. OnePrimary(T.q) /\ NotPolling(T.q)
    BY <1>5, <1>6, <2>1 DEF OnePrimary, NotPolling
  <2>3. Serving(T)
    BY <1>2, <2>2 DEF Serving
  <2>4. \A z \in Questions : InUse(T.q, z) <=> InUse(S.q, z) /\ z # x
    BY <1>6, <2>1 DEF InUse
  <2>5. CASE ~InUse(S.q, x)
    <3>1. Modes(T.q) = Modes(S.q)
      BY <1>5, <2>1, <2>2, <2>4, <2>5, SameModes
    <3>2. S.q[x].server = 0
      BY <2>5 DEF Sound, Asked, InUse
    <3> QED BY <1>1, <1>4, <2>1, <2>3, <3>1, <3>2 DEF T
  <2>6. CASE InUse(S.q, x)
    <3>1. ModeIn(S.q, n) # "off"
      BY <2>6, ModeOff
    <3>2. ModeIn(T.q, n) = "off"
      <4>1. \A z \in Questions : InUse(T.q, z) => NameOf[z] # n
        BY <1>5, <2>4, <2>6 DEF OnePrimary, InUse
      <4> QED BY <4>1, ModeOff
    <3>3. ASSUME NEW m \in Names, m # n PROVE ModeIn(T.q, m) = ModeIn(S.q, m)
      <4>1. CASE ModeIn(S.q, m) = "off"
        BY <2>4, <4>1, ModeOff
      <4>2. CASE ModeIn(S.q, m) # "off"
        <5>1. PICK z \in Questions : InUse(S.q, z) /\ NameOf[z] = m
          BY <4>2, ModeOff
        <5>2. InUse(T.q, z) /\ T.q[z] = S.q[z]
          BY <2>1, <2>4, <3>3, <5>1
        <5> QED BY <1>5, <2>2, <5>1, <5>2, ModeOn
      <4> QED BY <4>1, <4>2
    <3>4. Modes(T.q) = [Modes(S.q) EXCEPT ![n] = "off"]
      <4>1. Modes(T.q) = [m \in Names |-> IF m = n THEN "off" ELSE ModeIn(S.q, m)]
        BY <3>2, <3>3 DEF Modes
      <4> QED BY <4>1 DEF Modes
    <3>5. T.pinned = S.pinned \ {n}
      <4>1. ASSUME S.q[x].server = 0, n \in S.pinned PROVE FALSE
        <5>1. PICK z \in Questions : S.q[z].on /\ NameOf[z] = n /\ S.q[z].server # 0
          BY <4>1 DEF Sound, Backed
        <5>2. InUse(S.q, z)
          BY <5>1 DEF Sound, Asked, InUse
        <5> QED BY <1>5, <2>6, <4>1, <5>1, <5>2 DEF OnePrimary, InUse
      <4> QED BY <2>1, <4>1
    <3>6. Modes(S.q)[n] # "off"
      BY <1>3, <3>1 DEF Modes
    <3> QED BY <1>1, <1>4, <2>3, <3>4, <3>5, <3>6 DEF T
  <2> QED BY <2>5, <2>6
<1>8. CASE \E y \in Questions : S.q[y].dup = x
  <2>1. PICK y \in Questions :
          /\ S.q[y].dup = x
          /\ T.q = [z \in Questions |->
                      IF z = x THEN Stopped
                      ELSE IF z = y THEN [S.q[x] EXCEPT !.dup = NoQuestion]
                      ELSE IF S.q[z].dup = x THEN [S.q[z] EXCEPT !.dup = y] ELSE S.q[z]]
    BY <1>1, <1>8 DEF StoppedIn
  <2>2. T.pinned = S.pinned
    BY <1>1, <1>8 DEF StoppedIn
  <2>3. S.q[x].on /\ S.q[x].dup = NoQuestion /\ NameOf[y] = n /\ x # y /\ InUse(S.q, x) /\ ~InUse(S.q, y)
    BY <1>3, <2>1 DEF Sound, Asked, InUse
  <2>4. /\ T.q[y].on /\ T.q[y].dup = NoQuestion /\ T.q[y].state = S.q[x].state
        /\ T.q[y].server = S.q[x].server /\ T.q[y].nta = S.q[x].nta
    <3>1. T.q[y] = [S.q[x] EXCEPT !.dup = NoQuestion] /\ S.q[x] \in QuestionRecord
      BY <1>3, <2>1, <2>3
    <3> QED BY <2>3, <3>1 DEF QuestionRecord
  <2>5. ASSUME NEW z \in Questions, z # x, z # y
        PROVE  /\ InUse(T.q, z) <=> InUse(S.q, z)
               /\ T.q[z].state = S.q[z].state /\ T.q[z].server = S.q[z].server /\ T.q[z].nta = S.q[z].nta
    <3>1. S.q[z] \in QuestionRecord /\ y # NoQuestion
      BY <1>3, PushAssumption DEF NoQuestion
    <3>2. CASE S.q[z].dup = x
      <4>1. T.q[z] = [S.q[z] EXCEPT !.dup = y]
        BY <2>1, <2>5, <3>2
      <4> QED BY <1>3, <3>1, <3>2, <4>1 DEF QuestionRecord, InUse
    <3>3. CASE S.q[z].dup # x
      BY <2>1, <2>5, <3>3 DEF InUse
    <3> QED BY <3>2, <3>3
  <2>6. T.q[x] = Stopped /\ ~InUse(T.q, x) /\ InUse(T.q, y)
    BY <1>6, <2>1, <2>4 DEF InUse
  <2>7. \A z \in Questions : InUse(T.q, z) <=> z = y \/ (z # x /\ InUse(S.q, z))
    BY <2>3, <2>5, <2>6
  <2>8. OnePrimary(T.q)
    <3>1. \A a, c \in Questions : InUse(S.q, a) /\ InUse(S.q, c) /\ NameOf[a] = NameOf[c] => a = c
      BY <1>5 DEF OnePrimary, InUse
    <3>2. \A a, c \in Questions : InUse(T.q, a) /\ InUse(T.q, c) /\ NameOf[a] = NameOf[c] => a = c
      BY <2>3, <2>7, <3>1
    <3> QED BY <3>2 DEF OnePrimary, InUse
  <2>9. NotPolling(T.q)
    BY <1>5, <1>6, <2>4, <2>5, <2>6 DEF NotPolling
  <2>10. Serving(T)
    BY <1>2, <2>8, <2>9 DEF Serving
  <2>11. Modes(T.q) = Modes(S.q)
    <3>1. ASSUME NEW a \in Questions, InUse(S.q, a)
          PROVE  \E c \in Questions : InUse(T.q, c) /\ NameOf[c] = NameOf[a] /\ Kind(T.q[c]) = Kind(S.q[a])
      <4>1. CASE a = x
        BY <2>3, <2>4, <2>6, <4>1 DEF Kind
      <4>2. CASE a # x
        BY <2>3, <2>5, <3>1, <4>2 DEF Kind
      <4> QED BY <4>1, <4>2
    <3>2. ASSUME NEW c \in Questions, InUse(T.q, c)
          PROVE  \E a \in Questions : InUse(S.q, a) /\ NameOf[c] = NameOf[a]
      BY <2>3, <2>7, <3>2
    <3> QED BY <1>5, <2>8, <3>1, <3>2, SameModes
  <2> QED BY <1>1, <1>4, <2>2, <2>10, <2>11 DEF T
<1> QED BY <1>7, <1>8

\* A question is stopped.
LEMMA StopQueryServes ==
  ASSUME Sound(Now), Serving(Now), NEW x \in Questions, StopQuery(x)
  PROVE  Serving(Now)' /\ [Service!Next]_(Service!vars)
<1> DEFINE T == Stop(Now, x)
           n == NameOf[x]
<1>1. Become(T)
  BY DEF StopQuery
<1>2. /\ Sound(T) /\ Serving(T) /\ Given(T) = Given(Now)
      /\ \/ Modes(T.q) = Modes(q) /\ T.pinned = pinned
         \/ /\ Modes(q)[n] # "off" /\ Modes(T.q) = [Modes(q) EXCEPT ![n] = "off"]
            /\ T.pinned = pinned \ {n}
  BY StopServes, NowTyped
<1> HIDE DEF T
<1>3. T \in States /\ n \in Names
  BY <1>2, NameTyped DEF Sound
<1> QED BY <1>1, <1>2, <1>3, Served, Unnoticed, CloseStep

\* A question that holds a server lets it go.
LEMMA UnsubscribeServes ==
  ASSUME NEW S, Sound(S), Serving(S), NEW x \in Questions, S.q[x].server # 0
  PROVE  LET T == Unsubscribe(S, x)
         IN  /\ Sound(T) /\ Serving(T) /\ Given(T) = Given(S) /\ T.pinned = S.pinned \ {NameOf[x]}
             /\ T.q = [S.q EXCEPT ![x].server = 0] /\ T.bad = S.bad
<1> DEFINE T == Unsubscribe(S, x)
           s == S.q[x].server
<1>1. s \in Servers /\ S.server[s].listed
  BY HolderListed
<1>2. Dropped(S, T, x, s)
  BY UnsubscribeDrops
<1>3. Sound(T)
  BY <1>1, <1>2, DropSound
<1>4. S \in States /\ S.q \in [Questions -> QuestionRecord]
  BY DEF Sound, States
<1>5. T.q = [S.q EXCEPT ![x].server = 0] /\ T.pinned = S.pinned \ {NameOf[x]} /\ T.bad = S.bad
  BY <1>2 DEF Dropped
<1>6. S.dso[s].life = "live"
  BY <1>1, SoundParts DEF Joined
<1>7. S.bad \/ Granting(S.q, s, S.dso[s].out, S.peer[s])
  BY <1>1, <1>6 DEF Serving
<1>8. OnePrimary(S.q) /\ NotPolling(S.q)
  BY DEF Serving
<1>9. T.bad \/ Granting(T.q, s, T.dso[s].out, T.peer[s])
  BY <1>1, <1>5, <1>7, <1>8, UnsubscribeGrants
<1>10. Shrunk(S, T, x, s)
  BY <1>1, <1>2, <1>4, DroppedAt
<1> HIDE DEF T
<1>11. OnePrimary(T.q) /\ NotPolling(T.q)
  <2>1. \A z \in Questions : /\ T.q[z].on = S.q[z].on /\ T.q[z].dup = S.q[z].dup
                             /\ T.q[z].state = S.q[z].state /\ T.q[z].nta = S.q[z].nta
    BY <1>4, <1>5 DEF QuestionRecord
  <2> QED BY <1>8, <2>1 DEF OnePrimary, NotPolling
<1>12. T.dso[s].life = "live" /\ T.peer[s].subs = S.peer[s].subs
  <2>1. S.dso[s] \in DSORecord /\ S.peer[s] \in PeerRecord
    BY <1>1, SoundParts
  <2>2. T.dso[s].life = S.dso[s].life
    BY <1>10, <2>1 DEF Shrunk, DSORecord
  <2>3. T.peer[s].subs = S.peer[s].subs
    BY <1>10, <2>1 DEF Shrunk, PeerRecord
  <2> QED BY <1>6, <2>2, <2>3
<1> HIDE DEF s
<1>13. Serving(T)
  BY <1>1, <1>3, <1>9, <1>11, <1>12, ServingAt
<1>14. Given(T) = Had(T.peer[s].subs)
  BY <1>1, <1>3, <1>12, OnlyLive
<1>15. Given(S) = Had(S.peer[s].subs)
  BY <1>1, <1>6, OnlyLive
<1> QED BY <1>3, <1>5, <1>12, <1>13, <1>14, <1>15 DEF T

\* A question in use falls back to polling.
LEMMA PollServes ==
  ASSUME NEW S, Sound(S), Serving(S), NEW x \in Questions, InUse(S.q, x)
  PROVE  LET T == StartLLQPolling(S, x)
         IN  /\ Sound(T) /\ Serving(T) /\ Given(T) = Given(S) /\ T.pinned = S.pinned /\ T.bad = S.bad
             /\ InUse(T.q, x) /\ Kind(T.q[x]) = "poll"
             /\ \A z \in Questions \ {x} : T.q[z] = S.q[z]
<1> DEFINE T == StartLLQPolling(S, x)
<1>1. Sound(T) /\ T = [S EXCEPT !.q = [S.q EXCEPT ![x].state = "Poll", ![x].nta = FALSE]]
  BY PollingSound
<1> HIDE DEF T
<1>2. S \in States /\ S.q \in [Questions -> QuestionRecord]
  BY DEF Sound, States
<1>3. /\ T.q = [S.q EXCEPT ![x].state = "Poll", ![x].nta = FALSE] /\ T.dso = S.dso /\ T.peer = S.peer
      /\ T.pinned = S.pinned /\ T.bad = S.bad
  BY <1>1, <1>2 DEF States
<1>4. /\ T.q[x].on = S.q[x].on /\ T.q[x].dup = S.q[x].dup /\ T.q[x].state = "Poll" /\ ~T.q[x].nta
      /\ \A z \in Questions \ {x} : T.q[z] = S.q[z]
  BY <1>2, <1>3 DEF QuestionRecord
<1>5. InUse(T.q, x) /\ Kind(T.q[x]) = "poll" /\ \A z \in Questions : InUse(S.q, z) => InUse(T.q, z)
  BY <1>4 DEF InUse, Kind
<1>6. OnePrimary(T.q) /\ NotPolling(T.q)
  BY <1>4 DEF Serving, OnePrimary, NotPolling
<1>7. \A z \in Questions : T.q[z].server # 0 /\ T.q[z].state = "Established" =>
        S.q[z].server = T.q[z].server /\ S.q[z].state = "Established"
  BY <1>4
<1>8. Serving(T) /\ Given(T) = Given(S)
  BY <1>3, <1>5, <1>6, <1>7, QuestionsServe
<1> QED BY <1>1, <1>3, <1>4, <1>5, <1>8 DEF T

\* One question in use falls back, in a step from the current state.
LEMMA FallsBack ==
  ASSUME Serving(Now), NEW x \in Questions, InUse(q, x), NEW T, Sound(T), Serving(T), Become(T),
         Given(T) = Given(Now), T.pinned \in {pinned, pinned \ {NameOf[x]}},
         InUse(T.q, x), Kind(T.q[x]) = "poll", \A z \in Questions \ {x} : T.q[z] = q[z]
  PROVE  Serving(Now)' /\ [Service!Next]_(Service!vars)
<1>1. OnePrimary(q) /\ T \in States
  BY NowTyped DEF Serving, Sound
<1>2. /\ NameOf[x] \in Names /\ Modes(q)[NameOf[x]] # "off"
      /\ Modes(T.q) = [Modes(q) EXCEPT ![NameOf[x]] = "poll"]
  BY <1>1, OneQuestionModes
<1> QED BY <1>1, <1>2, Served, FallStep

\* Waking from sleep.
LEMMA WakeServes ==
  ASSUME Sound(Now), Serving(Now), Wake
  PROVE  Serving(Now)' /\ [Service!Next]_(Service!vars)
<1> DEFINE T == [Now EXCEPT !.q = q']
<1>1. Now \in States /\ q \in [Questions -> QuestionRecord]
  BY NowTyped DEF Sound, States
<1>2. ASSUME NEW z \in Questions
      PROVE  /\ InUse(q', z) <=> InUse(q, z)
             /\ InUse(q, z) => q'[z].state = "Init" /\ ~q'[z].nta
             /\ ~InUse(q, z) => q'[z] = q[z]
  <2>1. q[z] \in QuestionRecord
    BY <1>1
  <2>2. CASE q[z].on /\ q[z].dup = NoQuestion
    <3>1. q'[z] = [q[z] EXCEPT !.state = "Init", !.nta = FALSE]
      BY <2>2 DEF Wake
    <3> QED BY <2>1, <2>2, <3>1 DEF QuestionRecord, InUse
  <2>3. CASE ~(q[z].on /\ q[z].dup = NoQuestion)
    <3>1. q'[z] = q[z]
      BY <2>3 DEF Wake
    <3> QED BY <2>3, <3>1 DEF InUse
  <2> QED BY <2>2, <2>3
<1>3. /\ T.q = q' /\ T.server = Now.server /\ T.dso = Now.dso
      /\ T.connect = Now.connect /\ T.peer = Now.peer /\ T.pinned = Now.pinned /\ T.bad = Now.bad
  BY <1>1 DEF States
<1>4. q' \in [Questions -> QuestionRecord] /\ Sound(Now)'
  BY WakeSound DEF Sound, States, Now
<1>5. T \in States
  BY <1>1, <1>4 DEF States
<1> HIDE DEF T
<1>6. Become(T)
  BY <1>3, NowTyped DEF Become, Wake
<1>7. Sound(T)
  BY <1>4, <1>5, <1>6, BecomeIs
<1>8. OnePrimary(q) /\ NotPolling(q)
  BY NowTyped DEF Serving
<1>9. OnePrimary(T.q) /\ NotPolling(T.q)
  <2>1. OnePrimary(q')
    BY <1>2, <1>8 DEF OnePrimary, InUse
  <2>2. NotPolling(q')
    BY <1>2, <1>8 DEF NotPolling
  <2> QED BY <1>3, <2>1, <2>2
<1>10. \A z \in Questions : /\ InUse(Now.q, z) => InUse(T.q, z)
                            /\ T.q[z].server # 0 /\ T.q[z].state = "Established" =>
                                 Now.q[z].server = T.q[z].server /\ Now.q[z].state = "Established"
  BY <1>2, <1>3, NowTyped
<1>11. Serving(T) /\ Given(T) = Given(Now)
  BY <1>3, <1>9, <1>10, QuestionsServe
<1>12. Modes(T.q) = WaitingAgain(Modes(q))
  <2>1. ASSUME NEW n \in Names PROVE ModeIn(T.q, n) = IF ModeIn(q, n) = "off" THEN "off" ELSE "waiting"
    <3>1. CASE ModeIn(q, n) = "off"
      BY <1>2, <1>3, <3>1, ModeOff
    <3>2. CASE ModeIn(q, n) # "off"
      <4>1. PICK z \in Questions : InUse(q, z) /\ NameOf[z] = n
        BY <3>2, ModeOff
      <4>2. InUse(T.q, z) /\ Kind(T.q[z]) = "waiting"
        BY <1>2, <1>3, <4>1 DEF Kind
      <4> QED BY <1>9, <3>2, <4>1, <4>2, ModeOn
    <3> QED BY <3>1, <3>2
  <2> QED BY <2>1 DEF Modes, WaitingAgain
<1>13. T.pinned = pinned
  BY <1>3, NowTyped
<1> QED BY <1>5, <1>6, <1>7, <1>11, <1>12, <1>13, Served, AgainStep

\* The timer of a question.
LEMMA HandleLLQStateServes ==
  ASSUME Sound(Now), Serving(Now), NEW x \in Questions, HandleLLQState(x)
  PROVE  Serving(Now)' /\ [Service!Next]_(Service!vars)
<1>1. Now \in States /\ q[x] \in QuestionRecord /\ q \in [Questions -> QuestionRecord] /\ Now.q = q
  BY NowTyped DEF Sound, States
<1>2. InUse(q, x) /\ OnePrimary(q) /\ NotPolling(q)
  BY NowTyped DEF HandleLLQState, InUse, Serving
<1>3. CASE q[x].state = "Init" /\ Become([Now EXCEPT !.q[x].state = "Discovery", !.q[x].nta = TRUE])
  <2> DEFINE r == [q[x] EXCEPT !.state = "Discovery", !.nta = TRUE]
             T == [Now EXCEPT !.q[x].state = "Discovery", !.q[x].nta = TRUE]
  <2>1. r \in QuestionRecord /\ r.on = q[x].on /\ r.dup = q[x].dup /\ r.server = q[x].server
        /\ r.state = "Discovery"
    BY <1>1 DEF QuestionRecord
  <2>2. T = PutQuestion(Now, x, r)
    BY <1>1 DEF PutQuestion, States
  <2> HIDE DEF T, r
  <2>3. /\ Sound(T) /\ T.q = [q EXCEPT ![x] = r] /\ T.pinned = pinned /\ T.dso = Now.dso
        /\ T.peer = Now.peer /\ T.bad = Now.bad
    <3>1. r.on = Now.q[x].on /\ r.dup = Now.q[x].dup /\ r.server = Now.q[x].server
      BY <1>1, <2>1
    <3>2. r.nta => r.on /\ r.dup = NoQuestion
      BY <1>2, <2>1 DEF InUse
    <3>3. /\ Sound(T) /\ T.q = [Now.q EXCEPT ![x] = r] /\ T.pinned = Now.pinned /\ T.dso = Now.dso
          /\ T.peer = Now.peer /\ T.bad = Now.bad
      <4>1. r \in QuestionRecord
        BY <2>1
      <4> DEFINE W == PutQuestion(Now, x, r)
      <4>2. /\ Sound(W) /\ W.q = [Now.q EXCEPT ![x] = r] /\ W.pinned = Now.pinned /\ W.dso = Now.dso
            /\ W.peer = Now.peer /\ W.bad = Now.bad
        BY <3>1, <3>2, <4>1, QuestionSound
      <4> HIDE DEF W
      <4>3. T = W
        BY <2>2 DEF W
      <4> QED BY <4>2, <4>3
    <3> QED BY <1>1, <3>3, NowTyped
  <2>4. T.q[x] = r /\ \A z \in Questions \ {x} : T.q[z] = q[z]
    BY <1>1, <2>3
  <2>5. InUse(T.q, x) /\ Kind(T.q[x]) = "waiting" /\ Kind(q[x]) = "waiting"
    BY <1>2, <1>3, <2>1, <2>4 DEF InUse, Kind
  <2>6. OnePrimary(T.q) /\ Modes(T.q) = Modes(q)
    <3>1. \A z \in Questions : InUse(q, z) => InUse(T.q, z) /\ Kind(T.q[z]) = Kind(q[z])
      BY <2>4, <2>5 DEF InUse
    <3>2. \A z \in Questions : InUse(T.q, z) => InUse(q, z)
      BY <1>2, <2>4 DEF InUse
    <3>3. OnePrimary(T.q)
      BY <1>2, <2>4, <2>5, OneQuestionModes
    <3> QED BY <1>2, <3>1, <3>2, <3>3, SameModes
  <2>7. NotPolling(T.q)
    BY <1>2, <2>1, <2>4 DEF NotPolling
  <2>8. \A z \in Questions : /\ InUse(Now.q, z) => InUse(T.q, z)
                             /\ T.q[z].server # 0 /\ T.q[z].state = "Established" =>
                                  Now.q[z].server = T.q[z].server /\ Now.q[z].state = "Established"
    BY <1>1, <2>1, <2>4, <2>5 DEF InUse
  <2>9. Serving(T) /\ Given(T) = Given(Now)
    BY <2>3, <2>6, <2>7, <2>8, QuestionsServe
  <2>10. Become(T) /\ T \in States
    BY <1>3, <2>3 DEF T, Sound
  <2> QED BY <2>3, <2>6, <2>9, <2>10, Served, Unnoticed
<1>4. CASE Become(StartLLQPolling(IF q[x].server # 0 THEN Unsubscribe(Now, x) ELSE Now, x))
  <2> DEFINE U == IF q[x].server # 0 THEN Unsubscribe(Now, x) ELSE Now
             T == StartLLQPolling(U, x)
  <2>1. /\ Sound(U) /\ Serving(U) /\ Given(U) = Given(Now)
        /\ U.pinned \in {pinned, pinned \ {NameOf[x]}}
        /\ InUse(U.q, x) /\ \A z \in Questions \ {x} : U.q[z] = q[z]
    <3>1. CASE q[x].server # 0
      <4>1. U = Unsubscribe(Now, x)
        BY <3>1
      <4> HIDE DEF U
      <4>2. /\ Sound(U) /\ Serving(U) /\ Given(U) = Given(Now) /\ U.pinned = pinned \ {NameOf[x]}
            /\ U.q = [q EXCEPT ![x].server = 0]
        <5>1. Now.q[x].server # 0
          BY <1>1, <3>1
        <5>2. /\ Sound(U) /\ Serving(U) /\ Given(U) = Given(Now) /\ U.pinned = Now.pinned \ {NameOf[x]}
              /\ U.q = [Now.q EXCEPT ![x].server = 0]
          BY <4>1, <5>1, UnsubscribeServes, Zenon
        <5> QED BY <1>1, <5>2, NowTyped
      <4>3. U.q[x] = [q[x] EXCEPT !.server = 0] /\ \A z \in Questions \ {x} : U.q[z] = q[z]
        BY <1>1, <4>2
      <4>4. InUse(U.q, x)
        BY <1>1, <1>2, <4>3 DEF InUse, QuestionRecord
      <4> QED BY <4>2, <4>3, <4>4
    <3>2. CASE q[x].server = 0
      BY <1>1, <1>2, <3>2, NowTyped
    <3> QED BY <3>1, <3>2
  <2> HIDE DEF U
  <2>2. /\ Sound(T) /\ Serving(T) /\ Given(T) = Given(U) /\ T.pinned = U.pinned
        /\ InUse(T.q, x) /\ Kind(T.q[x]) = "poll"
        /\ \A z \in Questions \ {x} : T.q[z] = U.q[z]
    BY <2>1, PollServes
  <2>3. Become(T)
    BY <1>4 DEF U
  <2> HIDE DEF T
  <2> QED BY <1>2, <2>1, <2>2, <2>3, FallsBack
<1> QED BY <1>3, <1>4 DEF HandleLLQState

-----------------------------------------------------------------------------
(* What the push server sends, for the names.                              *)

\* dso_message_received: the outstanding query is taken out of the table.
Freeing(S, s, slot, ok) == [S EXCEPT !.dso[s].out[slot] = Free, !.dso[s].session = @ \/ ok]
Taken(S, R, s, slot) ==
  /\ Sound(R) /\ R.q = S.q /\ R.server = S.server /\ R.pinned = S.pinned
  /\ R.peer = S.peer /\ R.bad = S.bad /\ R.dso[s].life = "live"
  /\ R.dso[s].out = [S.dso[s].out EXCEPT ![slot] = Free]

\* Nothing else changes with it.
LEMMA FreeingSound ==
  ASSUME NEW S, Sound(S), NEW s \in Servers, NEW slot, NEW ok \in BOOLEAN,
         S.dso[s].life = "live", Answered(S, s, slot)
  PROVE  Taken(S, Freeing(S, s, slot, ok), s, slot)
<1> DEFINE d == [S.dso[s] EXCEPT !.out = [S.dso[s].out EXCEPT ![slot] = Free],
                                 !.session = S.dso[s].session \/ ok]
           R == Freeing(S, s, slot, ok)
<1>1. S \in States /\ slot \in Slots
  BY DEF Sound, Answered
<1>2. PICK e \in DSORecord : e = S.dso[s] /\ Matched(e.out, S.peer[s])
  BY SoundParts
<1>3. e.out \in [Slots -> Questions \cup {Free, Ignored}] /\ e.session \in BOOLEAN
  BY DEF DSORecord
<1>4. [e.out EXCEPT ![slot] = Free] \in [Slots -> Questions \cup {Free, Ignored}]
  BY <1>1, <1>3
<1>5. PICK o \in [Slots -> Questions \cup {Free, Ignored}] : o = [e.out EXCEPT ![slot] = Free]
  BY <1>4
<1>6. PICK b \in BOOLEAN : b = (e.session \/ ok)
  BY <1>3
<1>7. LET f == [e EXCEPT !.out = o, !.session = b]
      IN  /\ f \in DSORecord /\ f.out = o /\ f.life = e.life /\ f.acts = e.acts
          /\ f.transport = e.transport
  BY DEF DSORecord
<1>8. d = [e EXCEPT !.out = o, !.session = b]
  BY <1>2, <1>5, <1>6
<1>9. /\ d \in DSORecord /\ d.out = o /\ d.life = "live" /\ d.acts = S.dso[s].acts
      /\ d.transport = S.dso[s].transport
  BY <1>2, <1>7, <1>8
<1>10. R = PutDSO(S, s, d)
  BY <1>1 DEF PutDSO, States, Freeing
<1> HIDE DEF d, R
<1>11. Matched(d.out, S.peer[s])
  <2>1. Matched(o, S.peer[s])
    BY <1>1, <1>2, <1>3, <1>5, FreeMatched DEF Answered
  <2> QED BY <1>9, <2>1
<1> DEFINE W == PutDSO(S, s, d)
<1>12. /\ Sound(W) /\ W.q = S.q /\ W.server = S.server /\ W.pinned = S.pinned
       /\ W.peer = S.peer /\ W.bad = S.bad
  BY <1>9, <1>11, DSOSound
<1>13. W.dso[s] = d
  BY <1>1, <1>9 DEF PutDSO, States
<1>14. R = W
  BY <1>10
<1> HIDE DEF W
<1> QED BY <1>2, <1>5, <1>9, <1>12, <1>13, <1>14 DEF R, Taken

\* Only the state of a question changes.
LLQStates == {"Init", "Discovery", "Connecting", "Established", "Poll"}
InState(R, x, k) == [R EXCEPT !.q[x].state = k]
Restated(R, E, x, k) ==
  /\ Sound(E) /\ E.dso = R.dso /\ E.peer = R.peer /\ E.pinned = R.pinned /\ E.bad = R.bad
  /\ E.server = R.server
  /\ \A z \in Questions \ {x} : E.q[z] = R.q[z]
  /\ E.q[x].on = R.q[x].on /\ E.q[x].dup = R.q[x].dup /\ E.q[x].server = R.q[x].server
  /\ E.q[x].nta = R.q[x].nta /\ E.q[x].state = k

\* Such a change keeps the invariant.
LEMMA QuestionState ==
  ASSUME NEW R, Sound(R), NEW x \in Questions, NEW k \in LLQStates
  PROVE  Restated(R, InState(R, x, k), x, k)
<1> DEFINE E == InState(R, x, k)
<1>1. PICK r \in QuestionRecord : r = R.q[x]
  BY DEF Sound, States
<1> DEFINE w == [r EXCEPT !.state = k]
           W == PutQuestion(R, x, w)
<1>2. w \in QuestionRecord /\ w.on = r.on /\ w.dup = r.dup /\ w.server = r.server /\ w.nta = r.nta
      /\ w.state = k
  BY DEF QuestionRecord, LLQStates
<1>3. r.nta => r.on /\ r.dup = NoQuestion
  BY <1>1 DEF Sound, Asked, QuestionRecord
<1>4. E = W
  BY <1>1, Zenon DEF PutQuestion, InState
<1> HIDE DEF w, E
<1>5. w.on = R.q[x].on /\ w.dup = R.q[x].dup /\ w.server = R.q[x].server
      /\ (w.nta => w.on /\ w.dup = NoQuestion) /\ w \in QuestionRecord
  BY <1>1, <1>2, <1>3
<1>6. /\ Sound(W) /\ W.q = [R.q EXCEPT ![x] = w] /\ W.pinned = R.pinned /\ W.peer = R.peer
      /\ W.dso = R.dso /\ W.bad = R.bad /\ W.server = R.server
  BY <1>5, QuestionSound
<1> HIDE DEF W
<1>7. W.q[x] = w /\ \A z \in Questions \ {x} : W.q[z] = R.q[z]
  BY <1>6 DEF Sound, States
<1> QED BY <1>1, <1>2, <1>4, <1>6, <1>7 DEF E, Restated

\* What a response does: nobody waits for it, it grants x its subscription, or it
\* refuses it.
Responded(S, T, x, ok) ==
  /\ Sound(T) /\ Serving(T) /\ Given(T) = Given(S)
  /\ \/ T.q = S.q /\ T.pinned = S.pinned
     \/ /\ x \in Questions /\ InUse(S.q, x) /\ InUse(T.q, x)
        /\ \A z \in Questions \ {x} : T.q[z] = S.q[z]
        /\ ok => /\ NameOf[x] \in Given(S) /\ T.pinned = S.pinned \ {NameOf[x]}
                 /\ T.q[x].state = "Established" /\ T.q[x].server = S.q[x].server
        /\ ~ok => T.pinned = S.pinned /\ Kind(T.q[x]) = "poll"

\* The response handlers do one of these.
LEMMA ReceiveResponseServes ==
  ASSUME NEW S, Sound(S), Serving(S), ~S.bad, NEW s \in Servers, NEW slot, NEW ok \in BOOLEAN,
         S.dso[s].life = "live", Answered(S, s, slot),
         S.dso[s].out[slot] \in Questions /\ ok => Lasting(S.peer[s], NameOf[S.dso[s].out[slot]])
  PROVE  Responded(S, ReceiveResponse(S, s, slot, ok), S.dso[s].out[slot], ok)
<1> DEFINE x == S.dso[s].out[slot]
           R == Freeing(S, s, slot, ok)
           T == ReceiveResponse(S, s, slot, ok)
           p == S.peer[s]
           out == S.dso[s].out
           o == [out EXCEPT ![slot] = Free]
<1>1. /\ Sound(R) /\ R.q = S.q /\ R.server = S.server /\ R.pinned = S.pinned
      /\ R.peer = S.peer /\ R.bad = S.bad /\ R.dso[s].life = "live" /\ R.dso[s].out = o
  <2>1. Taken(S, R, s, slot)
    BY FreeingSound
  <2> QED BY <2>1 DEF Taken
<1>2. /\ slot \in Slots /\ out[slot] # Free /\ out \in [Slots -> Questions \cup {Free, Ignored}]
      /\ Granting(S.q, s, out, p) /\ Matched(out, p) /\ OnePrimary(S.q) /\ NotPolling(S.q)
  <2>1. S.dso[s] \in DSORecord /\ Matched(out, p)
    BY SoundParts
  <2>2. slot \in Slots /\ out[slot] # Free
    BY DEF Answered
  <2>3. Granting(S.q, s, out, p) /\ OnePrimary(S.q) /\ NotPolling(S.q)
    BY DEF Serving
  <2> QED BY <2>1, <2>2, <2>3 DEF DSORecord
<1>3. x \in Questions \cup {Ignored} /\ Free \notin Questions
  BY <1>2, PushAssumption
<1>4. Sound(T)
  BY ReceiveResponseSound
<1>5. Given(S) = Had(p.subs) /\ (\A z \in Questions : S.q[z].server # 0 => S.q[z].server = s)
  BY OnlyLive
<1> HIDE DEF R
<1>6. \A i \in Slots : o[i] \in Questions => o[i] = out[i] /\ S.q[o[i]].on /\ S.q[o[i]].dup = NoQuestion
  BY <1>2, <1>3 DEF Granting, QueriesInUse
<1>7. Granting(S.q, s, o, p)
  <2> HIDE DEF o, out, p
  <2> QED BY <1>2, <1>6, GrantingTable
<1>8. ASSUME NEW F, F.dso = R.dso, F.peer = R.peer, F.bad = R.bad, F.q = R.q, Sound(F)
      PROVE  Serving(F) /\ Given(F) = Given(S)
  <2>1. F.dso[s].life = "live" /\ F.dso[s].out = o /\ F.peer[s] = p
    BY <1>1, <1>8
  <2>2. Given(F) = Had(p.subs)
    BY <1>8, <2>1, OnlyLive
  <2> HIDE DEF o
  <2>3. OnePrimary(F.q) /\ NotPolling(F.q) /\ Granting(F.q, s, F.dso[s].out, F.peer[s])
    BY <1>1, <1>2, <1>7, <1>8, <2>1
  <2> QED BY <1>5, <1>8, <2>1, <2>2, <2>3, ServingAt
<1>9. ASSUME x \in Questions PROVE InUse(S.q, x)
  BY <1>2, <1>9 DEF Granting, QueriesInUse, InUse
<1> HIDE DEF T, o
<1>10. CASE x = Ignored
  <2> DEFINE F == [R EXCEPT !.server[s].state = "SessionEstablished"]
  <2>1. T = F
    BY <1>10, Zenon DEF ReceiveResponse, R, T, Freeing
  <2>2. "SessionEstablished" \in ServerStates
    BY DEF ServerStates
  <2>3. Sound(F) /\ F.q = R.q /\ F.pinned = R.pinned /\ F.peer = R.peer /\ F.bad = R.bad /\ F.dso = R.dso
    BY <1>1, <2>2, ServerStateSound
  <2> HIDE DEF F
  <2>4. Serving(F) /\ Given(F) = Given(S)
    BY <1>8, <2>3
  <2> QED BY <1>1, <2>1, <2>3, <2>4 DEF Responded, T
<1>11. CASE x # Ignored /\ ~ok /\ S.q[x].server = 0
  <2>1. T = [S EXCEPT !.bad = TRUE]
    BY <1>11, Zenon DEF ReceiveResponse, T
  <2>2. S \in States
    BY DEF Sound
  <2>3. T.q = S.q /\ T.dso = S.dso /\ T.peer = S.peer /\ T.pinned = S.pinned /\ T.bad = TRUE
    BY <2>1, <2>2 DEF States
  <2>4. Serving(T)
    BY <1>2, <2>3 DEF Serving
  <2>5. Given(T) = Given(S)
    BY <2>3, SameGiven
  <2> QED BY <1>4, <2>3, <2>4, <2>5 DEF Responded, T
<1>12. CASE x \in Questions /\ ok
  <2> DEFINE E == InState(R, x, "Established")
             F == [E EXCEPT !.server[s].state = "SessionEstablished"]
  <2>1. x # Ignored
    BY <1>12, PushAssumption
  <2>2. T = Unpin([R EXCEPT !.q[x].state = "Established", !.server[s].state = "SessionEstablished"],
                  {NameOf[x]})
    BY <1>12, <2>1, Zenon DEF ReceiveResponse, R, T, Freeing
  <2>3. F = [R EXCEPT !.q[x].state = "Established", !.server[s].state = "SessionEstablished"]
    BY Zenon DEF InState
  <2>4. /\ Sound(E) /\ E.dso = R.dso /\ E.peer = R.peer /\ E.pinned = R.pinned /\ E.bad = R.bad
        /\ \A z \in Questions \ {x} : E.q[z] = R.q[z]
        /\ E.q[x].on = R.q[x].on /\ E.q[x].dup = R.q[x].dup /\ E.q[x].server = R.q[x].server
        /\ E.q[x].state = "Established"
    <3>1. x \in Questions /\ "Established" \in LLQStates
      BY <1>12 DEF LLQStates
    <3> HIDE DEF x
    <3>2. Restated(R, E, x, "Established")
      BY <1>1, <3>1, QuestionState
    <3> HIDE DEF E
    <3> QED BY <3>2 DEF Restated
  <2> HIDE DEF E
  <2>5. /\ Sound(F) /\ F.q = E.q /\ F.pinned = E.pinned /\ F.peer = E.peer /\ F.bad = E.bad
        /\ F.dso = E.dso
    <3>1. "SessionEstablished" \in ServerStates
      BY DEF ServerStates
    <3> QED BY <2>4, <3>1, ServerStateSound
  <2> HIDE DEF F
  <2>6. T = [F EXCEPT !.pinned = F.pinned \ {NameOf[x]}] /\ F \in States
    BY <2>2, <2>3, <2>5 DEF Unpin, Sound
  <2>7. /\ T.q = E.q /\ T.dso = R.dso /\ T.peer = R.peer /\ T.bad = R.bad
        /\ T.pinned = S.pinned \ {NameOf[x]}
    BY <1>1, <2>4, <2>5, <2>6 DEF States
  <2>8. Lasting(p, NameOf[x])
    BY <1>12
  <2>9. /\ \A z \in Questions \ {x} : T.q[z] = S.q[z]
        /\ T.q[x].on = S.q[x].on /\ T.q[x].dup = S.q[x].dup /\ T.q[x].server = S.q[x].server
        /\ T.q[x].state = "Established"
    BY <1>1, <2>4, <2>7
  <2> HIDE DEF x
  <2>10. OnePrimary(T.q) /\ NotPolling(T.q)
    BY <1>2, <2>9 DEF OnePrimary, NotPolling
  <2>11. Granting(T.q, s, o, p)
    <3>1. \A i \in Slots : o[i] \in Questions => T.q[o[i]].on /\ T.q[o[i]].dup = NoQuestion
      BY <1>6, <2>9 DEF o
    <3>2. \A z \in Questions : T.q[z].server = s /\ T.q[z].state = "Established" =>
            Lasting(p, NameOf[z]) \/ (S.q[z].server = s /\ S.q[z].state = "Established")
      BY <2>8, <2>9
    <3>3. Matched(o, p)
      <4>1. R.dso[s].out = o /\ R.peer[s] = p
        BY <1>1
      <4> HIDE DEF p
      <4> QED BY <1>1, <4>1, SoundParts
    <3> HIDE DEF p
    <3> QED BY <1>7, <3>1, <3>2, <3>3, GrantingTable
  <2>12. T.dso[s].life = "live" /\ T.dso[s].out = o /\ T.peer[s] = p
    BY <1>1, <2>7
  <2>13. Serving(T)
    <3> HIDE DEF p
    <3> QED BY <1>4, <2>10, <2>11, <2>12, ServingAt
  <2>14. Given(T) = Given(S)
    BY <1>4, <1>5, <2>12, OnlyLive
  <2>15. InUse(S.q, x) /\ InUse(T.q, x) /\ NameOf[x] \in Given(S)
    <3>1. InUse(S.q, x)
      BY <1>9, <1>12 DEF x
    <3>2. InUse(T.q, x)
      BY <2>9, <3>1 DEF InUse
    <3>3. PICK a \in Attempts : <<a, NameOf[x]>> \in p.subs
      BY <2>8 DEF Lasting, LastsOn
    <3>4. NameOf[x] \in Had(p.subs)
      BY <1>12, <3>3, NameTyped DEF Had
    <3> QED BY <1>5, <3>1, <3>2, <3>4
  <2>16. Responded(S, T, x, ok)
    BY <1>4, <1>12, <2>7, <2>9, <2>13, <2>14, <2>15 DEF Responded
  <2> QED BY <2>16 DEF T, x
<1>13. CASE x \in Questions /\ ~ok /\ S.q[x].server # 0
  <2> DEFINE t == S.q[x].server
             F == [R EXCEPT !.server[t].state = "NoDNSPush"]
  <2>1. x # Ignored
    BY <1>13, PushAssumption
  <2>2. T = StartLLQPolling(F, x)
    BY <1>13, <2>1, Zenon DEF ReceiveResponse, R, T, Freeing
  <2>3. t \in Servers
    BY <1>5, <1>13
  <2>4. "NoDNSPush" \in ServerStates
    BY DEF ServerStates
  <2> HIDE DEF t
  <2>5. Sound(F) /\ F.q = R.q /\ F.pinned = R.pinned /\ F.peer = R.peer /\ F.bad = R.bad /\ F.dso = R.dso
    BY <1>1, <2>3, <2>4, ServerStateSound
  <2> HIDE DEF F
  <2>6. Serving(F) /\ Given(F) = Given(S)
    BY <1>8, <2>5
  <2>7. InUse(F.q, x) /\ InUse(S.q, x)
    BY <1>1, <1>9, <1>13, <2>5
  <2> HIDE DEF x
  <2>8. /\ Serving(T) /\ Given(T) = Given(F) /\ T.pinned = F.pinned
        /\ InUse(T.q, x) /\ Kind(T.q[x]) = "poll"
        /\ \A z \in Questions \ {x} : T.q[z] = F.q[z]
    BY <1>13, <2>2, <2>5, <2>6, <2>7, PollServes
  <2>9. Responded(S, T, x, ok)
    BY <1>1, <1>4, <1>13, <2>5, <2>6, <2>7, <2>8 DEF Responded
  <2> QED BY <2>9 DEF T, x
<1> QED BY <1>3, <1>10, <1>11, <1>12, <1>13, PushAssumption

\* A response, in a step from the current state.
LEMMA RespondedServes ==
  ASSUME Serving(Now), NEW S, S.q = q, S.pinned = pinned, Given(S) = Given(Now),
         NEW T, NEW x, NEW ok \in BOOLEAN, Responded(S, T, x, ok), Become(T)
  PROVE  Serving(Now)' /\ [Service!Next]_(Service!vars)
<1>1. Sound(T) /\ Serving(T) /\ Given(T) = Given(Now) /\ T \in States /\ OnePrimary(q)
  BY NowTyped DEF Responded, Sound, Serving
<1>2. CASE T.q = q /\ T.pinned = pinned
  BY <1>1, <1>2, Served, Unnoticed
<1>3. ASSUME x \in Questions, InUse(q, x), InUse(T.q, x), \A z \in Questions \ {x} : T.q[z] = q[z],
             ok => /\ NameOf[x] \in Given(Now) /\ T.pinned = pinned \ {NameOf[x]}
                   /\ T.q[x].state = "Established" /\ T.q[x].server = q[x].server,
             ~ok => T.pinned = pinned /\ Kind(T.q[x]) = "poll"
      PROVE  Serving(Now)' /\ [Service!Next]_(Service!vars)
  <2> DEFINE n == NameOf[x]
  <2>1. /\ n \in Names /\ Modes(q)[n] = Kind(q[x]) /\ Modes(q)[n] # "off"
        /\ Modes(T.q) = [Modes(q) EXCEPT ![n] = Kind(T.q[x])]
    BY <1>1, <1>3, OneQuestionModes
  <2>2. CASE ~ok
    BY <1>1, <1>3, <2>1, <2>2, Served, FallStep
  <2>3. CASE ok /\ q[x].server # 0
    <3>1. Kind(T.q[x]) = "push"
      BY <1>3, <2>3 DEF Kind
    <3> QED BY <1>1, <1>3, <2>1, <2>3, <3>1, Served, PushStep
  <2>4. CASE ok /\ q[x].server = 0
    <3>1. Kind(T.q[x]) = "waiting"
      BY <1>3, <2>4 DEF Kind
    <3>2. CASE Modes(q)[n] = "poll"
      BY <1>1, <1>3, <2>1, <2>4, <3>1, <3>2, Served, StallStep
    <3>3. CASE Modes(q)[n] # "poll"
      <4>1. Kind(q[x]) = "waiting"
        BY <2>1, <2>4, <3>3 DEF Kind
      <4>2. Modes(T.q) = Modes(q)
        BY <2>1, <3>1, <4>1 DEF Modes
      <4> QED BY <1>1, <1>3, <2>1, <2>4, <4>2, Served, PinStep
    <3> QED BY <3>2, <3>3
  <2> QED BY <2>2, <2>3, <2>4
<1> QED BY <1>2, <1>3 DEF Responded

\* An update, in a step from the current state.
LEMMA UpdateServes ==
  ASSUME Serving(Now), NEW S, Sound(S), Serving(S), S.q = q, S.pinned = pinned, Given(S) = Given(Now),
         NEW s \in Servers, NEW n \in Names, NEW add \in BOOLEAN, NEW cached \in BOOLEAN,
         Become(ReceiveUpdate(S, s, n, add, cached))
  PROVE  Serving(Now)' /\ [Service!Next]_(Service!vars)
<1> DEFINE T == ReceiveUpdate(S, s, n, add, cached)
<1>1. Sound(T) /\ S \in States
  BY ReceiveUpdateSound DEF Sound
<1>2. /\ T.q = S.q /\ T.dso = S.dso /\ T.peer = S.peer /\ T.bad = S.bad
      /\ \/ T.pinned = S.pinned
         \/ T.pinned = S.pinned \ {n}
         \/ T.pinned = S.pinned \cup {n} /\ \E x \in Questions : S.q[x].server = s /\ NameOf[x] = n
  <2>1. CASE \A x \in Holders(S, s) : NameOf[x] # n
    BY <2>1 DEF ReceiveUpdate
  <2>2. CASE (\E x \in Holders(S, s) : NameOf[x] = n) /\ ~add
    <3>1. T = [S EXCEPT !.pinned = @ \ {n}]
      BY <2>2 DEF ReceiveUpdate, Unpin
    <3> QED BY <1>1, <3>1 DEF States
  <2>3. CASE (\E x \in Holders(S, s) : NameOf[x] = n) /\ add /\ cached
    BY <2>3 DEF ReceiveUpdate
  <2>4. CASE (\E x \in Holders(S, s) : NameOf[x] = n) /\ add /\ ~cached
    <3>1. T = [S EXCEPT !.pinned = @ \cup {n}]
      BY <2>4 DEF ReceiveUpdate
    <3> QED BY <1>1, <2>4, <3>1 DEF States, Holders
  <2> QED BY <2>1, <2>2, <2>3, <2>4
<1> HIDE DEF T
<1>3. Serving(T) /\ Given(T) = Given(Now) /\ Modes(T.q) = Modes(q) /\ T \in States
  BY <1>1, <1>2 DEF Serving, Given, Sound
<1>4. ASSUME NEW x \in Questions, S.q[x].server = s, NameOf[x] = n PROVE Modes(q)[n] # "off"
  <2>1. InUse(S.q, x)
    <3>1. s # 0 /\ S.q[x] \in QuestionRecord
      BY PushAssumption DEF Servers, Sound, States
    <3> QED BY <1>4, <3>1 DEF InUse, Sound, Asked, QuestionRecord
  <2> QED BY <1>4, <2>1, ModeOff DEF Modes
<1>5. T.pinned = pinned \/ T.pinned = pinned \ {n} \/ (T.pinned = pinned \cup {n} /\ Modes(q)[n] # "off")
  BY <1>2, <1>4
<1> QED BY <1>1, <1>3, <1>5, Served, Unnoticed, PinStep DEF T

\* A message from the push server.
LEMMA ReceiveServes ==
  ASSUME Sound(Now), Serving(Now), ~bad, NEW s \in Servers, Receive(s)
  PROVE  Serving(Now)' /\ [Service!Next]_(Service!vars)
<1> DEFINE p == peer[s]
           Took(i) ==
             LET m == p.down[i]
                 S == [Now EXCEPT !.peer[s].down = Without(@, i)]
             IN  \/ m.type = "response" /\ Become(ReceiveResponse(S, s, m.slot, m.ok))
                 \/ \E cached \in BOOLEAN : Become(ReceiveUpdate(S, s, m.name, m.ok, cached))
<1>0. PICK k \in DOMAIN p.down : Took(k)
  BY Zenon DEF Receive, Foremost
<1> DEFINE m == p.down[k]
           r == [p EXCEPT !.down = Without(p.down, k)]
           S == [Now EXCEPT !.peer[s].down = Without(@, k)]
<1>1. p \in PeerRecord /\ Matched(dso[s].out, p) /\ dso[s].life = "live" /\ Now \in States
  BY SoundParts, NowTyped DEF Receive, Sound
<1>2. p.down \in Seq(Answers)
  BY <1>1 DEF PeerRecord
<1>3. m \in Answers /\ k \in 1..Len(p.down) /\ Without(p.down, k) \in Seq(Answers)
  BY <1>2, WithoutIs
<1>4. r \in PeerRecord /\ r.up = p.up /\ r.down = Without(p.down, k) /\ r.subs = p.subs
  <2>1. r \in PeerRecord /\ r.up = p.up /\ r.down = Without(p.down, k)
    BY <1>1, <1>3, PeerDown, Zenon
  <2>2. r.subs = p.subs
    BY <1>1 DEF PeerRecord
  <2> QED BY <2>1, <2>2
<1>5. m.name \in Names /\ m.ok \in BOOLEAN
  BY <1>3 DEF Answers
<1>6. S = PutPeer(Now, s, r)
  <2>1. S = [Now EXCEPT !.peer = [Now.peer EXCEPT ![s] = [Now.peer[s] EXCEPT !.down = Without(Now.peer[s].down, k)]]]
    BY Zenon
  <2> QED BY <2>1, NowTyped, Zenon DEF PutPeer
<1> HIDE DEF S, r, m, p
<1>7. /\ Matched(dso[s].out, r)
      /\ m.type = "response" =>
           /\ m.slot \in Slots /\ dso[s].out[m.slot] # Free
           /\ \A i \in Requests(r) : r.up[i].slot # m.slot
           /\ \A i \in Responses(r) : r.down[i].slot # m.slot
  BY <1>1, <1>4, ReadAnswer DEF m
<1>8. Sound(S)
  <2>1. Matched(Now.dso[s].out, r) /\ Now.dso[s].transport # "none"
    <3>1. Quiet(dso[s], connect[s], p)
      BY SoundParts, NowTyped DEF p
    <3>2. dso[s].transport # "none"
      BY <1>1, <3>1, <1>3 DEF Quiet, NoPeer
    <3> QED BY <1>7, <3>2, NowTyped
  <2> QED BY <1>4, <1>6, <2>1, PeerSound, Zenon
<1>9. /\ S.peer[s] = r /\ S.dso = dso /\ S.q = q /\ S.pinned = pinned /\ S.bad = bad
  BY <1>1, <1>4, <1>6, NowTyped DEF PutPeer, States
<1>10. Granting(q, s, dso[s].out, p)
  BY <1>1, LiveGrants DEF p
<1>11. Serving(S)
  <2>1. Granting(q, s, dso[s].out, r)
    BY <1>1, <1>4, <1>10, GrantingHear
  <2>2. OnePrimary(q) /\ NotPolling(q)
    BY NowTyped DEF Serving
  <2> QED BY <1>1, <1>8, <1>9, <2>1, <2>2, ServingAt
<1>12. Given(S) = Given(Now)
  <2>1. Given(S) = Had(r.subs)
    BY <1>1, <1>8, <1>9, OnlyLive
  <2>2. Given(Now) = Had(p.subs)
    BY <1>1, NowTyped, OnlyLive DEF p
  <2> QED BY <1>4, <2>1, <2>2
<1>13. CASE m.type = "response" /\ Become(ReceiveResponse(S, s, m.slot, m.ok))
  <2>1. Answered(S, s, m.slot)
    BY <1>7, <1>9, <1>13 DEF Answered
  <2> DEFINE x == S.dso[s].out[m.slot]
             T == ReceiveResponse(S, s, m.slot, m.ok)
  <2>2. x \in Questions /\ m.ok => Lasting(S.peer[s], NameOf[x])
    <3> SUFFICES ASSUME x \in Questions, m.ok PROVE Lasting(r, NameOf[x])
      BY <1>9
    <3>1. k \in Responses(p) /\ p.down[k] = m
      BY <1>3, <1>13 DEF Responses, m
    <3>2. Lasting(p, NameOf[x])
      BY <1>9, <1>10, <3>1 DEF Granting, ResponsesLast
    <3> QED BY <1>4, <3>2 DEF Lasting, LastsOn
  <2>3. Responded(S, T, x, m.ok)
    BY <1>1, <1>5, <1>8, <1>9, <1>11, <2>1, <2>2, ReceiveResponseServes
  <2>4. Become(T)
    BY <1>13
  <2> HIDE DEF T, x
  <2> QED BY <1>5, <1>9, <1>12, <2>3, <2>4, RespondedServes
<1>14. ASSUME NEW cached \in BOOLEAN, Become(ReceiveUpdate(S, s, m.name, m.ok, cached))
       PROVE  Serving(Now)' /\ [Service!Next]_(Service!vars)
  BY <1>5, <1>8, <1>9, <1>11, <1>12, <1>14, UpdateServes
<1> QED BY <1>0, <1>13, <1>14 DEF S, m, p

-----------------------------------------------------------------------------
(* The connection is made, for the names.                                  *)

\* A question that holds a server is in use.
LEMMA HolderInUse ==
  ASSUME NEW S, Sound(S), NEW x \in Questions, S.q[x].server # 0
  PROVE  InUse(S.q, x)
<1>1. S.q[x] \in QuestionRecord
  BY DEF Sound, States
<1> QED BY <1>1 DEF InUse, Sound, Asked, QuestionRecord

\* A request joins those on their way.
LEMMA AskServes ==
  ASSUME NEW S, Sound(S), Serving(S), NEW s \in Servers, S.dso[s].life = "live",
         NEW x \in Questions, InUse(S.q, x)
  PROVE  LET T == SendSubscribe(S, s, x)
         IN  Sound(T) /\ Serving(T) /\ Told(S, T)
<1> DEFINE T == SendSubscribe(S, s, x)
<1>1. S \in States /\ Matched(S.dso[s].out, S.peer[s])
  BY SoundParts DEF Sound
<1>2. Sound(T) /\ Told(S, T)
  BY <1>1, SubscribeSent, SentSound
<1>3. S.bad \/ Granting(S.q, s, T.dso[s].out, T.peer[s])
  <2>1. S.q[x].on /\ S.q[x].dup = NoQuestion
    BY DEF InUse
  <2>2. S.bad \/ Granting(S.q, s, S.dso[s].out, S.peer[s])
    BY DEF Serving
  <2> QED BY <1>1, <2>1, <2>2, AskGrants
<1> HIDE DEF T
<1>4. OnePrimary(S.q) /\ NotPolling(S.q)
  BY DEF Serving
<1>5. T.q = S.q /\ T.bad = S.bad /\ T.dso[s].life = "live"
  BY <1>2 DEF Told
<1>6. Serving(T)
  BY <1>2, <1>3, <1>4, <1>5, ServingAt
<1> QED BY <1>2, <1>6 DEF T

\* The requests of DNSPushServerConnected, one after the other.
AskServing(t, R, p) == Sound(R) /\ Serving(R) /\ Told(p[1], R)
AsksServe == INSTANCE FoldInduction WITH Op <- AskOp, P <- AskServing

\* DNSPushServerConnected asks for every question that waits, and no name is
\* served in another way yet.
LEMMA ConnectedServes ==
  ASSUME NEW S, Sound(S), Serving(S), NEW s \in Servers, S.dso[s].life = "live"
  PROVE  LET B0 == [S EXCEPT !.server[s].state = "Connected"]
             T == Connected(S, s)
         IN  Sound(T) /\ Serving(T) /\ Told(B0, T) /\ B0.q = S.q /\ B0.pinned = S.pinned
             /\ B0.dso = S.dso /\ B0.peer = S.peer
<1> DEFINE B0 == [S EXCEPT !.server[s].state = "Connected"]
           p == <<B0, s>>
           A == S.dso[s].acts
<1>1. /\ Sound(B0) /\ B0.dso = S.dso /\ B0.q = S.q /\ B0.pinned = S.pinned /\ B0.peer = S.peer
      /\ B0.bad = S.bad
  <2>1. "Connected" \in ServerStates
    BY DEF ServerStates
  <2> QED BY <2>1, ServerStateSound, Zenon
<1> HIDE DEF B0
<1>2. p[1] = B0 /\ p[2] = s
  OBVIOUS
<1>3. A \in SUBSET Questions /\ IsFiniteSet(A) /\ \A x \in A : InUse(S.q, x)
  <2>1. A \in SUBSET Questions
    BY SoundParts DEF DSORecord
  <2>2. A = Holders(S, s)
    BY SoundParts DEF Joined
  <2>3. s # 0
    BY PushAssumption DEF Servers
  <2>4. \A x \in A : InUse(S.q, x)
    BY <2>1, <2>2, <2>3, HolderInUse DEF Holders
  <2> QED BY <2>1, <2>4, PushAssumption, FS_Subset
<1> HIDE DEF p, A
<1>4. AskServing({}, B0, p)
  BY <1>1, <1>2 DEF AskServing, Told, Serving
<1>5. ASSUME NEW t \in SUBSET A, NEW R, NEW x \in t, AskServing(t \ {x}, R, p)
      PROVE  AskServing(t, AskOp(x, R, p), p)
  <2>1. Sound(R) /\ Serving(R) /\ Told(B0, R)
    BY <1>2, <1>5 DEF AskServing
  <2>2. R.dso[s].life = "live" /\ x \in Questions /\ InUse(R.q, x)
    BY <1>1, <1>3, <2>1 DEF Told
  <2> DEFINE T == SendSubscribe(R, s, x)
  <2>3. Sound(T) /\ Serving(T) /\ Told(R, T)
    BY <2>1, <2>2, AskServes
  <2> HIDE DEF T
  <2>4. Told(B0, T)
    BY <2>1, <2>3 DEF Told
  <2>5. AskOp(x, R, p) = T
    BY <1>2 DEF AskOp, T
  <2> QED BY <1>2, <2>3, <2>4, <2>5 DEF AskServing
<1>6. AsksServe!IsFiniteSet(A)
  BY <1>3 DEF IsFiniteSet, AsksServe!IsFiniteSet
<1>7. AskServing(A, AsksServe!Fold(A, B0, p), p)
  <2>1. \A t \in SUBSET A : \A R : \A x \in t :
           AskServing(t \ {x}, R, p) => AskServing(t, AskOp(x, R, p), p)
    BY <1>5
  <2> QED BY <1>4, <1>6, <2>1, AsksServe!FoldPreserves, Zenon
<1>8. AsksServe!Fold(A, B0, p) = Connected(S, s)
  <2> DEFINE F(k) == FoldSet(LAMBDA x, R : SendSubscribe(R, k, x), B0, A)
  <2>1. AsksServe!Fold(A, B0, p) = F(p[2])
    BY Zenon DEF AsksServe!Fold, AsksServe!FoldSet, AsksServe!MapThenFoldSet, FoldSet, MapThenFoldSet, AskOp
  <2>2. F(s) = Connected(S, s)
    BY Zenon DEF Connected, A, B0
  <2> HIDE DEF F
  <2> QED BY <1>2, <2>1, <2>2
<1> QED BY <1>1, <1>2, <1>7, <1>8 DEF AskServing, B0

\* A connection attempt succeeds.
LEMMA ConnectionReadyServes ==
  ASSUME Sound(Now), Serving(Now), ~bad, NEW s \in Servers, NEW a \in Attempts, ConnectionReady(s, a)
  PROVE  Serving(Now)' /\ [Service!Next]_(Service!vars)
<1>1. PICK S : MadeReady(S, s) /\ Become(Connected(S, s))
  BY ConnectionReadyIs, Zenon
<1>2. /\ Sound(S) /\ S.q = q /\ S.pinned = pinned /\ S.bad = bad
      /\ dso[s].life = "live" /\ S.dso[s].life = "live" /\ S.dso[s].out = dso[s].out
      /\ S.peer[s].up = peer[s].up /\ S.peer[s].down = peer[s].down /\ S.peer[s].subs = peer[s].subs
  BY <1>1, NowTyped DEF MadeReady
<1>3. Serving(S)
  <2>1. Granting(q, s, dso[s].out, peer[s])
    BY <1>2, LiveGrants
  <2>2. Granting(q, s, dso[s].out, S.peer[s])
    BY <1>2, <2>1, GrantingClosed
  <2>3. OnePrimary(q) /\ NotPolling(q)
    BY NowTyped DEF Serving
  <2> QED BY <1>2, <2>2, <2>3, ServingAt
<1> DEFINE B0 == [S EXCEPT !.server[s].state = "Connected"]
           T == Connected(S, s)
<1>4. /\ Sound(T) /\ Serving(T) /\ Told(B0, T) /\ B0.q = S.q /\ B0.pinned = S.pinned
      /\ B0.dso = S.dso /\ B0.peer = S.peer
  BY <1>2, <1>3, ConnectedServes
<1>5. Become(T)
  BY <1>1
<1> HIDE DEF T, B0
<1>6. T.q = q /\ T.pinned = pinned /\ T.dso[s].life = "live" /\ T.peer[s].subs = peer[s].subs
  BY <1>2, <1>4 DEF Told
<1>7. Given(T) = Given(Now)
  <2>1. Given(T) = Had(T.peer[s].subs)
    BY <1>4, <1>6, OnlyLive
  <2>2. Given(Now) = Had(peer[s].subs)
    BY <1>2, NowTyped, OnlyLive
  <2> QED BY <1>6, <2>1, <2>2
<1>8. T \in States
  BY <1>4 DEF Sound
<1> QED BY <1>4, <1>5, <1>6, <1>7, <1>8, Served, Unnoticed

-----------------------------------------------------------------------------
(* A question subscribes, for the names.                                   *)

\* The server offered to a question grants what the listed one grants, or has
\* nothing to do with any question yet.
LEMMA OfferGrants ==
  ASSUME NEW S, Sound(S), Serving(S), ~S.bad, NEW s \in Servers, NEW ok \in BOOLEAN,
         S.server[s].listed \/ (S.server[s] = NoServer /\ \A t \in Servers : ~S.server[t].listed)
  PROVE  LET C == ZoneAndServerCopy(S, s, ok)
         IN  /\ Offered(S, C, s) /\ Granting(S.q, s, C.dso[s].out, C.peer[s])
             /\ Given(S) = Had(C.peer[s].subs)
<1> DEFINE C == ZoneAndServerCopy(S, s, ok)
<1>1. CASE S.server[s].listed
  <2>1. C = [S EXCEPT !.server[s].refs = @ + 1, !.server[s].zrefs = @ + 1]
    BY <1>1 DEF ZoneAndServerCopy
  <2>2. Offered(S, C, s)
    BY <1>1, <2>1, ListedOffered, Zenon
  <2>3. C.dso = S.dso /\ C.peer = S.peer
    BY <2>1 DEF Sound, States
  <2>4. S.dso[s].life = "live"
    BY <1>1, SoundParts DEF Joined
  <2>5. Granting(S.q, s, S.dso[s].out, S.peer[s])
    BY <2>4 DEF Serving
  <2>6. Given(S) = Had(S.peer[s].subs)
    BY <2>4, OnlyLive
  <2> HIDE DEF C
  <2> QED BY <2>2, <2>3, <2>5, <2>6 DEF C
<1>2. CASE ~S.server[s].listed
  <2>1. /\ Offered(S, C, s) /\ C.peer[s] = NoPeer /\ \A i \in Slots : C.dso[s].out[i] = Free
    BY <1>2, FreshOffered DEF ZoneAndServerCopy
  <2>2. \A t \in Servers : S.dso[t].life # "live" /\ Holders(S, t) = {}
    BY <1>2, SoundParts DEF Joined
  <2>3. Given(S) = {}
    BY <2>2, NoneLive
  <2>4. Had(NoPeer.subs) = {} /\ NoPeer.up = <<>> /\ NoPeer.down = <<>>
    BY DEF NoPeer, Had
  <2> HIDE DEF C
  <2>5. QueriesInUse(S.q, C.dso[s].out)
    BY <2>1, PushAssumption DEF QueriesInUse
  <2>6. RequestsLast(C.dso[s].out, NoPeer) /\ ResponsesLast(C.dso[s].out, NoPeer)
    BY <2>4 DEF RequestsLast, ResponsesLast, Requests, Responses
  <2>7. PushedLast(S.q, s, NoPeer)
    BY <2>2 DEF PushedLast, Holders
  <2> QED BY <2>1, <2>3, <2>4, <2>5, <2>6, <2>7 DEF Granting, C
<1> QED BY <1>1, <1>2

\* The request of the question, if it is sent already.
LEMMA AddedGrants ==
  ASSUME NEW C \in States, NEW s \in Servers, NEW x \in Questions, NEW qs,
         Matched(C.dso[s].out, C.peer[s]), Granting(qs, s, C.dso[s].out, C.peer[s]), InUse(qs, x),
         NEW M, M \in {Adding(C, s, x), SendSubscribe(Adding(C, s, x), s, x)}
  PROVE  /\ Sent(Adding(C, s, x), M, s) /\ Granting(qs, s, M.dso[s].out, M.peer[s])
         /\ M.peer[s].subs = C.peer[s].subs
<1> DEFINE A == Adding(C, s, x)
<1>1. A \in States /\ A.dso[s].out = C.dso[s].out /\ A.peer = C.peer
  BY AddingIs
<1>2. M = A \/ M = SendSubscribe(A, s, x)
  OBVIOUS
<1> HIDE DEF A
<1>3. Matched(A.dso[s].out, A.peer[s]) /\ Granting(qs, s, A.dso[s].out, A.peer[s])
  BY <1>1
<1>4. Sent(A, M, s)
  BY <1>1, <1>2, <1>3, SentNothing, SubscribeSent
<1>5. Granting(qs, s, M.dso[s].out, M.peer[s])
  <2>1. qs[x].on /\ qs[x].dup = NoQuestion
    BY DEF InUse
  <2> QED BY <1>1, <1>2, <1>3, <2>1, AskGrants
<1>6. M.peer[s].subs = C.peer[s].subs
  <2>1. PICK p \in PeerRecord : p = A.peer[s]
    BY <1>1 DEF States
  <2>2. M.peer = [A.peer EXCEPT ![s] = [p EXCEPT !.up = M.peer[s].up]]
    BY <1>4, <2>1 DEF Sent
  <2>3. M.peer[s] = [p EXCEPT !.up = M.peer[s].up]
    BY <1>1, <2>2 DEF States
  <2>4. M.peer[s].subs = p.subs
    BY <2>3 DEF PeerRecord
  <2> QED BY <1>1, <2>1, <2>4
<1> QED BY <1>4, <1>5, <1>6 DEF A

\* SubscribeToDNSPushServer: the question polls, or it held none and holds the
\* server now, which may be given up at once.
Subscribed(S, T, x, s) ==
  \/ T = StartLLQPolling(S, x)
  \/ /\ S.q[x].server = 0
     /\ Sound(T) /\ Serving(T) /\ Given(T) = Given(S) /\ T.pinned = S.pinned
     /\ Modes(T.q) = Modes(S.q)
  \/ /\ S.q[x].server = 0
     /\ \E H : /\ T = DNSPushServerCancel(H, s) /\ Sound(H) /\ OnePrimary(H.q) /\ NotPolling(H.q)
               /\ Modes(H.q) = Modes(S.q) /\ H.server[s].listed

\* It does one of these.
LEMMA SubscribeServes ==
  ASSUME NEW S, Sound(S), Serving(S), ~S.bad, NEW x \in Questions, NEW s \in Servers, NEW ok \in BOOLEAN,
         InUse(S.q, x), S.q[x].state = "Connecting", ~S.q[x].nta,
         S.server[s].listed \/ (S.server[s] = NoServer /\ \A t \in Servers : ~S.server[t].listed)
  PROVE  Subscribed(S, Subscribe(S, x, s, ok), x, s)
<1> DEFINE C == ZoneAndServerCopy(S, s, ok)
           A == Adding(C, s, x)
           M == IF C.server[s].state \in {"Connected", "SessionEstablished"}
                THEN SendSubscribe(A, s, x) ELSE A
           H == Holding(M, s, x)
<1>1. Offered(S, C, s) /\ Granting(S.q, s, C.dso[s].out, C.peer[s]) /\ Given(S) = Had(C.peer[s].subs)
  BY OfferGrants
<1>2. Subscribe(S, x, s, ok) =
        IF \E y \in C.dso[s].acts : NameOf[y] = NameOf[x]
        THEN StartLLQPolling(ReleaseServer(ReleaseZone(C, s, 1), s, 1), x)
        ELSE IF H.server[s].state \in {"InProgress", "Connected", "SessionEstablished"} THEN H
        ELSE DNSPushServerCancel(H, s)
  BY Zenon DEF Subscribe, Adding, Holding
<1>3. CASE \E y \in C.dso[s].acts : NameOf[y] = NameOf[x]
  <2>1. S.server[s].listed
    <3>1. ASSUME ~S.server[s].listed PROVE FALSE
      <4>1. ServerCreate(S, s, ok).dso[s].acts = {} /\ C = ServerCreate(S, s, ok)
        BY <3>1, FreshOffered DEF ZoneAndServerCopy
      <4> HIDE DEF C
      <4> QED BY <1>3, <4>1
    <3> QED BY <3>1
  <2>2. ReleaseServer(ReleaseZone(C, s, 1), s, 1) = S
    BY <2>1, ListedOffered DEF ZoneAndServerCopy
  <2> HIDE DEF C, H
  <2>3. Subscribe(S, x, s, ok) = StartLLQPolling(S, x)
    BY <1>2, <1>3, <2>2
  <2> QED BY <2>3 DEF Subscribed
<1>4. CASE \A y \in C.dso[s].acts : NameOf[y] # NameOf[x]
  <2> HIDE DEF C
  <2>1. C \in States /\ Matched(C.dso[s].out, C.peer[s]) /\ C.dso[s].acts = Holders(S, s)
        /\ C.server[s].listed
    BY <1>1 DEF Offered, Joined
  <2>2. S.q[x].server = 0
    <3>1. ASSUME S.q[x].server # 0 PROVE FALSE
      <4>1. S.q[x].server \in Servers /\ x \in Holders(S, S.q[x].server) /\ S.server[S.q[x].server].listed
        BY <3>1, HolderListed
      <4>2. S.q[x].server = s
        BY <1>1, <4>1 DEF Offered
      <4> QED BY <1>4, <2>1, <4>1, <4>2
    <3> QED BY <3>1
  <2>3. /\ Sent(A, M, s) /\ Granting(S.q, s, M.dso[s].out, M.peer[s])
        /\ M.peer[s].subs = C.peer[s].subs
    <3>1. M \in {Adding(C, s, x), SendSubscribe(Adding(C, s, x), s, x)}
      OBVIOUS
    <3> HIDE DEF M
    <3>2. /\ Sent(Adding(C, s, x), M, s) /\ Granting(S.q, s, M.dso[s].out, M.peer[s])
          /\ M.peer[s].subs = C.peer[s].subs
      BY <1>1, <2>1, <3>1, AddedGrants
    <3> QED BY <3>2
  <2>4. A \in States /\ A.q = C.q /\ A.pinned = C.pinned /\ A.bad = C.bad /\ A.server = C.server
    BY <2>1, AddingIs
  <2> HIDE DEF M
  <2>5. Sound(H)
    <3>1. S.q[x].on /\ S.q[x].dup = NoQuestion
      BY DEF InUse
    <3> QED BY <1>1, <2>2, <2>3, <3>1, JoinSound
  <2> HIDE DEF A
  <2>6. /\ M \in States /\ M.q = S.q /\ M.pinned = S.pinned /\ M.bad = S.bad /\ M.server = C.server
        /\ Matched(M.dso[s].out, M.peer[s])
    BY <1>1, <2>3, <2>4 DEF Sent, Offered
  <2>7. /\ H.pinned = M.pinned /\ H.bad = M.bad /\ H.server = M.server
        /\ H.peer = M.peer /\ H.dso = M.dso
        /\ H.q[x].server = s /\ H.q[x].on = M.q[x].on /\ H.q[x].dup = M.q[x].dup
        /\ H.q[x].nta = M.q[x].nta /\ H.q[x].state = M.q[x].state
        /\ \A z \in Questions \ {x} : H.q[z] = M.q[z]
    BY <2>6, HoldingIs
  <2> HIDE DEF H
  <2>8. \A z \in Questions : /\ H.q[z].on = S.q[z].on /\ H.q[z].dup = S.q[z].dup
                             /\ H.q[z].state = S.q[z].state /\ H.q[z].nta = S.q[z].nta
                             /\ z # x => H.q[z] = S.q[z]
    BY <2>6, <2>7
  <2>9. OnePrimary(H.q) /\ NotPolling(H.q) /\ OnePrimary(S.q)
    BY <2>8 DEF Serving, OnePrimary, NotPolling
  <2>10. Modes(H.q) = Modes(S.q)
    <3>1. \A z \in Questions : InUse(H.q, z) <=> InUse(S.q, z)
      BY <2>8 DEF InUse
    <3>2. \A z \in Questions : Kind(H.q[z]) = Kind(S.q[z])
      <4> TAKE z \in Questions
      <4>1. CASE z = x
        BY <2>8, <4>1 DEF Kind
      <4> QED BY <2>8, <4>1
    <3> QED BY <2>9, <3>1, <3>2, SameModes
  <2>11. H.server[s].listed
    BY <2>1, <2>6, <2>7
  <2>12. CASE Subscribe(S, x, s, ok) = H
    <3>1. H.dso[s].life = "live"
      BY <2>5, <2>11, SoundParts DEF Joined
    <3>2. Given(H) = Given(S)
      <4>1. Given(H) = Had(H.peer[s].subs)
        BY <2>5, <3>1, OnlyLive
      <4> QED BY <1>1, <2>3, <2>7, <4>1
    <3>3. Granting(H.q, s, H.dso[s].out, H.peer[s])
      <4> DEFINE o == M.dso[s].out
                 p == M.peer[s]
      <4>1. \A i \in Slots : o[i] \in Questions => H.q[o[i]].on /\ H.q[o[i]].dup = NoQuestion
        BY <2>3, <2>8 DEF Granting, QueriesInUse
      <4>2. \A z \in Questions : H.q[z].server = s /\ H.q[z].state = "Established" =>
              S.q[z].server = s /\ S.q[z].state = "Established"
        BY <2>8
      <4>3. Granting(S.q, s, o, p) /\ Matched(o, p)
        BY <2>3, <2>6
      <4> HIDE DEF o, p
      <4>4. Granting(H.q, s, o, p)
        BY <4>1, <4>2, <4>3, GrantingTable
      <4> QED BY <2>7, <4>4 DEF o, p
    <3>4. Serving(H)
      BY <2>5, <2>9, <3>1, <3>3, ServingAt
    <3> QED BY <2>2, <2>5, <2>6, <2>7, <2>10, <2>12, <3>2, <3>4 DEF Subscribed
  <2>13. CASE Subscribe(S, x, s, ok) = DNSPushServerCancel(H, s)
    BY <2>2, <2>5, <2>9, <2>10, <2>11, <2>13, Zenon DEF Subscribed
  <2> QED BY <1>2, <1>4, <2>12, <2>13
<1> HIDE DEF C
<1> QED BY <1>3, <1>4

\* A question in use stops looking for its zone, or starts connecting.
Retuned(S, T, x, w) ==
  /\ Sound(T) /\ Serving(T) /\ Given(T) = Given(S) /\ T.pinned = S.pinned /\ T.bad = S.bad
  /\ T.server = S.server /\ T.q[x] = w /\ InUse(T.q, x)
  /\ \A z \in Questions \ {x} : T.q[z] = S.q[z]

\* No name is served in another way yet.
LEMMA RetuneServes ==
  ASSUME NEW S, Sound(S), Serving(S), NEW x \in Questions, InUse(S.q, x), NEW w \in QuestionRecord,
         w.on = S.q[x].on, w.dup = S.q[x].dup, w.server = S.q[x].server, ~w.nta,
         w.state = S.q[x].state \/ w.state = "Connecting"
  PROVE  Retuned(S, PutQuestion(S, x, w), x, w)
<1> DEFINE T == PutQuestion(S, x, w)
<1>1. /\ Sound(T) /\ T.q = [S.q EXCEPT ![x] = w] /\ T.pinned = S.pinned /\ T.peer = S.peer
      /\ T.dso = S.dso /\ T.bad = S.bad /\ T.server = S.server
  BY QuestionSound
<1> HIDE DEF T
<1>2. T.q[x] = w /\ \A z \in Questions \ {x} : T.q[z] = S.q[z]
  BY <1>1 DEF Sound, States
<1>3. \A z \in Questions : InUse(T.q, z) <=> InUse(S.q, z)
  BY <1>2 DEF InUse
<1>4. OnePrimary(T.q) /\ NotPolling(T.q)
  <2>1. OnePrimary(S.q) /\ NotPolling(S.q)
    BY DEF Serving
  <2>2. OnePrimary(T.q)
    BY <1>3, <2>1 DEF OnePrimary, InUse
  <2>3. NotPolling(T.q)
    BY <1>2, <2>1 DEF NotPolling
  <2> QED BY <2>2, <2>3
<1>5. \A z \in Questions : T.q[z].server # 0 /\ T.q[z].state = "Established" =>
        S.q[z].server = T.q[z].server /\ S.q[z].state = "Established"
  BY <1>2
<1>6. Serving(T) /\ Given(T) = Given(S)
  BY <1>1, <1>3, <1>4, <1>5, QuestionsServe
<1> QED BY <1>1, <1>2, <1>3, <1>6 DEF Retuned, T

\* The answer to the search for a push server.
LEMMA GotZoneDataServes ==
  ASSUME Sound(Now), Serving(Now), ~bad, NEW x \in Questions, GotZoneData(x)
  PROVE  Serving(Now)' /\ [Service!Next]_(Service!vars)
<1> DEFINE G == [Now EXCEPT !.q[x].nta = FALSE]
           S == [G EXCEPT !.q[x].state = "Connecting"]
<1>1. Now \in States /\ q[x].on /\ q[x].nta
  BY NowTyped DEF Sound, GotZoneData
<1>2. PICK r \in QuestionRecord : r = Now.q[x] /\ r = q[x]
  BY <1>1, NowTyped DEF States
<1>3. r.on /\ r.nta /\ r.dup = NoQuestion /\ InUse(Now.q, x) /\ InUse(q, x) /\ r.state # "Poll"
  <2>1. r.on /\ r.nta /\ r.dup = NoQuestion
    BY <1>1, <1>2, NowTyped DEF Sound, Asked
  <2>2. r.state # "Poll"
    BY <1>2, <2>1 DEF Serving, NotPolling
  <2> QED BY <1>2, <2>1, <2>2 DEF InUse
<1> DEFINE g == [r EXCEPT !.nta = FALSE]
           h == [g EXCEPT !.state = "Connecting"]
<1>4. /\ g \in QuestionRecord /\ g.on = r.on /\ g.dup = r.dup /\ g.server = r.server /\ g.nta = FALSE
      /\ g.state = r.state
  BY DEF QuestionRecord
<1>5. G = PutQuestion(Now, x, g)
  BY <1>2, Zenon DEF PutQuestion
<1> HIDE DEF g
<1>6. /\ h \in QuestionRecord /\ h.on = g.on /\ h.dup = g.dup /\ h.server = g.server /\ h.nta = g.nta
      /\ h.state = "Connecting"
  BY <1>4 DEF QuestionRecord
<1>7. Retuned(Now, PutQuestion(Now, x, g), x, g)
  BY <1>2, <1>3, <1>4, RetuneServes
<1> HIDE DEF G
<1>8. /\ Sound(G) /\ Serving(G) /\ Given(G) = Given(Now) /\ G.pinned = pinned /\ G.bad = bad
      /\ G.server = server /\ G.q[x] = g /\ InUse(G.q, x)
      /\ \A z \in Questions \ {x} : G.q[z] = q[z]
  BY <1>5, <1>7, NowTyped DEF Retuned
<1>9. S = PutQuestion(G, x, h)
  BY <1>8, Zenon DEF PutQuestion
<1> HIDE DEF h, S
<1>10. Retuned(G, PutQuestion(G, x, h), x, h)
  BY <1>4, <1>6, <1>8, RetuneServes
<1>11. /\ Sound(S) /\ Serving(S) /\ Given(S) = Given(Now) /\ S.pinned = pinned /\ S.bad = bad
       /\ S.server = server /\ S.q[x] = h /\ InUse(S.q, x)
       /\ \A z \in Questions \ {x} : S.q[z] = q[z]
  BY <1>8, <1>9, <1>10 DEF Retuned
<1>12. ASSUME NEW R, Sound(R), Serving(R), Given(R) = Given(Now), R.pinned = pinned, InUse(R.q, x),
              \A z \in Questions \ {x} : R.q[z] = q[z], Become(StartLLQPolling(R, x))
       PROVE  Serving(Now)' /\ [Service!Next]_(Service!vars)
  <2> DEFINE T == StartLLQPolling(R, x)
  <2>1. /\ Sound(T) /\ Serving(T) /\ Given(T) = Given(R) /\ T.pinned = R.pinned
        /\ InUse(T.q, x) /\ Kind(T.q[x]) = "poll"
        /\ \A z \in Questions \ {x} : T.q[z] = R.q[z]
    BY <1>12, PollServes
  <2>2. Become(T)
    BY <1>12
  <2> HIDE DEF T
  <2> QED BY <1>3, <1>12, <2>1, <2>2, FallsBack
<1>13. CASE Become(StartLLQPolling(G, x))
  BY <1>8, <1>12, <1>13
<1>14. S.q[x].server = 0 => Modes(S.q) = Modes(q)
  <2> SUFFICES ASSUME S.q[x].server = 0 PROVE Modes(S.q) = Modes(q)
    OBVIOUS
  <2>1. OnePrimary(q) /\ OnePrimary(S.q)
    BY <1>11, NowTyped DEF Serving
  <2>2. \A z \in Questions : InUse(S.q, z) <=> InUse(q, z)
    BY <1>3, <1>11 DEF InUse
  <2>3. Kind(S.q[x]) = Kind(q[x])
    BY <1>2, <1>3, <1>4, <1>6, <1>11 DEF Kind
  <2> QED BY <1>11, <2>1, <2>2, <2>3, SameModes
<1>15. ASSUME NEW s \in (IF Listed # {} THEN Listed ELSE Fresh), NEW ok \in BOOLEAN,
              Become(Subscribe(S, x, s, ok))
       PROVE  Serving(Now)' /\ [Service!Next]_(Service!vars)
  <2> DEFINE T == Subscribe(S, x, s, ok)
  <2>1. s \in Servers
    BY DEF Listed, Fresh
  <2>2. S.server[s].listed \/ (S.server[s] = NoServer /\ \A t \in Servers : ~S.server[t].listed)
    BY <1>11 DEF Listed, Fresh
  <2>3. Subscribed(S, T, x, s)
    BY <1>4, <1>6, <1>11, <2>1, <2>2, SubscribeServes
  <2>4. Become(T)
    BY <1>15
  <2> HIDE DEF T
  <2>5. CASE T = StartLLQPolling(S, x)
    BY <1>11, <1>12, <2>4, <2>5
  <2>6. CASE S.q[x].server = 0 /\ Sound(T) /\ Serving(T) /\ Given(T) = Given(S) /\ T.pinned = S.pinned
             /\ Modes(T.q) = Modes(S.q)
    <3>1. T \in States
      BY <2>6 DEF Sound
    <3> QED BY <1>11, <1>14, <2>4, <2>6, <3>1, Served, Unnoticed
  <2>7. ASSUME NEW H, S.q[x].server = 0, T = DNSPushServerCancel(H, s), Sound(H), OnePrimary(H.q),
               NotPolling(H.q), Modes(H.q) = Modes(S.q), H.server[s].listed
        PROVE  Serving(Now)' /\ [Service!Next]_(Service!vars)
    <3>1. Modes(H.q) = Modes(q) /\ Become(DNSPushServerCancel(H, s))
      BY <1>14, <2>4, <2>7
    <3> QED BY <2>1, <2>7, <3>1, CancelStep
  <2> QED BY <2>3, <2>5, <2>6, <2>7, Zenon DEF Subscribed
<1> QED BY <1>13, <1>15 DEF GotZoneData, G, S

\* dso_idle, for the names.
LEMMA DSOIdleServes ==
  ASSUME Sound(Now), Serving(Now), DSOIdle
  PROVE  Serving(Now)' /\ [Service!Next]_(Service!vars)
<1>1. PICK T : Idled(T) /\ Become(T)
  BY DSOIdleIs, Zenon
<1>2. /\ Sound(T) /\ T.q = q /\ T.pinned = pinned /\ T.bad = bad
      /\ \A s \in Servers : /\ T.dso[s].life = "live" <=> dso[s].life = "live"
                            /\ dso[s].life = "live" => T.dso[s] = dso[s] /\ T.peer[s] = peer[s]
  BY <1>1 DEF Idled
<1>3. Serving(T)
  <2>1. OnePrimary(T.q) /\ NotPolling(T.q)
    BY <1>2, NowTyped DEF Serving
  <2>2. ASSUME NEW s \in Servers, T.dso[s].life = "live", ~T.bad
        PROVE  Granting(T.q, s, T.dso[s].out, T.peer[s])
    <3>1. dso[s].life = "live" /\ T.dso[s] = dso[s] /\ T.peer[s] = peer[s] /\ ~bad
      BY <1>2, <2>2
    <3> QED BY <1>2, <3>1, LiveGrants
  <2> QED BY <2>1, <2>2 DEF Serving
<1>4. Given(T) = Given(Now)
  <2>1. \A s \in Servers : /\ T.dso[s].life = "live" <=> Now.dso[s].life = "live"
                           /\ Now.dso[s].life = "live" => T.peer[s].subs = Now.peer[s].subs
    BY <1>2, NowTyped
  <2> QED BY <2>1, SameGiven
<1>5. T \in States
  BY <1>2 DEF Sound
<1> QED BY <1>1, <1>2, <1>3, <1>4, <1>5, Served, Unnoticed

-----------------------------------------------------------------------------
(* A new DNS configuration, for the names.                                 *)

\* The loops of a change of configuration, for what the names rely on.
StopServing(t, R, p) ==
  /\ Sound(R) /\ Serving(R) /\ Given(R) = Given(p)
  /\ \A s \in Servers : R.server[s].listed = p.server[s].listed
StopsServe == INSTANCE FoldInduction WITH Op <- StopOp, P <- StopServing

Begun(r) == r.on /\ r.state = "Init" /\ r.server = 0
StartServing(t, R, p) ==
  /\ Sound(R) /\ Serving(R) /\ Given(R) = Given(p) /\ R.pinned = p.pinned /\ R.server = p.server
  /\ \A z \in Questions : IF z \in t THEN Begun(R.q[z]) ELSE R.q[z] = p.q[z]
StartsServe == INSTANCE FoldInduction WITH Op <- StartOp, P <- StartServing

CancelOnce(t, R, p) ==
  IF t = {} THEN R = p ELSE \A s \in t : R = DNSPushServerCancel(p, s)
CancelsOnce == INSTANCE FoldInduction WITH Op <- CancelOp, P <- CancelOnce

\* Questions are stopped one after the other.
LEMMA StopAllServes ==
  ASSUME NEW S, Sound(S), Serving(S), NEW X \in SUBSET Questions
  PROVE  StopServing(X, ForEach(Stop, S, X), S)
<1>1. StopServing({}, S, S)
  BY DEF StopServing
<1>2. ASSUME NEW t \in SUBSET X, NEW R, NEW x \in t, StopServing(t \ {x}, R, S)
      PROVE  StopServing(t, StopOp(x, R, S), S)
  <2> DEFINE T == Stop(R, x)
  <2>1. /\ Sound(R) /\ Serving(R) /\ Given(R) = Given(S) /\ x \in Questions
        /\ \A s \in Servers : R.server[s].listed = S.server[s].listed
    BY <1>2 DEF StopServing
  <2>2. Sound(T) /\ StoppedIn(R, T, x)
    BY <2>1, StopSound
  <2>3. Serving(T) /\ Given(T) = Given(R)
    BY <2>1, StopServes
  <2> HIDE DEF T
  <2>4. \A s \in Servers : T.server[s].listed = R.server[s].listed
    BY <2>2 DEF StoppedIn
  <2>5. StopServing(t, T, S)
    BY <2>1, <2>2, <2>3, <2>4 DEF StopServing
  <2> QED BY <2>5 DEF StopOp, T
<1>3. StopsServe!IsFiniteSet(X)
  <2>1. IsFiniteSet(X)
    BY PushAssumption, FS_Subset
  <2> QED BY <2>1 DEF IsFiniteSet, StopsServe!IsFiniteSet
<1>4. StopServing(X, StopsServe!Fold(X, S, S), S)
  <2>1. \A t \in SUBSET X : \A R : \A x \in t :
          StopServing(t \ {x}, R, S) => StopServing(t, StopOp(x, R, S), S)
    BY <1>2
  <2> QED BY <1>1, <1>3, <2>1, StopsServe!FoldPreserves, Zenon
<1>5. StopsServe!Fold(X, S, S) = ForEach(Stop, S, X)
  BY Zenon DEF StopsServe!Fold, StopsServe!FoldSet, StopsServe!MapThenFoldSet, ForEach, FoldSet, MapThenFoldSet, StopOp
<1> QED BY <1>4, <1>5

\* Questions that are stopped are started one after the other.
LEMMA StartAllServes ==
  ASSUME NEW S, Sound(S), Serving(S), NEW X \in SUBSET Questions, \A x \in X : ~S.q[x].on
  PROVE  StartServing(X, ForEach(Start, S, X), S)
<1>1. StartServing({}, S, S)
  BY DEF StartServing
<1>2. ASSUME NEW t \in SUBSET X, NEW R, NEW x \in t, StartServing(t \ {x}, R, S)
      PROVE  StartServing(t, StartOp(x, R, S), S)
  <2> DEFINE T == Start(R, x)
  <2>1. /\ Sound(R) /\ Serving(R) /\ Given(R) = Given(S) /\ R.pinned = S.pinned /\ R.server = S.server
        /\ x \in Questions
        /\ \A z \in Questions : IF z \in t \ {x} THEN Begun(R.q[z]) ELSE R.q[z] = S.q[z]
    BY <1>2 DEF StartServing
  <2>2. ~R.q[x].on
    BY <1>2, <2>1
  <2>3. Sound(T) /\ StartedIn(R, T, x)
    BY <2>1, <2>2, StartSound
  <2>4. Serving(T) /\ Given(T) = Given(R)
    BY <2>1, <2>2, StartServes
  <2> HIDE DEF T
  <2>5. R.q \in [Questions -> QuestionRecord]
    BY <2>1 DEF Sound, States
  <2>6. /\ T.server = R.server /\ T.pinned = R.pinned /\ Begun(T.q[x])
        /\ \A z \in Questions \ {x} : T.q[z] = R.q[z]
    BY <2>1, <2>3, <2>5 DEF StartedIn, Begun
  <2>7. \A z \in Questions : IF z \in t THEN Begun(T.q[z]) ELSE T.q[z] = S.q[z]
    BY <1>2, <2>1, <2>6
  <2>8. StartServing(t, T, S)
    BY <2>1, <2>3, <2>4, <2>6, <2>7 DEF StartServing
  <2> QED BY <2>8 DEF StartOp, T
<1>3. StartsServe!IsFiniteSet(X)
  <2>1. IsFiniteSet(X)
    BY PushAssumption, FS_Subset
  <2> QED BY <2>1 DEF IsFiniteSet, StartsServe!IsFiniteSet
<1>4. StartServing(X, StartsServe!Fold(X, S, S), S)
  <2>1. \A t \in SUBSET X : \A R : \A x \in t :
          StartServing(t \ {x}, R, S) => StartServing(t, StartOp(x, R, S), S)
    BY <1>2
  <2> QED BY <1>1, <1>3, <2>1, StartsServe!FoldPreserves, Zenon
<1>5. StartsServe!Fold(X, S, S) = ForEach(Start, S, X)
  BY Zenon DEF StartsServe!Fold, StartsServe!FoldSet, StartsServe!MapThenFoldSet, ForEach, FoldSet, MapThenFoldSet, StartOp
<1> QED BY <1>4, <1>5

\* At most one server is listed, so at most one is cancelled.
LEMMA CancelAtMostOne ==
  ASSUME NEW S, NEW X \in SUBSET Servers, \A s, t \in X : s = t
  PROVE  CancelOnce(X, ForEach(DNSPushServerCancel, S, X), S)
<1>1. CancelOnce({}, S, S)
  BY DEF CancelOnce
<1>2. ASSUME NEW t \in SUBSET X, NEW R, NEW x \in t, CancelOnce(t \ {x}, R, S)
      PROVE  CancelOnce(t, CancelOp(x, R, S), S)
  <2>1. t \ {x} = {} /\ \A s \in t : s = x
    OBVIOUS
  <2>2. R = S
    BY <1>2, <2>1 DEF CancelOnce
  <2> QED BY <2>1, <2>2 DEF CancelOnce, CancelOp
<1>3. CancelsOnce!IsFiniteSet(X)
  <2>1. IsFiniteSet(X)
    BY ServersFinite, FS_Subset
  <2> QED BY <2>1 DEF IsFiniteSet, CancelsOnce!IsFiniteSet
<1>4. CancelOnce(X, CancelsOnce!Fold(X, S, S), S)
  <2>1. \A t \in SUBSET X : \A R : \A x \in t :
          CancelOnce(t \ {x}, R, S) => CancelOnce(t, CancelOp(x, R, S), S)
    BY <1>2
  <2> QED BY <1>1, <1>3, <2>1, CancelsOnce!FoldPreserves, Zenon
<1>5. CancelsOnce!Fold(X, S, S) = ForEach(DNSPushServerCancel, S, X)
  BY Zenon DEF CancelsOnce!Fold, CancelsOnce!FoldSet, CancelsOnce!MapThenFoldSet, ForEach, FoldSet, MapThenFoldSet, CancelOp
<1> QED BY <1>4, <1>5

\* A name is off when no question for it is open: a duplicate follows one in use.
LEMMA OffIs ==
  ASSUME NEW S, Sound(S), NEW n
  PROVE  ModeIn(S.q, n) = "off" <=> \A x \in Questions : S.q[x].on => NameOf[x] # n
<1>1. ASSUME NEW x \in Questions, S.q[x].on, NameOf[x] = n
      PROVE  \E y \in Questions : InUse(S.q, y) /\ NameOf[y] = n
  <2>1. S.q[x].dup \in Questions \cup {NoQuestion}
    BY DEF Sound, States, QuestionRecord
  <2>2. CASE S.q[x].dup = NoQuestion
    BY <1>1, <2>2 DEF InUse
  <2>3. CASE S.q[x].dup # NoQuestion
    BY <1>1, <2>1, <2>3 DEF Sound, Asked, InUse
  <2> QED BY <2>2, <2>3
<1>2. \A x \in Questions : InUse(S.q, x) => S.q[x].on
  BY DEF InUse
<1> QED BY <1>1, <1>2, ModeOff

\* Every question is restarted: its name looks for push again.
LEMMA AllBegin ==
  ASSUME Sound(Now), NEW S, Sound(S), Serving(S),
         \A z \in Questions : /\ S.q[z].on <=> q[z].on
                              /\ S.q[z].on => Begun(S.q[z])
  PROVE  Modes(S.q) = WaitingAgain(Modes(q))
<1>1. ASSUME NEW n \in Names
      PROVE  ModeIn(S.q, n) = IF ModeIn(q, n) = "off" THEN "off" ELSE "waiting"
  <2>1. ModeIn(q, n) = "off" <=> \A x \in Questions : q[x].on => NameOf[x] # n
    BY OffIs, NowTyped
  <2>2. ModeIn(S.q, n) = "off" <=> \A x \in Questions : S.q[x].on => NameOf[x] # n
    BY OffIs
  <2>3. ModeIn(q, n) = "off" <=> ModeIn(S.q, n) = "off"
    BY <2>1, <2>2
  <2>4. CASE ModeIn(S.q, n) # "off"
    <3>1. PICK y \in Questions : InUse(S.q, y) /\ NameOf[y] = n
      BY <2>4, ModeOff
    <3>2. Kind(S.q[y]) = "waiting"
      BY <3>1 DEF InUse, Begun, Kind
    <3>3. ModeIn(S.q, n) = "waiting"
      BY <3>1, <3>2, ModeOn DEF Serving
    <3> QED BY <2>3, <2>4, <3>3
  <2> QED BY <2>3, <2>4
<1> QED BY <1>1 DEF Modes, WaitingAgain

\* Querier_ProcessDNSServiceChanges.
LEMMA ReconfigureServes ==
  ASSUME Sound(Now), Serving(Now), Reconfigure
  PROVE  Serving(Now)' /\ [Service!Next]_(Service!vars)
<1> DEFINE idle == {s \in Listed : Holders(Now, s) = {}}
           first == {x \in Questions : q[x].on /\ q[x].dup = NoQuestion}
           rest == {x \in Questions : q[x].on /\ q[x].dup # NoQuestion}
           R1 == ForEach(Stop, Now, first)
           R == ForEach(Stop, R1, rest)
           S1 == ForEach(Start, R, first)
           S2 == ForEach(Start, S1, rest)
           T == ForEach(DNSPushServerCancel, S2, idle)
<1>1. Become(T)
  BY DEF Reconfigure
<1>2. /\ first \in SUBSET Questions /\ rest \in SUBSET Questions /\ idle \in SUBSET Servers
      /\ first \cap rest = {}
      /\ \A z \in Questions : z \in first \cup rest <=> q[z].on
      /\ \A s \in idle : server[s].listed
  <2>1. \A z \in Questions : q[z].on \in BOOLEAN
    BY NowTyped DEF Sound, States, QuestionRecord
  <2> QED BY <2>1 DEF Listed
<1>3. \A s, t \in idle : s = t
  BY <1>2, NowTyped DEF Sound, Single
<1> HIDE DEF first, rest, idle
<1>4. StopServing(first, R1, Now) /\ \A z \in Questions : R1.q[z].on => q[z].on /\ z \notin first
  <2>1. StopServing(first, R1, Now)
    BY <1>2, StopAllServes
  <2>2. \A z \in Questions : R1.q[z].on => Now.q[z].on /\ z \notin first
    BY <1>2, StopAll
  <2> HIDE DEF R1
  <2> QED BY <2>1, <2>2, NowTyped
<1> HIDE DEF R1
<1>5. StopServing(rest, R, R1) /\ \A z \in Questions : R.q[z].on => R1.q[z].on /\ z \notin rest
  <2>1. Sound(R1) /\ Serving(R1)
    BY <1>4 DEF StopServing
  <2> QED BY <1>2, <2>1, StopAllServes, StopAll
<1> HIDE DEF R
<1>6. /\ Sound(R) /\ Serving(R) /\ Given(R) = Given(Now)
      /\ \A s \in Servers : R.server[s].listed = server[s].listed
      /\ \A z \in Questions : ~R.q[z].on
  <2>1. /\ Sound(R) /\ Serving(R) /\ Given(R) = Given(Now)
        /\ \A s \in Servers : R.server[s].listed = server[s].listed
    BY <1>4, <1>5, NowTyped DEF StopServing
  <2>2. \A z \in Questions : ~R.q[z].on
    BY <1>2, <1>4, <1>5
  <2> QED BY <2>1, <2>2
<1>7. R.pinned = {}
  BY <1>6 DEF Sound, Backed
<1>8. StartServing(first, S1, R)
  BY <1>2, <1>6, StartAllServes
<1> HIDE DEF S1
<1>9. StartServing(rest, S2, S1)
  <2>1. Sound(S1) /\ Serving(S1) /\ \A z \in Questions \ first : S1.q[z] = R.q[z]
    BY <1>8 DEF StartServing
  <2>2. \A x \in rest : ~S1.q[x].on
    BY <1>2, <1>6, <2>1
  <2> QED BY <1>2, <2>1, <2>2, StartAllServes
<1> HIDE DEF S2
<1>10. /\ Sound(S2) /\ Serving(S2) /\ Given(S2) = Given(Now) /\ S2.pinned = {}
       /\ \A s \in Servers : S2.server[s].listed = server[s].listed
  BY <1>6, <1>7, <1>8, <1>9 DEF StartServing
<1>11. \A z \in Questions : /\ S2.q[z].on <=> q[z].on
                            /\ S2.q[z].on => Begun(S2.q[z])
  <2> TAKE z \in Questions
  <2>1. CASE z \in rest
    <3>1. Begun(S2.q[z])
      BY <1>9, <2>1 DEF StartServing
    <3> QED BY <1>2, <2>1, <3>1 DEF Begun
  <2>2. CASE z \notin rest /\ z \in first
    <3>1. Begun(S1.q[z]) /\ S2.q[z] = S1.q[z]
      BY <1>8, <1>9, <2>2 DEF StartServing
    <3> QED BY <1>2, <2>2, <3>1 DEF Begun
  <2>3. CASE z \notin rest /\ z \notin first
    <3>1. S2.q[z] = R.q[z]
      BY <1>8, <1>9, <2>3 DEF StartServing
    <3> QED BY <1>2, <1>6, <2>3, <3>1
  <2> QED BY <2>1, <2>2, <2>3
<1>12. Modes(S2.q) = WaitingAgain(Modes(q))
  BY <1>10, <1>11, AllBegin
<1>13. CancelOnce(idle, T, S2)
  BY <1>2, <1>3, CancelAtMostOne
<1> HIDE DEF T
<1>14. Sound(T) /\ Serving(T) /\ Given(T) \subseteq Given(Now) /\ T.pinned = {} /\ Modes(T.q) = Modes(S2.q)
  <2>1. CASE idle = {}
    BY <1>10, <1>13, <2>1 DEF CancelOnce
  <2>2. ASSUME NEW s \in idle
        PROVE  Sound(T) /\ Serving(T) /\ Given(T) \subseteq Given(Now) /\ T.pinned = {} /\ Modes(T.q) = Modes(S2.q)
    <3> DEFINE C == DNSPushServerCancel(S2, s)
               N == {NameOf[y] : y \in Holders(S2, s)}
    <3>1. T = C
      BY <1>13, <2>2 DEF CancelOnce
    <3>2. s \in Servers /\ S2.server[s].listed /\ OnePrimary(S2.q) /\ NotPolling(S2.q)
      BY <1>2, <1>10, <2>2 DEF Serving
    <3>3. Sound(C) /\ Serving(C) /\ Given(C) = {} /\ C.pinned = {} /\ Lost(Modes(S2.q), Modes(C.q), N)
      BY <1>10, <3>2, CancelServes
    <3>4. N = {}
      <4>1. s # 0
        BY <3>2, PushAssumption DEF Servers
      <4>2. \A y \in Questions : S2.q[y].server = 0
        BY <1>10, <1>11 DEF Begun, Sound, Asked
      <4> QED BY <4>1, <4>2 DEF Holders
    <3> HIDE DEF C, N
    <3>5. Modes(C.q) = Modes(S2.q)
      <4>1. Modes(C.q) = [n \in Names |-> Modes(S2.q)[n]]
        BY <3>3, <3>4 DEF Lost
      <4> QED BY <4>1 DEF Modes
    <3> QED BY <3>1, <3>3, <3>5
  <2> QED BY <2>1, <2>2
<1>15. T \in States
  BY <1>14 DEF Sound
<1> QED BY <1>1, <1>12, <1>14, <1>15, Served, AgainStep

-----------------------------------------------------------------------------
(* Every step of the client is a step of the service, or none.             *)

\* Serving is inductive together with Sound, and each action is matched.
LEMMA StepServes ==
  Sound(Now) /\ Serving(Now) /\ [Next]_vars => Serving(Now)' /\ [Service!Next]_(Service!vars)
<1> SUFFICES ASSUME Sound(Now), Serving(Now), [Next]_vars
             PROVE  Serving(Now)' /\ [Service!Next]_(Service!vars)
  OBVIOUS
<1>1. CASE UNCHANGED vars
  <2>1. Become(Now) /\ Now' = Now /\ Now \in States
    BY <1>1 DEF vars, Now, Become, Sound
  <2>2. Modes(Now.q) = Modes(q) /\ Now.pinned = pinned
    BY NowTyped
  <2> QED BY <2>1, <2>2, Unnoticed
<1>2. CASE Next
  <2>0. ~bad
    BY <1>2 DEF Next
  <2> DEFINE Matched1 == Serving(Now)' /\ [Service!Next]_(Service!vars)
  <2>1. ASSUME NEW x \in Questions, StartQuery(x) \/ StopQuery(x) \/ Timers(x) PROVE Matched1
    BY <2>0, <2>1, StartQueryServes, StopQueryServes, HandleLLQStateServes, GotZoneDataServes DEF Timers
  <2>2. CASE Wake \/ Reconfigure \/ DSOIdle
    BY <2>2, WakeServes, ReconfigureServes, DSOIdleServes
  <2>3. ASSUME NEW s \in Servers, Connecting(s) PROVE Matched1
    BY <2>0, <2>3, AddressCallbackServes, GivesUpServes, ConnectionWaitingServes,
       ConnectionFailedServes, ConnectionReadyServes DEF Connecting
  <2>4. ASSUME NEW s \in Servers, Session(s) PROVE Matched1
    BY <2>0, <2>4, ReceiveServes, GivesUpServes DEF Session
  <2>5. ASSUME NEW s \in Servers, Remote(s) PROVE Matched1
    BY <2>0, <2>5, PeerReceiveServes, PeerClosesServes, PeerUpdateServes DEF Remote
  <2> QED BY <1>2, <2>1, <2>2, <2>3, <2>4, <2>5 DEF Next
<1> QED BY <1>1, <1>2

\* Before mDNS_StartQuery is first called every name is off, nothing is granted
\* and nothing is permanent.
LEMMA InitServes == Init => Serving(Now) /\ Service!Init
<1> SUFFICES ASSUME Init PROVE Serving(Now) /\ Service!Init
  OBVIOUS
<1>1. /\ \A x \in Questions : ~q[x].on /\ ~q[x].nta
      /\ \A s \in Servers : dso[s].life # "live"
      /\ pinned = {}
  BY DEF Init, Stopped, NoDSO
<1>2. Serving(Now)
  <2>1. OnePrimary(q) /\ NotPolling(q)
    BY <1>1 DEF OnePrimary, NotPolling
  <2> QED BY <1>1, <2>1, NowTyped DEF Serving
<1>3. \A n \in Names : Mode(n) = "off"
  BY <1>1 DEF Mode
<1>4. {n \in Names : \E s \in Servers, a \in Attempts :
                       dso[s].life = "live" /\ <<a, n>> \in peer[s].subs} = {}
  BY <1>1
<1> QED BY <1>1, <1>2, <1>3, <1>4 DEF Service!Init

\* The DNS Push client implements PushService: whatever servers, connections and
\* timers it takes, a name is served by push only while the push server has its
\* subscription, every name falls back when the connection ends, and nothing
\* permanent is left in the cache of a name that is closed.
THEOREM PushServiceIsKept == Spec => Implements
<1>1. Init => Sound(Now)
  BY InitSound
<1>2. Sound(Now) /\ [Next]_vars => Sound(Now)'
  BY StepSound
<1>3. Init => Serving(Now) /\ Service!Init
  BY InitServes
<1>4. Sound(Now) /\ Serving(Now) /\ [Next]_vars => Serving(Now)' /\ [Service!Next]_(Service!vars)
  BY StepServes
<1> QED BY <1>1, <1>2, <1>3, <1>4, PTL DEF Spec, Implements, Service!Spec
=============================================================================
