----------------------------- MODULE DNSPushProofs -----------------------------
(***************************************************************************)
(* DNSPush has an inductive invariant, Sound.  First what each of the      *)
(* operators that the actions are built from (unsubscribing,               *)
(* DNSPushServerCancel, stopping and starting a question, sending) does to *)
(* a state that satisfies it, then the actions, one lemma each.  Hence     *)
(* TypeOK, ReferencesCounted and PushedRecordsBacked hold for every number *)
(* of questions, names, servers, addresses and outstanding queries.        *)
(***************************************************************************)
EXTENDS DNSPush, FiniteSetTheorems, SequenceTheorems, TLAPS

-----------------------------------------------------------------------------
(* The inductive invariant, on the state records that the steps map.       *)

\* The types of the records; counts are integers here, and that they never drop
\* below zero is part of what is proved.
Lives == {"none", "live", "cleanup"}
QuestionRecord ==
  [on : BOOLEAN, dup : Questions \cup {NoQuestion},
   state : {"Init", "Discovery", "Connecting", "Established", "Poll"},
   server : Servers \cup {0}, nta : BOOLEAN]
ServerRecord ==
  [refs : Int, listed : BOOLEAN, zrefs : Int, zlisted : BOOLEAN,
   state : {"none", "InProgress", "ConnectFailed", "Connected", "SessionEstablished", "NoDNSPush"},
   connection : BOOLEAN, connectInfo : BOOLEAN]
DSORecord ==
  {d \in [life : Lives, session : BOOLEAN, transport : {"none", "made"},
          connection : Attempts \cup {0}, reading : SUBSET Attempts,
          acts : SUBSET Questions, out : [Slots -> Questions \cup {Free, Ignored}]] :
     d.transport = "none" => d.connection = 0}
ConnectRecord ==
  [life : Lives, lookup : BOOLEAN, queue : Nat, tried : Nat, connecting : BOOLEAN,
   current : Attempts \cup {0}, last_event : BOOLEAN,
   nw : [Attempts -> {"none", "starting", "cancelling", "ready"}]]
PeerRecord ==
  [open : SUBSET Attempts, subs : SUBSET (Attempts \X Names), up : Seq(Messages), down : Seq(Answers)]

States ==
  [q : [Questions -> QuestionRecord], server : [Servers -> ServerRecord],
   dso : [Servers -> DSORecord], connect : [Servers -> ConnectRecord],
   peer : [Servers -> PeerRecord], pinned : SUBSET Names, bad : BOOLEAN]

\* Requests and responses on their way have a slot each, and it is not free.
Requests(p) == {i \in 1..Len(p.up) : p.up[i].type = "subscribe"}
Responses(p) == {i \in 1..Len(p.down) : p.down[i].type = "response"}
Matched(out, p) ==
  /\ \A i \in Requests(p) : p.up[i].slot \in Slots /\ out[p.up[i].slot] # Free
  /\ \A i \in Responses(p) : p.down[i].slot \in Slots /\ out[p.down[i].slot] # Free
  /\ \A i, j \in Requests(p) : p.up[i].slot = p.up[j].slot => i = j
  /\ \A i, j \in Responses(p) : p.down[i].slot = p.down[j].slot => i = j
  /\ \A i \in Requests(p), j \in Responses(p) : p.up[i].slot # p.down[j].slot

\* The counts of a server with holders H, extra references not counted.
Counted(v, d, H, extra) ==
  /\ v.listed => v.zrefs = 1 + Cardinality(H) /\ v.refs = 4 + Cardinality(H) + extra
  /\ ~v.listed => v.zrefs = 0 /\ v.refs = extra + B(d.life = "cleanup")

\* A server is listed, connected and in use all at once, its holders are those
\* whose activity it has, and what it was cancelled with is quiet.
Joined(v, d, c, H) ==
  /\ v.zlisted = v.listed /\ v.connection = v.listed /\ v.connectInfo = v.listed
  /\ d.life = "live" <=> v.listed
  /\ c.life = "live" <=> v.listed
  /\ v.listed => d.acts = H
  /\ ~v.listed => H = {}
Quiet(d, c, p) ==
  /\ c.life # "live" => ~c.lookup /\ ~c.last_event /\ \A a \in Attempts : c.nw[a] = "none"
  /\ c.queue + c.tried <= MaxAddresses
  /\ d.life = "none" => d = NoDSO
  /\ d.transport = "none" => p = NoPeer

\* All of it, for the records of one server.
Whole(v, d, c, p, H, extra) ==
  /\ Counted(v, d, H, extra) /\ Joined(v, d, c, H) /\ Quiet(d, c, p) /\ Matched(d.out, p)

At(S, s, extra) ==
  Whole(S.server[s], S.dso[s], S.connect[s], S.peer[s], Holders(S, s), extra)

\* A duplicate holds nothing and follows a question of its name that is in use.
Asked(S) ==
  \A x \in Questions :
    /\ S.q[x].dup # NoQuestion =>
         /\ S.q[x].on /\ S.q[x].server = 0 /\ ~S.q[x].nta
         /\ S.q[S.q[x].dup].on /\ S.q[S.q[x].dup].dup = NoQuestion
         /\ NameOf[S.q[x].dup] = NameOf[x]
    /\ ~S.q[x].on => S.q[x].server = 0 /\ ~S.q[x].nta

\* At most one server is listed.
Single(S) == \A s, t \in Servers : S.server[s].listed /\ S.server[t].listed => s = t

\* A permanent record belongs to a question that is in use and holds a server.
Backed(S) ==
  \A n \in S.pinned : \E x \in Questions : S.q[x].on /\ NameOf[x] = n /\ S.q[x].server # 0

\* The inductive invariant.
Sound(S) ==
  /\ S \in States /\ Asked(S) /\ Single(S) /\ Backed(S)
  /\ \A s \in Servers : At(S, s, 0)

-----------------------------------------------------------------------------
\* The questions that hold a server can be counted.
LEMMA HoldersFinite ==
  ASSUME NEW S, NEW s
  PROVE  IsFiniteSet(Holders(S, s)) /\ Cardinality(Holders(S, s)) \in Nat
<1>1. Holders(S, s) \in SUBSET Questions
  BY DEF Holders
<1> QED BY <1>1, PushAssumption, FS_Subset, FS_CardinalityType

\* Nothing counts as zero.
LEMMA EmptyCount == Cardinality({}) = 0
  BY FS_EmptySet

\* The fields of the current state are the variables.
LEMMA NowTyped ==
  /\ Now.q = q /\ Now.server = server /\ Now.dso = dso /\ Now.connect = connect
  /\ Now.peer = peer /\ Now.pinned = pinned /\ Now.bad = bad
  BY DEF Now

\* When the variables have their types the current state has its type.
LEMMA NowInStates ==
  ASSUME q \in [Questions -> QuestionRecord], server \in [Servers -> ServerRecord],
         dso \in [Servers -> DSORecord], connect \in [Servers -> ConnectRecord],
         peer \in [Servers -> PeerRecord], pinned \in SUBSET Names, bad \in BOOLEAN
  PROVE  Now \in States
  BY DEF Now, States

\* The values an object has before it exists have their types.
LEMMA NoneTyped ==
  /\ NoServer \in ServerRecord /\ NoDSO \in DSORecord
  /\ NoConnect \in ConnectRecord /\ NoPeer \in PeerRecord /\ Stopped \in QuestionRecord
<1>1. NoServer \in ServerRecord
  BY DEF NoServer, ServerRecord
<1>2. NoDSO \in DSORecord
  BY PushAssumption DEF NoDSO, DSORecord, Lives
<1>3. NoConnect \in ConnectRecord
  BY PushAssumption DEF NoConnect, ConnectRecord, Lives
<1>4. NoPeer \in PeerRecord
  BY DEF NoPeer, PeerRecord
<1>5. Stopped \in QuestionRecord
  BY DEF Stopped, QuestionRecord
<1> QED BY <1>1, <1>2, <1>3, <1>4, <1>5

\* With no connection there is no message to be matched.
LEMMA NothingMatches ==
  ASSUME NEW out PROVE Matched(out, NoPeer)
  BY DEF Matched, NoPeer, Requests, Responses

\* The invariant holds before mDNS_StartQuery is first called.
LEMMA InitSound == Init => Sound(Now)
<1> SUFFICES ASSUME Init PROVE Sound(Now)
  OBVIOUS
<1>1. Now \in States
  BY NoneTyped, NowInStates DEF Init
<1>2. Asked(Now)
  BY NowTyped DEF Asked, Init, Stopped
<1>3. Single(Now)
  BY NowTyped DEF Single, Init, NoServer
<1>4. Backed(Now)
  BY NowTyped DEF Backed, Init
<1>5. ASSUME NEW s \in Servers PROVE At(Now, s, 0)
  <2> DEFINE H == Holders(Now, s)
  <2>1. H = {}
    BY NowTyped, PushAssumption DEF Holders, Init, Stopped, Servers
  <2>2. Counted(NoServer, NoDSO, {}, 0)
    BY DEF Counted, NoServer, NoDSO, B
  <2>3. Joined(NoServer, NoDSO, NoConnect, {})
    BY DEF Joined, NoServer, NoDSO, NoConnect
  <2>4. Quiet(NoDSO, NoConnect, NoPeer)
    BY PushAssumption DEF Quiet, NoDSO, NoConnect, NoPeer
  <2>5. Matched(NoDSO.out, NoPeer)
    BY NothingMatches
  <2>6. /\ Now.server[s] = NoServer /\ Now.dso[s] = NoDSO
        /\ Now.connect[s] = NoConnect /\ Now.peer[s] = NoPeer
    BY NowTyped DEF Init
  <2> HIDE DEF H
  <2>7. Whole(NoServer, NoDSO, NoConnect, NoPeer, H, 0)
    BY <2>1, <2>2, <2>3, <2>4, <2>5 DEF Whole
  <2> QED BY <2>6, <2>7 DEF At, H
<1> QED BY <1>1, <1>2, <1>3, <1>4, <1>5 DEF Sound

-----------------------------------------------------------------------------
(* What the invariant says about the properties.                           *)

\* What the invariant says about one server.
LEMMA SoundParts ==
  ASSUME NEW S, Sound(S), NEW s \in Servers
  PROVE  /\ S.server[s] \in ServerRecord /\ S.dso[s] \in DSORecord
         /\ S.connect[s] \in ConnectRecord /\ S.peer[s] \in PeerRecord
         /\ Counted(S.server[s], S.dso[s], Holders(S, s), 0)
         /\ Joined(S.server[s], S.dso[s], S.connect[s], Holders(S, s))
         /\ Quiet(S.dso[s], S.connect[s], S.peer[s])
         /\ Matched(S.dso[s].out, S.peer[s])
<1>1. S \in States /\ At(S, s, 0)
  BY DEF Sound
<1>2. /\ S.server[s] \in ServerRecord /\ S.dso[s] \in DSORecord
      /\ S.connect[s] \in ConnectRecord /\ S.peer[s] \in PeerRecord
  BY <1>1 DEF States
<1> QED BY <1>1, <1>2 DEF At, Whole

\* The invariant gives the types, and that no count is negative.
LEMMA SoundTyped == Sound(Now) => TypeOK
<1> SUFFICES ASSUME Sound(Now) PROVE TypeOK
  OBVIOUS
<1>1. Now \in States
  BY DEF Sound
<1>2. ASSUME NEW x \in Questions
      PROVE  /\ q[x].dup \in Questions \cup {NoQuestion}
             /\ q[x].state \in {"Init", "Discovery", "Connecting", "Established", "Poll"}
             /\ q[x].server \in Servers \cup {0}
             /\ {q[x].on, q[x].nta} \subseteq BOOLEAN
  <2>1. q[x] \in QuestionRecord
    BY <1>1, NowTyped DEF States
  <2> QED BY <2>1 DEF QuestionRecord
<1>3. ASSUME NEW s \in Servers
      PROVE  /\ {server[s].refs, server[s].zrefs} \subseteq Nat
             /\ dso[s].acts \subseteq Questions
             /\ dso[s].out \in [Slots -> Questions \cup {Free, Ignored}]
             /\ connect[s].queue + connect[s].tried <= MaxAddresses
             /\ peer[s].up \in Seq(Messages) /\ peer[s].down \in Seq(Answers)
             /\ \A i \in 1..Len(peer[s].down) :
                  dso[s].life = "live" /\ peer[s].down[i].type = "response"
                    => dso[s].out[peer[s].down[i].slot] # Free
  <2>1. /\ server[s] \in ServerRecord /\ dso[s] \in DSORecord
        /\ connect[s] \in ConnectRecord /\ peer[s] \in PeerRecord
        /\ Counted(server[s], dso[s], Holders(Now, s), 0)
        /\ Quiet(dso[s], connect[s], peer[s])
        /\ Matched(dso[s].out, peer[s])
    BY SoundParts, NowTyped
  <2>2. Cardinality(Holders(Now, s)) \in Nat
    BY HoldersFinite
  <2>3. server[s].refs \in Nat /\ server[s].zrefs \in Nat
    BY <2>1, <2>2 DEF Counted, B, ServerRecord
  <2>4. dso[s].acts \subseteq Questions /\ dso[s].out \in [Slots -> Questions \cup {Free, Ignored}]
    BY <2>1 DEF DSORecord
  <2>5. connect[s].queue + connect[s].tried <= MaxAddresses
    BY <2>1 DEF Quiet
  <2>6. peer[s].up \in Seq(Messages) /\ peer[s].down \in Seq(Answers)
    BY <2>1 DEF PeerRecord
  <2>7. \A i \in 1..Len(peer[s].down) :
           peer[s].down[i].type = "response" => dso[s].out[peer[s].down[i].slot] # Free
    BY <2>1 DEF Matched, Responses
  <2> QED BY <2>3, <2>4, <2>5, <2>6, <2>7
<1>4. pinned \subseteq Names
  BY <1>1, NowTyped DEF States
<1> QED BY <1>2, <1>3, <1>4 DEF TypeOK

\* The invariant gives the reference counts.
LEMMA SoundCounted == Sound(Now) => ReferencesCounted
<1> SUFFICES ASSUME Sound(Now), NEW s \in Servers
             PROVE  /\ server[s].zrefs = B(server[s].zlisted) + Cardinality(Holders(Now, s))
                    /\ server[s].refs = B(server[s].listed) + B(server[s].zrefs > 0)
                                        + Cardinality(Holders(Now, s)) + B(server[s].connectInfo)
                                        + B(dso[s].life \in {"live", "cleanup"})
                    /\ dso[s].life = "live" => dso[s].acts \subseteq Holders(Now, s)
  BY DEF ReferencesCounted
<1> DEFINE H == Holders(Now, s)
           v == server[s]
           d == dso[s]
           c == connect[s]
<1>1. /\ v \in ServerRecord /\ d \in DSORecord
      /\ Counted(v, d, H, 0) /\ Joined(v, d, c, H)
  BY SoundParts, NowTyped
<1>2. Cardinality(H) \in Nat /\ Cardinality({}) = 0
  BY HoldersFinite, EmptyCount
<1> HIDE DEF H, v, d, c
<1>3. CASE v.listed
  <2>1. /\ v.zlisted /\ v.connectInfo /\ d.life = "live" /\ d.acts = H
        /\ v.zrefs = 1 + Cardinality(H) /\ v.refs = 4 + Cardinality(H)
    BY <1>1, <1>2, <1>3 DEF Joined, Counted
  <2> QED BY <1>2, <1>3, <2>1 DEF B, H, v, d
<1>4. CASE ~v.listed
  <2>1. /\ ~v.zlisted /\ ~v.connectInfo /\ d.life # "live" /\ H = {}
        /\ v.zrefs = 0 /\ v.refs = B(d.life = "cleanup")
    BY <1>1, <1>2, <1>4 DEF Joined, Counted, B, ServerRecord
  <2> QED BY <1>2, <1>4, <2>1 DEF B, H, v, d
<1> QED BY <1>3, <1>4

\* The invariant gives that a permanent record is backed by a server in use.
LEMMA SoundBacked == Sound(Now) => PushedRecordsBacked
<1> SUFFICES ASSUME Sound(Now), NEW n \in pinned
             PROVE  \E x \in Questions : /\ q[x].on /\ NameOf[x] = n /\ q[x].server # 0
                                         /\ server[q[x].server].listed
                                         /\ dso[q[x].server].life = "live"
  BY DEF PushedRecordsBacked
<1>1. PICK x \in Questions : q[x].on /\ NameOf[x] = n /\ q[x].server # 0
  BY NowTyped DEF Sound, Backed
<1> DEFINE s == q[x].server
<1>2. s \in Servers
  BY <1>1, NowTyped DEF Sound, States, QuestionRecord
<1>3. x \in Holders(Now, s)
  BY NowTyped DEF Holders
<1>4. Joined(server[s], dso[s], connect[s], Holders(Now, s)) /\ server[s] \in ServerRecord
  BY <1>2, SoundParts, NowTyped
<1>5. server[s].listed /\ dso[s].life = "live"
  BY <1>3, <1>4 DEF Joined, ServerRecord
<1> QED BY <1>1, <1>5

-----------------------------------------------------------------------------
(* Messages.                                                               *)

\* T is S with more outstanding queries and messages to server s.
Sent(S, T, s) ==
  /\ T \in States
  /\ T.q = S.q /\ T.server = S.server /\ T.connect = S.connect
  /\ T.pinned = S.pinned /\ T.bad = S.bad
  /\ T.dso = [S.dso EXCEPT ![s].out = T.dso[s].out]
  /\ T.peer = [S.peer EXCEPT ![s].up = T.peer[s].up]
  /\ S.dso[s].transport = "none" => T.peer[s] = S.peer[s]
  /\ Matched(T.dso[s].out, T.peer[s])

\* Sending nothing.
LEMMA SentNothing ==
  ASSUME NEW S \in States, NEW s \in Servers, Matched(S.dso[s].out, S.peer[s])
  PROVE  Sent(S, S, s)
  BY DEF Sent, States, DSORecord, PeerRecord

\* A message joins those on their way to the push server: unless it is a request,
\* or the slot of that request is taken and no other message has it, they match.
LEMMA AppendMatched ==
  ASSUME NEW p \in PeerRecord, NEW m \in Messages, NEW out \in [Slots -> Questions \cup {Free, Ignored}],
         Matched(out, p),
         m.type = "subscribe" =>
           /\ m.slot \in Slots /\ out[m.slot] # Free
           /\ \A i \in Requests(p) : p.up[i].slot # m.slot
           /\ \A i \in Responses(p) : p.down[i].slot # m.slot
  PROVE  /\ [p EXCEPT !.up = Append(p.up, m)] \in PeerRecord
         /\ Matched(out, [p EXCEPT !.up = Append(p.up, m)])
<1> DEFINE r == [p EXCEPT !.up = Append(p.up, m)]
<1>1. p.up \in Seq(Messages) /\ p.down \in Seq(Answers)
  BY DEF PeerRecord
<1>2. Append(p.up, m) \in Seq(Messages)
  BY <1>1
<1>3. r \in PeerRecord /\ r.up = Append(p.up, m) /\ r.down = p.down
  BY <1>2 DEF PeerRecord
<1>4. /\ Len(r.up) = Len(p.up) + 1 /\ Len(p.up) \in Nat
      /\ \A i \in 1..Len(p.up) : r.up[i] = p.up[i]
      /\ r.up[Len(p.up) + 1] = m
  BY <1>3, <1>1
<1>5. Responses(r) = Responses(p)
  BY <1>3 DEF Responses
<1>6. \A i \in Requests(r) : /\ i \in 1..Len(p.up) + 1
                             /\ i # Len(p.up) + 1 => i \in Requests(p) /\ r.up[i] = p.up[i]
                             /\ i = Len(p.up) + 1 => r.up[i] = m /\ m.type = "subscribe"
  BY <1>4 DEF Requests
<1> HIDE DEF r
<1>7. \A i \in Requests(r) : r.up[i].slot \in Slots /\ out[r.up[i].slot] # Free
  BY <1>6 DEF Matched
<1>8. \A i, j \in Requests(r) : r.up[i].slot = r.up[j].slot => i = j
  BY <1>6 DEF Matched
<1>9. \A i \in Requests(r), j \in Responses(r) : r.up[i].slot # r.down[j].slot
  BY <1>3, <1>5, <1>6 DEF Matched
<1>10. \A i \in Responses(r) : r.down[i].slot \in Slots /\ out[r.down[i].slot] # Free
  BY <1>3, <1>5 DEF Matched
<1>11. \A i, j \in Responses(r) : r.down[i].slot = r.down[j].slot => i = j
  BY <1>3, <1>5 DEF Matched
<1>12. Matched(out, r)
  BY <1>7, <1>8, <1>9, <1>10, <1>11 DEF Matched
<1> QED BY <1>3, <1>12 DEF r

\* Every question has a name.
LEMMA NameTyped == \A x \in Questions : NameOf[x] \in Names
  BY DEF Names

\* Nothing is written where there is no connection.
LEMMA NoneUsable ==
  ASSUME NEW S \in States, NEW s \in Servers
  PROVE  ~Usable(S, s, 0)
<1>1. S.peer[s].open \subseteq Attempts
  BY DEF States, PeerRecord
<1>2. 0 \notin Attempts
  BY PushAssumption DEF Attempts
<1> QED BY <1>1, <1>2 DEF Usable

\* A message of the client has its type.
LEMMA MessageTyped ==
  ASSUME NEW S \in States, NEW s \in Servers, NEW slot \in 0..MaxOutstanding, NEW x \in Questions,
         NEW k \in {"subscribe", "unsubscribe", "garbage"}
  PROVE  LET m == Message(S, s, k, slot, NameOf[x])
         IN  /\ m \in Messages /\ m.type = k /\ m.slot = slot /\ m.name = NameOf[x]
             /\ m.conn = S.dso[s].connection
             /\ S.dso[s].transport = "none" => m.conn = 0
<1>1. NameOf[x] \in Names
  BY NameTyped
<1>2. S.dso[s].connection \in Attempts \cup {0} /\ (S.dso[s].transport = "none" => S.dso[s].connection = 0)
  BY DEF States, DSORecord
<1> QED BY <1>1, <1>2 DEF Message, Messages

\* A message other than a request goes out, or nothing does.
LEMMA WriteSent ==
  ASSUME NEW S \in States, NEW s \in Servers, NEW m \in Messages,
         Matched(S.dso[s].out, S.peer[s]), m.type # "subscribe", S.dso[s].transport = "none" => m.conn = 0
  PROVE  Sent(S, Write(S, s, m), s)
<1>1. CASE ~Usable(S, s, m.conn)
  BY <1>1, SentNothing DEF Write
<1>2. CASE Usable(S, s, m.conn)
  <2> DEFINE r == [S.peer[s] EXCEPT !.up = Append(S.peer[s].up, m)]
             T == [S EXCEPT !.peer[s] = r]
  <2>1. S.peer[s] \in PeerRecord /\ S.dso[s].out \in [Slots -> Questions \cup {Free, Ignored}]
    BY DEF States, DSORecord
  <2>2. r \in PeerRecord /\ Matched(S.dso[s].out, r)
    BY <2>1, AppendMatched
  <2>3. Write(S, s, m) = T
    BY <1>2 DEF Write, States
  <2>4. r.up = Append(S.peer[s].up, m) /\ r = [S.peer[s] EXCEPT !.up = r.up]
    BY <2>1 DEF PeerRecord
  <2> HIDE DEF r
  <2>5. T \in States
    BY <2>2 DEF States
  <2>6. /\ T.q = S.q /\ T.server = S.server /\ T.connect = S.connect /\ T.dso = S.dso
        /\ T.pinned = S.pinned /\ T.bad = S.bad /\ T.peer = [S.peer EXCEPT ![s] = r]
        /\ T.peer[s] = r
    BY DEF States
  <2> HIDE DEF T
  <2>7. T.peer = [S.peer EXCEPT ![s].up = T.peer[s].up]
    BY <2>4, <2>6
  <2>8. T.dso = [S.dso EXCEPT ![s].out = T.dso[s].out]
    BY <2>6 DEF States, DSORecord
  <2>9. S.dso[s].transport # "none"
    BY <1>2, NoneUsable
  <2> QED BY <2>2, <2>3, <2>5, <2>6, <2>7, <2>8, <2>9 DEF Sent
<1> QED BY <1>1, <1>2

\* An instance only for what FoldInduction proves of natural numbers.
FoldOp(x, R, p) == R
FoldInv(t, R, p) == TRUE
Folding == INSTANCE FoldInduction WITH Op <- FoldOp, P <- FoldInv

\* Min of a set of slots is one of them.
LEMMA MinIs ==
  ASSUME NEW F \in SUBSET Nat, F # {}
  PROVE  Min(F) \in F
<1>1. \E n \in F : \A j \in F : n <= j
  BY Folding!LeastNatural
<1> QED BY <1>1, Zenon DEF Min

\* A subscribe request takes a free slot, which no message on its way has.
LEMMA SubscribeSent ==
  ASSUME NEW S \in States, NEW s \in Servers, NEW x \in Questions,
         Matched(S.dso[s].out, S.peer[s])
  PROVE  Sent(S, SendSubscribe(S, s, x), s)
<1> DEFINE free == {i \in Slots : S.dso[s].out[i] = Free}
           slot == Min(free)
           g == Message(S, s, "garbage", 0, NameOf[x])
           m == Message(S, s, "subscribe", slot, NameOf[x])
           d == [S.dso[s] EXCEPT !.out[slot] = x]
           W == [S EXCEPT !.dso[s].out[slot] = x]
<1>1. CASE S.dso[s].transport = "none"
  BY <1>1, SentNothing DEF SendSubscribe
<1>2. CASE S.dso[s].transport # "none" /\ free = {}
  <2>1. g \in Messages /\ g.type = "garbage" /\ (S.dso[s].transport = "none" => g.conn = 0)
    BY MessageTyped, PushAssumption
  <2>2. SendSubscribe(S, s, x) = Write(S, s, g)
    BY <1>2 DEF SendSubscribe
  <2> HIDE DEF g
  <2> QED BY <2>1, <2>2, WriteSent
<1>3. CASE S.dso[s].transport # "none" /\ free # {}
  <2>1. SendSubscribe(S, s, x) = Write(W, s, m)
    BY <1>3 DEF SendSubscribe
  <2>2. slot \in free /\ slot \in Slots /\ S.dso[s].out[slot] = Free
    <3>1. free \in SUBSET Nat
      BY PushAssumption DEF Slots
    <3> QED BY <1>3, <3>1, MinIs
  <2> HIDE DEF slot
  <2>3. S.dso[s] \in DSORecord /\ S.peer[s] \in PeerRecord
    BY DEF States
  <2>4. d \in DSORecord
    BY <2>2, <2>3 DEF DSORecord
  <2>5. /\ W = [S EXCEPT !.dso[s] = d] /\ W.dso = [S.dso EXCEPT ![s] = d]
        /\ W.q = S.q /\ W.server = S.server /\ W.connect = S.connect
        /\ W.pinned = S.pinned /\ W.bad = S.bad /\ W.peer = S.peer
    BY <2>3 DEF States
  <2>6. W \in States
    BY <2>4, <2>5 DEF States
  <2>7. /\ d.out = [S.dso[s].out EXCEPT ![slot] = x] /\ d.transport = S.dso[s].transport
        /\ d = [S.dso[s] EXCEPT !.out = d.out] /\ W.dso[s] = d
    BY <2>3, <2>5 DEF DSORecord, States
  <2>8. x # Free
    BY PushAssumption
  <2>9. d.out[slot] = x /\ \A i \in Slots : S.dso[s].out[i] # Free => d.out[i] # Free
    BY <2>2, <2>3, <2>7, <2>8 DEF DSORecord
  <2> HIDE DEF d, W
  <2>10. Matched(d.out, S.peer[s])
    BY <2>9 DEF Matched
  <2>11. m \in Messages /\ m.type = "subscribe" /\ m.slot = slot
    <3>1. slot \in 0..MaxOutstanding
      BY <2>2, PushAssumption DEF Slots
    <3> QED BY <3>1, MessageTyped
  <2> HIDE DEF m
  <2>12. CASE ~Usable(W, s, m.conn)
    <3>1. SendSubscribe(S, s, x) = W
      BY <2>1, <2>12 DEF Write
    <3>2. W.peer = [S.peer EXCEPT ![s].up = W.peer[s].up]
      BY <2>5 DEF States, PeerRecord
    <3>3. W.dso = [S.dso EXCEPT ![s].out = W.dso[s].out]
      BY <2>5, <2>7
    <3> QED BY <1>3, <2>5, <2>6, <2>7, <2>10, <3>1, <3>2, <3>3 DEF Sent
  <2>13. CASE Usable(W, s, m.conn)
    <3> DEFINE r == [S.peer[s] EXCEPT !.up = Append(S.peer[s].up, m)]
               T == [W EXCEPT !.peer[s] = r]
    <3>1. \A i \in Requests(S.peer[s]) : S.peer[s].up[i].slot # m.slot
      BY <2>2, <2>11 DEF Matched
    <3>2. \A i \in Responses(S.peer[s]) : S.peer[s].down[i].slot # m.slot
      BY <2>2, <2>11 DEF Matched
    <3>3. d.out[m.slot] # Free /\ m.slot \in Slots
      BY <2>2, <2>8, <2>9, <2>11
    <3>4. r \in PeerRecord /\ Matched(d.out, r)
      <4>1. d.out \in [Slots -> Questions \cup {Free, Ignored}]
        BY <2>4 DEF DSORecord
      <4> QED BY <2>3, <2>10, <2>11, <3>1, <3>2, <3>3, <4>1, AppendMatched
    <3>5. Write(W, s, m) = T
      BY <2>5, <2>6, <2>7, <2>13 DEF Write, States
    <3>6. r.up = Append(S.peer[s].up, m) /\ r = [S.peer[s] EXCEPT !.up = r.up]
      BY <2>3 DEF PeerRecord
    <3> HIDE DEF r
    <3>7. T \in States
      BY <2>6, <3>4 DEF States
    <3>8. /\ T.q = S.q /\ T.server = S.server /\ T.connect = S.connect /\ T.dso = W.dso
          /\ T.pinned = S.pinned /\ T.bad = S.bad /\ T.peer = [S.peer EXCEPT ![s] = r]
          /\ T.peer[s] = r
      BY <2>5, <2>6 DEF States
    <3> HIDE DEF T
    <3>9. T.peer = [S.peer EXCEPT ![s].up = T.peer[s].up]
      BY <3>6, <3>8
    <3>10. T.dso = [S.dso EXCEPT ![s].out = T.dso[s].out] /\ T.dso[s] = d
      BY <2>5, <2>7, <3>8
    <3> QED BY <1>3, <2>1, <3>4, <3>5, <3>7, <3>8, <3>9, <3>10 DEF Sent
  <2> QED BY <2>12, <2>13
<1> QED BY <1>1, <1>2, <1>3

-----------------------------------------------------------------------------
(* Subscriptions end.                                                      *)

\* The server, dso and connect records of s change with its holders, and
\* nothing else does: the rest of the invariant is that of the questions.
LEMMA OneServer ==
  ASSUME NEW S, Sound(S), NEW T \in States, NEW s \in Servers,
         \A t \in Servers \ {s} :
           /\ T.server[t] = S.server[t] /\ T.dso[t] = S.dso[t] /\ T.connect[t] = S.connect[t]
           /\ T.peer[t] = S.peer[t] /\ Holders(T, t) = Holders(S, t),
         At(T, s, 0), T.server[s].listed => S.server[s].listed,
         Asked(T), Backed(T)
  PROVE  Sound(T)
<1>1. ASSUME NEW t \in Servers PROVE At(T, t, 0)
  <2>1. CASE t = s
    BY <2>1
  <2>2. CASE t # s
    BY <2>2 DEF Sound, At
  <2> QED BY <2>1, <2>2
<1>2. Single(T)
  BY DEF Single, Sound
<1> QED BY <1>1, <1>2 DEF Sound

\* A holder of a server: the server is listed and in use.
LEMMA HolderListed ==
  ASSUME NEW S, Sound(S), NEW x \in Questions, S.q[x].server # 0
  PROVE  /\ S.q[x].server \in Servers
         /\ x \in Holders(S, S.q[x].server)
         /\ S.server[S.q[x].server].listed /\ S.server[S.q[x].server].connection
<1> DEFINE s == S.q[x].server
<1>1. s \in Servers
  BY DEF Sound, States, QuestionRecord
<1>2. x \in Holders(S, s)
  BY DEF Holders
<1>3. Joined(S.server[s], S.dso[s], S.connect[s], Holders(S, s)) /\ S.server[s] \in ServerRecord
  BY <1>1, SoundParts
<1>4. S.server[s].listed /\ S.server[s].connection
  BY <1>2, <1>3 DEF Joined, ServerRecord
<1> QED BY <1>1, <1>2, <1>4

\* A table in which no more slots are free matches the messages the old one matched.
LEMMA IgnoreMatched ==
  ASSUME NEW out, NEW o, NEW p, Matched(out, p), \A i \in Slots : o[i] = Free => out[i] = Free
  PROVE  Matched(o, p)
  BY DEF Matched

\* What UnsubscribeQuestionFromDNSPushServer changes, for a holder x of s.
Dropped(S, T, x, s) ==
  /\ T \in States
  /\ T.q = [S.q EXCEPT ![x].server = 0]
  /\ T.connect = S.connect /\ T.bad = S.bad /\ T.pinned = S.pinned \ {NameOf[x]}
  /\ T.server = [S.server EXCEPT ![s].refs = @ - 1, ![s].zrefs = @ - 1]
  /\ T.dso = [S.dso EXCEPT ![s].acts = @ \ {x}, ![s].out = T.dso[s].out]
  /\ T.peer = [S.peer EXCEPT ![s].up = T.peer[s].up]
  /\ S.dso[s].transport = "none" => T.peer[s] = S.peer[s]
  /\ Matched(T.dso[s].out, T.peer[s])

\* UnsubscribeQuestionFromDNSPushServer does that.
LEMMA UnsubscribeDrops ==
  ASSUME NEW S, Sound(S), NEW x \in Questions, S.q[x].server # 0
  PROVE  Dropped(S, Unsubscribe(S, x), x, S.q[x].server)
<1> DEFINE s == S.q[x].server
           o == [i \in Slots |-> IF S.dso[s].out[i] = x THEN Ignored ELSE S.dso[s].out[i]]
           ignored == [S EXCEPT !.dso[s].out = o]
           told == IF S.server[s].state \notin {"Connected", "SessionEstablished"} THEN S
                   ELSE IF S.dso[s].session THEN SendUnsubscribe(ignored, s, x) ELSE ignored
           D == Unpin([told EXCEPT !.dso[s].acts = @ \ {x}], {NameOf[x]})
           m == Message(ignored, s, "unsubscribe", 0, NameOf[x])
<1>1. s \in Servers /\ S.server[s].listed /\ S.server[s].connection /\ x \in Holders(S, s)
  BY HolderListed
<1>2. Unsubscribe(S, x) = ReleaseForQuestions(D, {x}, s)
  BY <1>1 DEF Unsubscribe
<1>3. S \in States /\ S.dso[s] \in DSORecord /\ S.peer[s] \in PeerRecord /\ S.server[s] \in ServerRecord
      /\ Matched(S.dso[s].out, S.peer[s]) /\ Counted(S.server[s], S.dso[s], Holders(S, s), 0)
  BY <1>1, SoundParts DEF Sound
<1> HIDE DEF s
<1>4. o \in [Slots -> Questions \cup {Free, Ignored}] /\ \A i \in Slots : o[i] = Free => S.dso[s].out[i] = Free
  BY <1>3, PushAssumption DEF DSORecord
<1> HIDE DEF o
<1>5. /\ ignored \in States /\ ignored.q = S.q /\ ignored.server = S.server
      /\ ignored.connect = S.connect /\ ignored.peer = S.peer
      /\ ignored.pinned = S.pinned /\ ignored.bad = S.bad
      /\ ignored.dso = [S.dso EXCEPT ![s].out = o] /\ ignored.dso[s].out = o
      /\ ignored.dso[s].transport = S.dso[s].transport
  <2>1. [S.dso[s] EXCEPT !.out = o] \in DSORecord
    BY <1>3, <1>4 DEF DSORecord
  <2> QED BY <1>1, <1>3, <2>1 DEF States, DSORecord
<1>6. Matched(ignored.dso[s].out, ignored.peer[s])
  BY <1>3, <1>4, <1>5, IgnoreMatched
<1> HIDE DEF ignored
<1>7. Sent(S, told, s)
  <2>1. CASE S.server[s].state \notin {"Connected", "SessionEstablished"}
    BY <1>1, <1>3, <2>1, SentNothing
  <2>2. CASE S.server[s].state \in {"Connected", "SessionEstablished"} /\ S.dso[s].session
    <3>1. /\ m \in Messages /\ m.type # "subscribe"
          /\ ignored.dso[s].transport = "none" => m.conn = 0
      <4>1. 0 \in 0..MaxOutstanding
        BY PushAssumption
      <4>2. ignored \in States
        BY <1>5
      <4>3. "unsubscribe" \in {"subscribe", "unsubscribe", "garbage"}
        OBVIOUS
      <4> HIDE DEF told, D
      <4>4. /\ m \in Messages /\ m.type = "unsubscribe"
            /\ ignored.dso[s].transport = "none" => m.conn = 0
        BY <1>1, <4>1, <4>2, <4>3, MessageTyped
      <4> HIDE DEF m
      <4> QED BY <4>4
    <3>2. told = Write(ignored, s, m)
      BY <2>2 DEF SendUnsubscribe
    <3> HIDE DEF told, m
    <3>3. Sent(ignored, told, s)
      BY <1>1, <1>5, <1>6, <3>1, <3>2, WriteSent
    <3> QED BY <1>1, <1>3, <1>5, <3>3 DEF Sent, States, DSORecord
  <2>3. CASE S.server[s].state \in {"Connected", "SessionEstablished"} /\ ~S.dso[s].session
    <3>1. told = ignored
      BY <2>3
    <3> HIDE DEF told
    <3> QED BY <1>1, <1>3, <1>5, <1>6, <3>1 DEF Sent, States, PeerRecord, DSORecord
  <2> QED BY <2>1, <2>2, <2>3
<1> HIDE DEF told
<1>8. /\ D \in States /\ D.q = S.q /\ D.server = S.server /\ D.connect = S.connect
      /\ D.bad = S.bad /\ D.pinned = S.pinned \ {NameOf[x]} /\ D.peer = told.peer
      /\ D.dso = [S.dso EXCEPT ![s].acts = @ \ {x}, ![s].out = told.dso[s].out]
      /\ D.dso[s].out = told.dso[s].out
  <2>1. told \in States /\ told.dso[s] \in DSORecord /\ told.dso[s].acts = S.dso[s].acts
    BY <1>1, <1>3, <1>7 DEF Sent, States, DSORecord
  <2>2. [told.dso[s] EXCEPT !.acts = @ \ {x}] \in DSORecord
    BY <2>1 DEF DSORecord
  <2>3. D \in States
    BY <1>1, <2>1, <2>2 DEF Unpin, States
  <2>4. /\ D.q = told.q /\ D.server = told.server /\ D.connect = told.connect
        /\ D.bad = told.bad /\ D.pinned = told.pinned \ {NameOf[x]} /\ D.peer = told.peer
        /\ D.dso = [told.dso EXCEPT ![s].acts = @ \ {x}]
    BY <2>1 DEF Unpin, States
  <2> HIDE DEF D
  <2>5. D.dso = [S.dso EXCEPT ![s].acts = @ \ {x}, ![s].out = told.dso[s].out]
    <3> DEFINE O == told.dso[s].out
               A == S.dso[s].acts \ {x}
    <3>1. told.dso = [S.dso EXCEPT ![s].out = O] /\ S.dso \in [Servers -> DSORecord]
      BY <1>3, <1>7 DEF Sent, States
    <3> HIDE DEF O
    <3>2. told.dso[s] = [S.dso[s] EXCEPT !.out = O]
      BY <1>1, <3>1
    <3>3. [told.dso[s] EXCEPT !.acts = A] = [S.dso[s] EXCEPT !.acts = A, !.out = O]
      BY <1>3, <3>2 DEF DSORecord
    <3>4. D.dso = [told.dso EXCEPT ![s] = [told.dso[s] EXCEPT !.acts = A]]
      BY <1>1, <2>1, <2>4
    <3>5. D.dso = [S.dso EXCEPT ![s] = [S.dso[s] EXCEPT !.acts = A, !.out = O]]
      BY <1>1, <3>1, <3>3, <3>4
    <3> QED BY <1>1, <3>1, <3>5 DEF O, DSORecord
  <2>6. D.dso[s].out = told.dso[s].out
    BY <1>1, <1>3, <2>5 DEF States, DSORecord
  <2> QED BY <1>7, <2>3, <2>4, <2>5, <2>6 DEF Sent
<1> HIDE DEF D
<1> DEFINE U == ReleaseForQuestions(D, {x}, s)
           v == S.server[s]
<1>9. Cardinality({x}) = 1 /\ v.zrefs - 1 # 0 /\ v.zrefs \in Int /\ v.refs \in Int
  <2>1. Holders(S, s) # {} /\ IsFiniteSet(Holders(S, s))
    BY <1>1, HoldersFinite
  <2>2. Cardinality(Holders(S, s)) \in Nat /\ Cardinality(Holders(S, s)) # 0
    BY <2>1, FS_EmptySet, FS_CardinalityType
  <2>3. v.zrefs = 1 + Cardinality(Holders(S, s))
    BY <1>1, <1>3 DEF Counted
  <2> QED BY <1>3, <2>2, <2>3, FS_Singleton DEF ServerRecord
<1>10. ReleaseServer(ReleaseZone(D, s, 1), s, 1) =
         [D EXCEPT !.server = [S.server EXCEPT ![s].refs = @ - 1, ![s].zrefs = @ - 1]]
  BY SMTT(30), <1>1, <1>3, <1>8, <1>9 DEF ReleaseServer, ReleaseZone, States, ServerRecord
<1>11. [S.server EXCEPT ![s].refs = @ - 1, ![s].zrefs = @ - 1] \in [Servers -> ServerRecord]
  BY SMTT(30), <1>1, <1>3, <1>9 DEF States, ServerRecord
<1>12. [S.q EXCEPT ![x].server = 0] \in [Questions -> QuestionRecord]
  BY <1>3 DEF States, QuestionRecord
<1>13. U = [D EXCEPT !.server = [S.server EXCEPT ![s].refs = @ - 1, ![s].zrefs = @ - 1],
                     !.q = [S.q EXCEPT ![x].server = 0]]
  <2> DEFINE R == [D EXCEPT !.server = [S.server EXCEPT ![s].refs = @ - 1, ![s].zrefs = @ - 1]]
  <2>1. R.q = S.q
    BY <1>8 DEF States
  <2>2. ReleaseServer(ReleaseZone(D, s, Cardinality({x})), s, Cardinality({x})) = R
    BY <1>9, <1>10
  <2>3. [z \in Questions |-> IF z \in {x} THEN [R.q[z] EXCEPT !.server = 0] ELSE R.q[z]]
        = [S.q EXCEPT ![x].server = 0]
    BY <1>3, <2>1 DEF States
  <2> HIDE DEF R
  <2>4. U = [R EXCEPT !.q = [z \in Questions |-> IF z \in {x} THEN [R.q[z] EXCEPT !.server = 0]
                                                          ELSE R.q[z]]]
    BY <2>2 DEF ReleaseForQuestions
  <2> QED BY <1>8, <2>3, <2>4 DEF R, States
<1> HIDE DEF U
<1>14. /\ U \in States /\ U.q = [S.q EXCEPT ![x].server = 0]
       /\ U.server = [S.server EXCEPT ![s].refs = @ - 1, ![s].zrefs = @ - 1]
       /\ U.connect = D.connect /\ U.bad = D.bad /\ U.pinned = D.pinned
       /\ U.dso = D.dso /\ U.peer = D.peer
  BY <1>8, <1>11, <1>12, <1>13 DEF States
<1>15. Dropped(S, U, x, s)
  BY <1>7, <1>8, <1>14 DEF Dropped, Sent
<1> QED BY <1>2, <1>15 DEF U, s

\* The same, server by server.
Shrunk(S, T, x, s) ==
  /\ \A t \in Servers \ {s} : /\ T.server[t] = S.server[t] /\ T.dso[t] = S.dso[t]
                              /\ T.peer[t] = S.peer[t]
  /\ T.server[s] = [S.server[s] EXCEPT !.refs = @ - 1, !.zrefs = @ - 1]
  /\ T.dso[s] = [S.dso[s] EXCEPT !.acts = @ \ {x}, !.out = T.dso[s].out]
  /\ T.peer[s] = [S.peer[s] EXCEPT !.up = T.peer[s].up]

\* The two descriptions agree.
LEMMA DroppedAt ==
  ASSUME NEW S \in States, NEW x \in Questions, NEW s \in Servers, NEW T, Dropped(S, T, x, s)
  PROVE  Shrunk(S, T, x, s)
<1>1. /\ S.server \in [Servers -> ServerRecord] /\ S.dso \in [Servers -> DSORecord]
      /\ S.peer \in [Servers -> PeerRecord]
  BY DEF States
<1>2. /\ \A t \in Servers \ {s} : T.server[t] = S.server[t]
      /\ T.server[s] = [S.server[s] EXCEPT !.refs = @ - 1, !.zrefs = @ - 1]
  BY <1>1 DEF Dropped
<1>3. PICK o, u : /\ o = T.dso[s].out /\ T.dso = [S.dso EXCEPT ![s].acts = @ \ {x}, ![s].out = o]
                  /\ u = T.peer[s].up /\ T.peer = [S.peer EXCEPT ![s].up = u]
  BY DEF Dropped
<1>4. \A t \in Servers \ {s} : T.dso[t] = S.dso[t] /\ T.peer[t] = S.peer[t]
  BY <1>1, <1>3
<1>5. T.dso[s] = [S.dso[s] EXCEPT !.acts = @ \ {x}, !.out = o]
  BY <1>1, <1>3
<1>6. T.peer[s] = [S.peer[s] EXCEPT !.up = u]
  BY <1>1, <1>3
<1> QED BY <1>2, <1>3, <1>4, <1>5, <1>6 DEF Shrunk

\* Unsubscribing keeps the invariant and takes the question off the holders.
LEMMA DropSound ==
  ASSUME NEW S, Sound(S), NEW x \in Questions, NEW s \in Servers, S.q[x].server = s,
         NEW T, Dropped(S, T, x, s)
  PROVE  Sound(T) /\ \A t \in Servers : Holders(T, t) = Holders(S, t) \ {x}
<1>1. S \in States /\ S.server[s] \in ServerRecord /\ S.dso[s] \in DSORecord
      /\ S.connect[s] \in ConnectRecord /\ S.peer[s] \in PeerRecord
      /\ S.q \in [Questions -> QuestionRecord]
  BY SoundParts DEF Sound, States
<1>2. Shrunk(S, T, x, s)
  BY <1>1, DroppedAt
<1>3. s # 0 /\ x \in Holders(S, s) /\ S.server[s].listed
  <2>1. s # 0
    BY PushAssumption DEF Servers
  <2> QED BY <2>1, HolderListed
<1>4. \A y \in Questions : /\ T.q[y].server = IF y = x THEN 0 ELSE S.q[y].server
                           /\ T.q[y].on = S.q[y].on /\ T.q[y].dup = S.q[y].dup
                           /\ T.q[y].nta = S.q[y].nta
  BY <1>1 DEF Dropped, QuestionRecord
<1>5. \A t \in Servers : Holders(T, t) = Holders(S, t) \ {x}
  <2> TAKE t \in Servers
  <2>1. t # 0
    BY PushAssumption DEF Servers
  <2> QED BY <1>4, <2>1 DEF Holders
<1>6. \A t \in Servers \ {s} : x \notin Holders(S, t)
  BY DEF Holders
<1>7. \A t \in Servers \ {s} :
           /\ T.server[t] = S.server[t] /\ T.dso[t] = S.dso[t] /\ T.connect[t] = S.connect[t]
           /\ T.peer[t] = S.peer[t] /\ Holders(T, t) = Holders(S, t)
  <2>1. T.connect = S.connect
    BY DEF Dropped
  <2>2. ASSUME NEW t \in Servers \ {s} PROVE Holders(T, t) = Holders(S, t)
    BY <1>5, <1>6
  <2> QED BY <1>2, <2>1, <2>2 DEF Shrunk
<1>8. At(T, s, 0)
  <2> DEFINE v == T.server[s]
             d == T.dso[s]
             c == T.connect[s]
             p == T.peer[s]
             H == Holders(S, s)
             K == Holders(T, s)
  <2>1. K = H \ {x} /\ Cardinality(K) = Cardinality(H) - 1 /\ Cardinality(H) \in Nat
    <3>1. IsFiniteSet(H) /\ Cardinality(H) \in Nat
      BY HoldersFinite
    <3> QED BY <1>3, <1>5, <3>1, FS_RemoveElement
  <2>2. /\ v.refs = S.server[s].refs - 1 /\ v.zrefs = S.server[s].zrefs - 1
        /\ v.listed = S.server[s].listed /\ v.zlisted = S.server[s].zlisted
        /\ v.connection = S.server[s].connection /\ v.connectInfo = S.server[s].connectInfo
    BY <1>1 DEF Dropped, States, ServerRecord
  <2>3. /\ d.life = S.dso[s].life /\ d.acts = S.dso[s].acts \ {x}
        /\ d.transport = S.dso[s].transport
    BY <1>1, <1>2 DEF Shrunk, DSORecord
  <2>4. c = S.connect[s]
    BY DEF Dropped
  <2>5. /\ Counted(S.server[s], S.dso[s], H, 0) /\ Joined(S.server[s], S.dso[s], S.connect[s], H)
        /\ Quiet(S.dso[s], S.connect[s], S.peer[s])
    BY SoundParts
  <2> HIDE DEF v, d, c, p, H, K
  <2>6. Counted(v, d, K, 0)
    BY <1>1, <1>3, <2>1, <2>2, <2>5 DEF Counted, ServerRecord
  <2>7. Joined(v, d, c, K)
    BY <1>3, <2>1, <2>2, <2>3, <2>4, <2>5 DEF Joined
  <2>8. Quiet(d, c, p)
    <3>1. d.life = "live"
      BY <1>3, <2>3, <2>5 DEF Joined
    <3>2. d.transport = "none" => p = S.peer[s]
      BY <2>3 DEF Dropped, p
    <3> QED BY <2>3, <2>4, <2>5, <3>1, <3>2 DEF Quiet
  <2>9. Matched(d.out, p)
    BY DEF Dropped, d, p
  <2> QED BY <2>6, <2>7, <2>8, <2>9 DEF At, Whole, v, d, c, p, K
<1>9. Asked(T)
  <2>1. ASSUME NEW y \in Questions, S.q[y].dup # NoQuestion PROVE S.q[y].dup \in Questions
    BY <1>1, <2>1 DEF QuestionRecord
  <2> QED BY <1>4, <2>1 DEF Asked, Sound
<1>10. Backed(T)
  <2> SUFFICES ASSUME NEW n \in T.pinned
               PROVE  \E y \in Questions : T.q[y].on /\ NameOf[y] = n /\ T.q[y].server # 0
    BY DEF Backed
  <2>1. n \in S.pinned /\ n # NameOf[x]
    BY DEF Dropped
  <2>2. PICK y \in Questions : S.q[y].on /\ NameOf[y] = n /\ S.q[y].server # 0
    BY <2>1 DEF Sound, Backed
  <2> QED BY <1>4, <2>1, <2>2
<1>11. T \in States /\ T.server[s].listed = S.server[s].listed
  BY <1>1 DEF Dropped, States, ServerRecord
<1>12. Sound(T)
  BY <1>7, <1>8, <1>9, <1>10, <1>11, OneServer
<1> QED BY <1>5, <1>12

\* StartLLQPolling keeps the invariant.
LEMMA PollingSound ==
  ASSUME NEW S, Sound(S), NEW x \in Questions
  PROVE  /\ Sound(StartLLQPolling(S, x))
         /\ StartLLQPolling(S, x) = [S EXCEPT !.q = [S.q EXCEPT ![x].state = "Poll", ![x].nta = FALSE]]
<1> DEFINE T == StartLLQPolling(S, x)
<1>1. S \in States /\ S.q \in [Questions -> QuestionRecord]
  BY DEF Sound, States
<1>2. T = [S EXCEPT !.q = [S.q EXCEPT ![x].state = "Poll", ![x].nta = FALSE]]
  BY <1>1 DEF StartLLQPolling, States
<1>3. [S.q EXCEPT ![x].state = "Poll", ![x].nta = FALSE] \in [Questions -> QuestionRecord]
  BY ZenonT(60), <1>1 DEF QuestionRecord
<1>4. T \in States /\ T.q = [S.q EXCEPT ![x].state = "Poll", ![x].nta = FALSE]
      /\ T.server = S.server /\ T.dso = S.dso /\ T.connect = S.connect /\ T.peer = S.peer
      /\ T.pinned = S.pinned
  BY <1>1, <1>2, <1>3 DEF States
<1> HIDE DEF T
<1>5. \A y \in Questions : /\ T.q[y].server = S.q[y].server
                           /\ T.q[y].on = S.q[y].on /\ T.q[y].dup = S.q[y].dup
                           /\ T.q[y].nta => S.q[y].nta
  BY <1>1, <1>4 DEF QuestionRecord
<1>6. \A t \in Servers : Holders(T, t) = Holders(S, t)
  BY <1>5 DEF Holders
<1>7. Asked(T)
  <2>1. ASSUME NEW y \in Questions, S.q[y].dup # NoQuestion PROVE S.q[y].dup \in Questions
    BY <1>1, <2>1 DEF QuestionRecord
  <2>2. \A y \in Questions : T.q[y].nta \in BOOLEAN /\ S.q[y].nta \in BOOLEAN
    BY ZenonT(60), <1>1, <1>4 DEF QuestionRecord
  <2> QED BY <1>5, <2>1, <2>2 DEF Asked, Sound
<1>8. Backed(T)
  BY <1>4, <1>5 DEF Backed, Sound
<1>9. Single(T) /\ \A t \in Servers : At(T, t, 0)
  BY <1>4, <1>6 DEF Single, At, Sound
<1> QED BY <1>2, <1>4, <1>7, <1>8, <1>9 DEF Sound, T

\* Every question of server s is unsubscribed and falls back to polling; t are
\* those for which that is done.
LetGo(S, T, t) ==
  /\ T.q = [y \in Questions |-> IF y \in t THEN [S.q[y] EXCEPT !.server = 0, !.state = "Poll",
                                                              !.nta = FALSE]
                                          ELSE S.q[y]]
  /\ T.pinned = S.pinned \ {NameOf[y] : y \in t} /\ T.bad = S.bad /\ T.connect = S.connect
  /\ \A z \in Servers : /\ T.dso[z].life = S.dso[z].life /\ T.peer[z].subs = S.peer[z].subs
                        /\ T.server[z].listed = S.server[z].listed

\* DNSPushServerCancel unsubscribes the holders one after the other.
DropOp(x, R, p) == StartLLQPolling(Unsubscribe(R, x), x)
DropInv(t, R, p) ==
  Sound(R) /\ Holders(R, p[2]) = Holders(p[1], p[2]) \ t /\ LetGo(p[1], R, t)
Drops == INSTANCE FoldInduction WITH Op <- DropOp, P <- DropInv

\* When it has, no holder is left and the invariant holds.
LEMMA UnsubscribeAllSound ==
  ASSUME NEW S, Sound(S), NEW s \in Servers
  PROVE  /\ Sound(UnsubscribeAll(S, s)) /\ Holders(UnsubscribeAll(S, s), s) = {}
         /\ LetGo(S, UnsubscribeAll(S, s), Holders(S, s))
<1> DEFINE H == Holders(S, s)
           p == <<S, s>>
<1>1. p[1] = S /\ p[2] = s
  OBVIOUS
<1> HIDE DEF p
<1>2. DropInv({}, S, p)
  <2>1. LetGo(S, S, {})
    BY DEF LetGo, Sound, States
  <2> QED BY <1>1, <2>1 DEF DropInv
<1>3. ASSUME NEW t \in SUBSET H, NEW R, NEW x \in t, DropInv(t \ {x}, R, p)
      PROVE  DropInv(t, DropOp(x, R, p), p)
  <2>1. Sound(R) /\ Holders(R, s) = H \ (t \ {x}) /\ LetGo(S, R, t \ {x})
    BY <1>1, <1>3 DEF DropInv
  <2>2. x \in Questions /\ R.q[x].server = s /\ s # 0
    <3>1. x \in Holders(R, s)
      BY <2>1
    <3> QED BY <3>1, PushAssumption DEF Holders, Servers
  <2> DEFINE U == Unsubscribe(R, x)
             T == StartLLQPolling(U, x)
  <2>3. Dropped(R, U, x, s)
    BY <2>1, <2>2, UnsubscribeDrops
  <2> HIDE DEF U
  <2>4. Sound(U) /\ \A z \in Servers : Holders(U, z) = Holders(R, z) \ {x}
    BY <2>1, <2>2, <2>3, DropSound
  <2>5. Sound(T) /\ T = [U EXCEPT !.q = [U.q EXCEPT ![x].state = "Poll", ![x].nta = FALSE]]
    BY <2>2, <2>4, PollingSound
  <2> HIDE DEF T
  <2>6. /\ T.q = [U.q EXCEPT ![x].state = "Poll", ![x].nta = FALSE]
        /\ T.server = U.server /\ T.dso = U.dso /\ T.connect = U.connect /\ T.peer = U.peer
        /\ T.pinned = U.pinned /\ T.bad = U.bad /\ U \in States
        /\ U.q \in [Questions -> QuestionRecord]
    BY <2>4, <2>5 DEF Sound, States
  <2>7. Holders(T, s) = H \ t
    <3>1. \A y \in Questions : T.q[y].server = U.q[y].server
      BY <2>6 DEF QuestionRecord
    <3>2. Holders(T, s) = Holders(U, s)
      BY <3>1 DEF Holders
    <3> QED BY <2>1, <2>4, <3>2
  <2>8. T.q = [y \in Questions |-> IF y \in t THEN [S.q[y] EXCEPT !.server = 0, !.state = "Poll",
                                                                !.nta = FALSE]
                                            ELSE S.q[y]]
    <3>1. R.q = [y \in Questions |-> IF y \in t \ {x} THEN [S.q[y] EXCEPT !.server = 0, !.state = "Poll",
                                                                !.nta = FALSE]
                                            ELSE S.q[y]]
      BY <2>1 DEF LetGo
    <3>2. R.q \in [Questions -> QuestionRecord] /\ S.q \in [Questions -> QuestionRecord]
      BY <2>1 DEF Sound, States
    <3>3. U.q = [R.q EXCEPT ![x].server = 0]
      BY <2>3 DEF Dropped
    <3>4. U.q = [R.q EXCEPT ![x] = [S.q[x] EXCEPT !.server = 0]]
      BY <2>2, <3>1, <3>2, <3>3
    <3>5. T.q = [R.q EXCEPT ![x] = [S.q[x] EXCEPT !.server = 0, !.state = "Poll", !.nta = FALSE]]
      BY <2>2, <2>6, <3>2, <3>4 DEF QuestionRecord
    <3> QED BY <2>2, <3>1, <3>2, <3>5
  <2>9. T.pinned = S.pinned \ {NameOf[y] : y \in t}
    <3>1. U.pinned = R.pinned \ {NameOf[x]} /\ R.pinned = S.pinned \ {NameOf[y] : y \in t \ {x}}
      BY <2>1, <2>3 DEF Dropped, LetGo
    <3> QED BY <1>3, <2>6, <3>1
  <2>10. T.bad = S.bad /\ T.connect = S.connect
    BY <2>1, <2>3, <2>6 DEF Dropped, LetGo
  <2>11. ASSUME NEW z \in Servers
         PROVE  /\ T.dso[z].life = S.dso[z].life /\ T.peer[z].subs = S.peer[z].subs
                /\ T.server[z].listed = S.server[z].listed
    <3>1. /\ R.dso[z].life = S.dso[z].life /\ R.peer[z].subs = S.peer[z].subs
          /\ R.server[z].listed = S.server[z].listed
      BY <2>1 DEF LetGo
    <3>2. R \in States
      BY <2>1 DEF Sound
    <3>3. Shrunk(R, U, x, s)
      BY <2>2, <2>3, <3>2, DroppedAt
    <3>4. R.dso[s] \in DSORecord /\ R.peer[s] \in PeerRecord /\ R.server[s] \in ServerRecord
      BY <3>2 DEF States
    <3>5. U.dso[z].life = R.dso[z].life
      <4>1. CASE z # s
        BY <3>3, <4>1 DEF Shrunk
      <4>2. CASE z = s
        BY <3>3, <3>4, <4>2 DEF Shrunk, DSORecord
      <4> QED BY <4>1, <4>2
    <3>6. U.peer[z].subs = R.peer[z].subs
      <4>1. CASE z # s
        BY <3>3, <4>1 DEF Shrunk
      <4>2. CASE z = s
        BY <3>3, <3>4, <4>2 DEF Shrunk, PeerRecord
      <4> QED BY <4>1, <4>2
    <3>7. U.server[z].listed = R.server[z].listed
      <4>1. CASE z # s
        BY <3>3, <4>1 DEF Shrunk
      <4>2. CASE z = s
        BY <3>3, <3>4, <4>2 DEF Shrunk, ServerRecord
      <4> QED BY <4>1, <4>2
    <3> QED BY <2>6, <3>1, <3>5, <3>6, <3>7
  <2>12. LetGo(S, T, t)
    BY <2>8, <2>9, <2>10, <2>11 DEF LetGo
  <2> QED BY <1>1, <2>5, <2>7, <2>12 DEF DropInv, DropOp, T, U
<1>4. Drops!IsFiniteSet(H)
  <2>1. IsFiniteSet(H)
    BY HoldersFinite
  <2> QED BY <2>1 DEF IsFiniteSet, Drops!IsFiniteSet
<1>5. DropInv(H, Drops!Fold(H, S, p), p)
  <2> HIDE DEF H
  <2>1. \A t \in SUBSET H : \A R : \A x \in t :
           DropInv(t \ {x}, R, p) => DropInv(t, DropOp(x, R, p), p)
    BY <1>3
  <2> QED BY <1>2, <1>4, <2>1, Drops!FoldPreserves, Zenon
<1>6. Drops!Fold(H, S, p) = UnsubscribeAll(S, s)
  BY Zenon DEF Drops!Fold, Drops!FoldSet, Drops!MapThenFoldSet, UnsubscribeAll, FoldSet,
               MapThenFoldSet, DropOp
<1> QED BY <1>1, <1>5, <1>6 DEF DropInv

\* What DNSPushServerCancel leaves of the questions and of the other servers.
Cancelled(S, T, s) ==
  /\ T.q = [y \in Questions |-> IF y \in Holders(S, s) THEN [S.q[y] EXCEPT !.server = 0, !.state = "Poll",
                                                                            !.nta = FALSE]
                                                        ELSE S.q[y]]
  /\ T.pinned = S.pinned \ {NameOf[y] : y \in Holders(S, s)} /\ T.bad = S.bad
  /\ ~T.server[s].listed
  /\ \A z \in Servers : T.peer[z].subs = S.peer[z].subs
  /\ \A z \in Servers \ {s} : T.dso[z].life = S.dso[z].life

\* The server record of s is replaced.
Put(S, s, v) == [S EXCEPT !.server = [S.server EXCEPT ![s] = v]]
Replaced(S, T, s, v) ==
  /\ T.server[s] = v /\ T.server = [S.server EXCEPT ![s] = v]
  /\ T.q = S.q /\ T.dso = S.dso /\ T.connect = S.connect /\ T.peer = S.peer
  /\ T.pinned = S.pinned /\ T.bad = S.bad

\* Only the record of s is replaced.
LEMMA PutReplaces ==
  ASSUME NEW S \in States, NEW s \in Servers, NEW v
  PROVE  Replaced(S, Put(S, s, v), s, v)
  BY DEF States, Put, Replaced

\* A replaced record keeps the type.
LEMMA PutTyped ==
  ASSUME NEW S \in States, NEW s \in Servers, NEW v \in ServerRecord
  PROVE  Put(S, s, v) \in States
  BY DEF States, Put

\* The last replacement counts.
LEMMA PutTwice ==
  ASSUME NEW S \in States, NEW s \in Servers, NEW v, NEW w
  PROVE  Put(Put(S, s, v), s, w) = Put(S, s, w)
  BY DEF States, Put

\* Replacing a record by itself does nothing.
LEMMA PutSame ==
  ASSUME NEW S \in States, NEW s \in Servers
  PROVE  Put(S, s, S.server[s]) = S
  BY DEF States, Put

\* A record with other counts is a record.
LEMMA CountsTyped ==
  ASSUME NEW v \in ServerRecord, NEW r \in Int, NEW z \in Int
  PROVE  [v EXCEPT !.zrefs = z, !.refs = r] \in ServerRecord
  BY DEF ServerRecord

\* Releasing references to a server replaces its count.
LEMMA ReleaseServerPuts ==
  ASSUME NEW S \in States, NEW s \in Servers, NEW v, NEW k
  PROVE  ReleaseServer(Put(S, s, v), s, k) = Put(S, s, [v EXCEPT !.refs = v.refs - k])
<1> DEFINE T == Put(S, s, v)
<1>1. T.server[s] = v
  BY ZenonT(60), PutReplaces DEF Replaced
<1> HIDE DEF T
<1>2. ReleaseServer(T, s, k) = Put(T, s, [T.server[s] EXCEPT !.refs = T.server[s].refs - k])
  BY DEF ReleaseServer, Put
<1> QED BY <1>1, <1>2, PutTwice DEF T

\* Releasing the last zone reference also releases the zone's reference to its server.
LEMMA ReleaseZonePuts ==
  ASSUME NEW S \in States, NEW s \in Servers, NEW v, NEW k, v.zrefs - k = 0
  PROVE  ReleaseZone(Put(S, s, v), s, k) = Put(S, s, [v EXCEPT !.zrefs = 0, !.refs = v.refs - 1])
<1> DEFINE T == Put(S, s, v)
<1>1. T.server[s] = v
  BY ZenonT(60), PutReplaces DEF Replaced
<1> HIDE DEF T
<1>2. ReleaseZone(T, s, k) = [T EXCEPT !.server[s].zrefs = 0, !.server[s].refs = T.server[s].refs - 1]
  BY <1>1 DEF ReleaseZone
<1>3. [T EXCEPT !.server[s].zrefs = 0, !.server[s].refs = T.server[s].refs - 1]
      = Put(T, s, [T.server[s] EXCEPT !.zrefs = 0, !.refs = T.server[s].refs - 1])
  BY DEF Put
<1> QED BY <1>1, <1>2, <1>3, PutTwice DEF T

\* DNSPushServerCancel keeps the invariant, leaves the server no holders and does to
\* the rest what Cancelled says, from whichever callback it is called.
LEMMA CancelSound ==
  ASSUME NEW S, Sound(S), NEW s \in Servers
  PROVE  /\ Sound(DNSPushServerCancel(S, s)) /\ Cancelled(S, DNSPushServerCancel(S, s), s)
         /\ Holders(DNSPushServerCancel(S, s), s) = {}
<1> DEFINE U == UnsubscribeAll(S, s)
           R == ServerRemove(U, s)
           D == IF R.server[s].connection
                THEN [R EXCEPT !.server[s].connection = FALSE, !.dso[s].life = "cleanup"] ELSE R
           T == DNSPushServerCancel(S, s)
<1>1. Sound(U) /\ Holders(U, s) = {} /\ LetGo(S, U, Holders(S, s))
  BY UnsubscribeAllSound
<1>2. T = IF R.server[s].connectInfo
          THEN ReleaseServer([D EXCEPT !.server[s].connectInfo = FALSE,
                                       !.connect[s] = [NoConnect EXCEPT !.life = "cleanup"]], s, 1)
          ELSE D
  BY DEF DNSPushServerCancel
<1> HIDE DEF U, T
<1>3. /\ U.server[s] \in ServerRecord /\ U.dso[s] \in DSORecord
      /\ U.connect[s] \in ConnectRecord /\ U.peer[s] \in PeerRecord
      /\ Counted(U.server[s], U.dso[s], {}, 0)
      /\ Joined(U.server[s], U.dso[s], U.connect[s], {})
      /\ Quiet(U.dso[s], U.connect[s], U.peer[s])
      /\ Matched(U.dso[s].out, U.peer[s]) /\ U \in States
  BY <1>1, SoundParts DEF Sound
<1>4. CASE ~U.server[s].listed
  <2>1. ~U.server[s].zlisted /\ ~U.server[s].connection /\ ~U.server[s].connectInfo
    BY <1>3, <1>4 DEF Joined, ServerRecord
  <2>2. R = U
    BY <1>4, <2>1 DEF ServerRemove
  <2>3. T = U
    BY <1>2, <2>1, <2>2
  <2>4. Cancelled(S, U, s)
    BY <1>1, <1>4 DEF LetGo, Cancelled
  <2> QED BY <1>1, <2>3, <2>4 DEF T
<1>5. CASE U.server[s].listed
  <2> DEFINE v == U.server[s]
             d == [U.dso[s] EXCEPT !.life = "cleanup"]
             c == [NoConnect EXCEPT !.life = "cleanup"]
  <2>1. v.zlisted = TRUE /\ v.connection = TRUE /\ v.connectInfo = TRUE /\ v.zrefs = 1 /\ v.refs = 4
    BY <1>3, <1>5, EmptyCount DEF Joined, Counted, ServerRecord
  <2>2. PICK a \in ServerRecord :
           /\ ReleaseZone(U, s, 1) = Put(U, s, a)
           /\ a.refs = 3 /\ a.zrefs = 0 /\ a.connection = TRUE /\ a.connectInfo = TRUE
    <3> DEFINE a == [v EXCEPT !.zrefs = 0, !.refs = v.refs - 1]
    <3>1. v \in ServerRecord /\ v.refs - 1 = 3
      BY <1>3, <2>1
    <3>2. a \in ServerRecord /\ a.refs = 3 /\ a.zrefs = 0
      <4> HIDE DEF v
      <4>1. v \in ServerRecord
        BY <3>1
      <4>2. [v EXCEPT !.zrefs = 0, !.refs = 3] \in ServerRecord
        <5>1. 0 \in Int /\ 3 \in Int
          OBVIOUS
        <5> QED BY <4>1, <5>1, CountsTyped, Zenon
      <4>3. [v EXCEPT !.zrefs = 0, !.refs = 3].refs = 3 /\ [v EXCEPT !.zrefs = 0, !.refs = 3].zrefs = 0
        BY <3>1 DEF ServerRecord
      <4> QED BY <3>1, <4>2, <4>3
    <3>3. a.connection = TRUE /\ a.connectInfo = TRUE
      BY <1>3, <2>1 DEF ServerRecord
    <3>4. v.zrefs - 1 = 0
      BY <2>1
    <3>5. ReleaseZone(Put(U, s, v), s, 1) = Put(U, s, a)
      <4> HIDE DEF v
      <4> QED BY <1>3, <3>4, ReleaseZonePuts
    <3> QED BY <1>3, <3>2, <3>3, <3>5, PutSame
  <2>3. PICK r \in ServerRecord :
           /\ R = Put(U, s, r)
           /\ r.refs = 2 /\ r.zrefs = 0 /\ r.connection = TRUE /\ r.connectInfo = TRUE
           /\ r.listed = FALSE /\ r.zlisted = FALSE
    <3> DEFINE A == Put(U, s, a)
               e == [a EXCEPT !.zlisted = FALSE, !.listed = FALSE]
               r == [e EXCEPT !.refs = e.refs - 1]
    <3>1. R = ReleaseServer([A EXCEPT !.server[s].zlisted = FALSE, !.server[s].listed = FALSE], s, 1)
      BY <1>5, <2>1, <2>2 DEF ServerRemove
    <3>2. A.server[s] = a
      BY ZenonT(60), <1>3, PutReplaces DEF Replaced
    <3>3. [A EXCEPT !.server[s].zlisted = FALSE, !.server[s].listed = FALSE] = Put(U, s, e)
      <4> HIDE DEF A
      <4>1. [A EXCEPT !.server[s].zlisted = FALSE, !.server[s].listed = FALSE]
            = Put(A, s, [A.server[s] EXCEPT !.zlisted = FALSE, !.listed = FALSE])
        BY DEF Put
      <4> QED BY <1>3, <3>2, <4>1, PutTwice DEF A
    <3>4. e \in ServerRecord /\ e.refs = 3 /\ e.zrefs = 0
      BY <2>2 DEF ServerRecord
    <3>5. e.connection = TRUE /\ e.connectInfo = TRUE /\ e.listed = FALSE /\ e.zlisted = FALSE
      BY <2>2 DEF ServerRecord
    <3> HIDE DEF e
    <3>6. r \in ServerRecord /\ r.refs = 2 /\ r.zrefs = 0
      BY <3>4 DEF ServerRecord
    <3>7. r.connection = TRUE /\ r.connectInfo = TRUE /\ r.listed = FALSE /\ r.zlisted = FALSE
      BY <3>4, <3>5 DEF ServerRecord
    <3>8. R = Put(U, s, r)
      BY <1>3, <3>1, <3>3, ReleaseServerPuts
    <3> QED BY <3>6, <3>7, <3>8
  <2> HIDE DEF R
  <2>4. Replaced(U, R, s, r)
    BY <1>3, <2>3, PutReplaces
  <2> DEFINE X == [U EXCEPT !.dso[s] = d]
             Y == [U EXCEPT !.dso[s] = d, !.connect[s] = c]
  <2>5. d \in DSORecord /\ c \in ConnectRecord
    BY <1>3, NoneTyped DEF DSORecord, ConnectRecord, Lives
  <2>6. X \in States /\ Y \in States
    <3> HIDE DEF d, c
    <3> QED BY <1>3, <2>5 DEF States
  <2>7. PICK f \in ServerRecord :
           /\ D = Put(X, s, f)
           /\ f.refs = 2 /\ f.zrefs = 0 /\ f.connection = FALSE /\ f.connectInfo = TRUE
           /\ f.listed = FALSE /\ f.zlisted = FALSE
    <3> DEFINE f == [r EXCEPT !.connection = FALSE]
    <3>1. R.server[s] = r /\ R.dso = U.dso
      BY <2>4 DEF Replaced
    <3>2. D = [R EXCEPT !.server[s].connection = FALSE, !.dso[s].life = "cleanup"]
      BY <2>3, <3>1
    <3>3. D = [R EXCEPT !.server[s] = f, !.dso[s] = d]
      BY <3>1, <3>2
    <3>4. D = Put(X, s, f)
      <4> HIDE DEF f, d, D
      <4>1. D = [Put(U, s, r) EXCEPT !.server[s] = f, !.dso[s] = d]
        BY <2>3, <3>3
      <4>2. U \in States
        BY <1>3
      <4> QED BY <4>1, <4>2 DEF Put, States
    <3>5. f \in ServerRecord /\ f.refs = 2 /\ f.zrefs = 0
      BY <2>3 DEF ServerRecord
    <3>6. f.connection = FALSE /\ f.connectInfo = TRUE /\ f.listed = FALSE /\ f.zlisted = FALSE
      BY <2>3 DEF ServerRecord
    <3> QED BY <3>4, <3>5, <3>6
  <2>8. R.server[s].connectInfo
    BY <2>3, <2>4 DEF Replaced
  <2> HIDE DEF D, d, c
  <2>9. PICK w \in ServerRecord :
           /\ T = Put(Y, s, w)
           /\ w.refs = 1 /\ w.zrefs = 0 /\ w.connection = FALSE /\ w.connectInfo = FALSE
           /\ w.listed = FALSE /\ w.zlisted = FALSE
    <3> DEFINE e == [f EXCEPT !.connectInfo = FALSE]
               w == [e EXCEPT !.refs = e.refs - 1]
               E == [D EXCEPT !.server[s].connectInfo = FALSE, !.connect[s] = c]
    <3>1. D.server[s] = f
      <4> HIDE DEF X
      <4>1. Replaced(X, D, s, f)
        BY <2>7, <2>6, PutReplaces
      <4> QED BY <4>1 DEF Replaced
    <3>2. T = ReleaseServer(E, s, 1)
      BY <1>2, <2>8 DEF c
    <3>3. E = Put(Y, s, e)
      <4>1. E = [D EXCEPT !.server[s] = e, !.connect[s] = c]
        BY <3>1
      <4> HIDE DEF e, E
      <4>2. E = [Put(X, s, f) EXCEPT !.server[s] = e, !.connect[s] = c]
        BY <2>7, <4>1
      <4>3. U \in States
        BY <1>3
      <4> QED BY <4>2, <4>3 DEF Put, States
    <3>4. e \in ServerRecord /\ e.refs = 2 /\ e.zrefs = 0
      BY <2>7 DEF ServerRecord
    <3>5. e.connection = FALSE /\ e.connectInfo = FALSE /\ e.listed = FALSE /\ e.zlisted = FALSE
      BY <2>7 DEF ServerRecord
    <3> HIDE DEF e, E
    <3>6. w \in ServerRecord /\ w.refs = 1 /\ w.zrefs = 0
      BY <3>4 DEF ServerRecord
    <3>7. w.connection = FALSE /\ w.connectInfo = FALSE /\ w.listed = FALSE /\ w.zlisted = FALSE
      BY <3>4, <3>5 DEF ServerRecord
    <3>8. T = Put(Y, s, w)
      BY <2>6, <3>2, <3>3, ReleaseServerPuts
    <3> QED BY <3>6, <3>7, <3>8
  <2>10. w.listed = FALSE /\ w.refs = 1 /\ w.zrefs = 0 /\ w.zlisted = FALSE /\ w.connection = FALSE
         /\ w.connectInfo = FALSE /\ d.life = "cleanup" /\ d.out = U.dso[s].out
         /\ d.transport = U.dso[s].transport
    BY <1>3, <2>9 DEF DSORecord, d
  <2>11. c.life = "cleanup" /\ ~c.lookup /\ ~c.last_event /\ c.queue + c.tried <= MaxAddresses
         /\ \A i \in Attempts : c.nw[i] = "none"
    BY PushAssumption DEF c, NoConnect
  <2> HIDE DEF v
  <2>12. T \in States /\ T.q = U.q /\ T.pinned = U.pinned /\ T.bad = U.bad /\ T.peer = U.peer
         /\ T.server = [U.server EXCEPT ![s] = w] /\ T.dso = [U.dso EXCEPT ![s] = d]
         /\ T.connect = [U.connect EXCEPT ![s] = c]
    <3>1. Y.q = U.q /\ Y.pinned = U.pinned /\ Y.bad = U.bad /\ Y.peer = U.peer /\ Y.server = U.server
          /\ Y.dso = [U.dso EXCEPT ![s] = d] /\ Y.connect = [U.connect EXCEPT ![s] = c]
      BY <1>3 DEF States
    <3> HIDE DEF Y
    <3>2. Replaced(Y, T, s, w) /\ T \in States
      BY <2>9, <2>6, PutReplaces, PutTyped
    <3> QED BY <3>1, <3>2 DEF Replaced
  <2>13. \A t \in Servers : Holders(T, t) = Holders(U, t)
    BY <2>12 DEF Holders
  <2>14. /\ T.server[s] = w /\ T.dso[s] = d /\ T.connect[s] = c
         /\ \A t \in Servers \ {s} : T.server[t] = U.server[t] /\ T.dso[t] = U.dso[t]
                                     /\ T.connect[t] = U.connect[t]
    BY <1>3, <2>12 DEF States
  <2>15. At(T, s, 0)
    <3>1. Counted(w, d, {}, 0)
      BY <2>10 DEF Counted, B
    <3>2. Joined(w, d, c, {})
      BY <2>10, <2>11 DEF Joined
    <3>3. Quiet(d, c, U.peer[s])
      BY <1>3, <2>10, <2>11 DEF Quiet
    <3>4. Matched(d.out, U.peer[s])
      BY <1>3, <2>10
    <3> QED BY <1>1, <2>12, <2>13, <2>14, <3>1, <3>2, <3>3, <3>4 DEF At, Whole
  <2>16. Asked(T) /\ Backed(T)
    BY <1>1, <2>12 DEF Sound, Asked, Backed
  <2>17. Sound(T)
    <3>1. \A t \in Servers \ {s} :
             /\ T.server[t] = U.server[t] /\ T.dso[t] = U.dso[t] /\ T.connect[t] = U.connect[t]
             /\ T.peer[t] = U.peer[t] /\ Holders(T, t) = Holders(U, t)
      BY <2>12, <2>13, <2>14
    <3>2. ~T.server[s].listed /\ T \in States
      BY <2>10, <2>12, <2>14
    <3> QED BY <1>1, <2>15, <2>16, <3>1, <3>2, OneServer
  <2>18. Cancelled(S, T, s)
    <3>1. \A z \in Servers \ {s} : T.dso[z].life = S.dso[z].life
      BY <1>1, <2>14 DEF LetGo
    <3>2. \A z \in Servers : T.peer[z].subs = S.peer[z].subs
      BY <1>1, <2>12 DEF LetGo
    <3> QED BY <1>1, <2>10, <2>12, <2>14, <3>1, <3>2 DEF LetGo, Cancelled
  <2> QED BY <1>1, <2>13, <2>17, <2>18 DEF T
<1> QED BY <1>4, <1>5

-----------------------------------------------------------------------------
(* Questions stop and start.                                               *)

\* Only the questions change, and no server changes holders.
LEMMA QuestionsOnly ==
  ASSUME NEW S, Sound(S), NEW T \in States,
         T.server = S.server, T.dso = S.dso, T.connect = S.connect, T.peer = S.peer,
         \A t \in Servers : Holders(T, t) = Holders(S, t),
         Asked(T), Backed(T)
  PROVE  Sound(T)
<1>1. Single(T) /\ \A t \in Servers : At(T, t, 0)
  BY DEF Single, At, Sound
<1> QED BY <1>1 DEF Sound

\* Changed questions are questions.
LEMMA QuestionTyped ==
  ASSUME NEW r \in QuestionRecord, NEW y \in Questions \cup {NoQuestion}
  PROVE  /\ [r EXCEPT !.dup = y] \in QuestionRecord
         /\ [r EXCEPT !.server = 0, !.nta = FALSE] \in QuestionRecord
  BY DEF QuestionRecord

\* Other activities change nothing else in a dso_state_t.
LEMMA ActivitiesTyped ==
  ASSUME NEW d \in DSORecord, NEW A \in SUBSET Questions
  PROVE  /\ [d EXCEPT !.acts = A] \in DSORecord /\ [d EXCEPT !.acts = A].acts = A
         /\ [d EXCEPT !.acts = A].life = d.life /\ [d EXCEPT !.acts = A].out = d.out
         /\ [d EXCEPT !.acts = A].transport = d.transport
  BY DEF DSORecord

\* The other question y takes over the one x.
Moved(S, T, x, y) ==
  /\ T \in States
  /\ T.q = [z \in Questions |->
              IF z = y THEN [S.q[x] EXCEPT !.dup = NoQuestion]
              ELSE IF z = x THEN [S.q[x] EXCEPT !.server = 0, !.nta = FALSE]
              ELSE IF S.q[z].dup = x THEN [S.q[z] EXCEPT !.dup = y] ELSE S.q[z]]
  /\ T.server = S.server /\ T.connect = S.connect /\ T.peer = S.peer
  /\ T.pinned = S.pinned /\ T.bad = S.bad
  /\ \A t \in Servers :
       T.dso[t] = IF t = S.q[x].server
                  THEN [S.dso[t] EXCEPT !.acts = (S.dso[t].acts \ {x}) \cup {y}] ELSE S.dso[t]

\* HandOver does that when y is a duplicate of x.
LEMMA HandOverMoves ==
  ASSUME NEW S, Sound(S), NEW x \in Questions, NEW y \in Questions, S.q[y].dup = x
  PROVE  Moved(S, HandOver(S, x, y), x, y)
<1> DEFINE s == S.q[x].server
           Q == [z \in Questions |->
                   IF z = y THEN [S.q[x] EXCEPT !.dup = NoQuestion]
                   ELSE IF z = x THEN [S.q[x] EXCEPT !.server = 0, !.nta = FALSE]
                   ELSE IF S.q[z].dup = x THEN [S.q[z] EXCEPT !.dup = y] ELSE S.q[z]]
           R == [S EXCEPT !.q = Q]
           d == [S.dso[s] EXCEPT !.acts = (S.dso[s].acts \ {x}) \cup {y}]
           T == HandOver(S, x, y)
<1>1. S \in States /\ S.q \in [Questions -> QuestionRecord] /\ S.dso \in [Servers -> DSORecord]
  BY DEF Sound, States
<1>2. Q \in [Questions -> QuestionRecord]
  <2>1. [S.q[x] EXCEPT !.dup = NoQuestion] \in QuestionRecord
    BY <1>1, QuestionTyped
  <2>2. [S.q[x] EXCEPT !.server = 0, !.nta = FALSE] \in QuestionRecord
    BY <1>1, QuestionTyped
  <2>3. \A z \in Questions : [S.q[z] EXCEPT !.dup = y] \in QuestionRecord
    BY <1>1, QuestionTyped
  <2> QED BY <1>1, <2>1, <2>2, <2>3
<1>3. T = IF s # 0 /\ S.server[s].connection /\ x \in S.dso[s].acts
          THEN [R EXCEPT !.dso[s].acts = (@ \ {x}) \cup {y}] ELSE R
  BY DEF HandOver
<1> HIDE DEF Q, T
<1>4. /\ R \in States /\ R.q = Q /\ R.server = S.server /\ R.connect = S.connect /\ R.peer = S.peer
      /\ R.pinned = S.pinned /\ R.bad = S.bad /\ R.dso = S.dso
  BY <1>1, <1>2 DEF States
<1> HIDE DEF R
<1>5. CASE s = 0
  <2>1. T = R
    BY <1>3, <1>5
  <2>2. \A t \in Servers : t # s
    BY <1>5, PushAssumption DEF Servers
  <2> QED BY <1>4, <2>1, <2>2 DEF Moved, T, Q
<1>6. CASE s # 0
  <2>1. s \in Servers /\ x \in Holders(S, s) /\ S.server[s].listed /\ S.server[s].connection
    BY <1>6, HolderListed
  <2>2. x \in S.dso[s].acts
    BY <2>1, SoundParts DEF Joined
  <2>3. d \in DSORecord
    <3>1. S.dso[s] \in DSORecord /\ (S.dso[s].acts \ {x}) \cup {y} \in SUBSET Questions
      BY <1>1, <2>1 DEF DSORecord
    <3> QED BY <3>1, ActivitiesTyped
  <2>4. T = [R EXCEPT !.dso[s] = d]
    BY <1>3, <1>4, <1>6, <2>1, <2>2
  <2> HIDE DEF d, s
  <2>5. /\ T \in States /\ T.q = Q /\ T.server = S.server /\ T.connect = S.connect /\ T.peer = S.peer
        /\ T.pinned = S.pinned /\ T.bad = S.bad /\ T.dso = [S.dso EXCEPT ![s] = d]
    BY <1>4, <2>1, <2>3, <2>4 DEF States
  <2>6. \A t \in Servers : T.dso[t] = IF t = s THEN d ELSE S.dso[t]
    BY <1>1, <2>1, <2>5
  <2>7. \A t \in Servers : T.dso[t] = IF t = s
                  THEN [S.dso[t] EXCEPT !.acts = (S.dso[t].acts \ {x}) \cup {y}] ELSE S.dso[t]
    BY <2>6 DEF d
  <2> QED BY <2>5, <2>7 DEF Moved, T, Q, s
<1> QED BY <1>5, <1>6

\* One for another: a set keeps its size.
LEMMA SwapCount ==
  ASSUME NEW H, IsFiniteSet(H), NEW x \in H, NEW y, y \notin H
  PROVE  Cardinality((H \ {x}) \cup {y}) = Cardinality(H)
<1>1. IsFiniteSet(H \ {x}) /\ Cardinality(H \ {x}) = Cardinality(H) - 1
  BY FS_RemoveElement
<1>2. Cardinality(H) \in Nat /\ y \notin H \ {x}
  BY FS_CardinalityType
<1>3. Cardinality((H \ {x}) \cup {y}) = Cardinality(H \ {x}) + 1
  BY <1>1, <1>2, FS_AddElement
<1> QED BY <1>1, <1>2, <1>3

\* Handing over keeps the invariant, and nothing follows x any more.
LEMMA MovedSound ==
  ASSUME NEW S, Sound(S), NEW x \in Questions, NEW y \in Questions, S.q[y].dup = x,
         NEW T, Moved(S, T, x, y)
  PROVE  Sound(T) /\ \A z \in Questions : T.q[z].dup # x
<1>1. S \in States /\ S.q \in [Questions -> QuestionRecord] /\ S.dso \in [Servers -> DSORecord]
      /\ NoQuestion \notin Questions
  BY PushAssumption DEF Sound, States, NoQuestion
<1>2. /\ x # y /\ S.q[y].on /\ S.q[y].server = 0 /\ S.q[x].on /\ S.q[x].dup = NoQuestion
      /\ NameOf[y] = NameOf[x]
  BY <1>1 DEF Sound, Asked
<1>3. /\ T.q[y] = [S.q[x] EXCEPT !.dup = NoQuestion]
      /\ T.q[x] = [S.q[x] EXCEPT !.server = 0, !.nta = FALSE]
      /\ \A z \in Questions \ {x, y} :
           T.q[z] = IF S.q[z].dup = x THEN [S.q[z] EXCEPT !.dup = y] ELSE S.q[z]
  BY <1>2 DEF Moved
<1>4. /\ T.q[y].on = S.q[x].on /\ T.q[y].server = S.q[x].server
      /\ T.q[y].dup = NoQuestion /\ T.q[y].nta = S.q[x].nta
  <2>1. S.q[x] \in QuestionRecord
    BY <1>1
  <2> QED BY <1>3, <2>1 DEF QuestionRecord
<1>5. /\ T.q[x].on = S.q[x].on /\ T.q[x].server = 0
      /\ T.q[x].dup = NoQuestion /\ T.q[x].nta = FALSE
  <2>1. S.q[x] \in QuestionRecord
    BY <1>1
  <2> QED BY <1>2, <1>3, <2>1 DEF QuestionRecord
<1>6. \A z \in Questions \ {x, y} :
         /\ T.q[z].on = S.q[z].on /\ T.q[z].server = S.q[z].server /\ T.q[z].nta = S.q[z].nta
         /\ T.q[z].dup = IF S.q[z].dup = x THEN y ELSE S.q[z].dup
  <2> TAKE z \in Questions \ {x, y}
  <2>1. S.q[z] \in QuestionRecord
    BY <1>1
  <2>2. CASE S.q[z].dup = x
    BY <1>3, <2>1, <2>2 DEF QuestionRecord
  <2>3. CASE S.q[z].dup # x
    BY <1>3, <2>1, <2>3 DEF QuestionRecord
  <2> QED BY <2>2, <2>3
<1>7. \A z \in Questions : T.q[z].dup # x
  BY <1>1, <1>2, <1>6, <1>4, <1>5
<1>8. Asked(T)
  <2> SUFFICES ASSUME NEW z \in Questions
               PROVE  /\ T.q[z].dup # NoQuestion =>
                           /\ T.q[z].on /\ T.q[z].server = 0 /\ ~T.q[z].nta
                           /\ T.q[T.q[z].dup].on /\ T.q[T.q[z].dup].dup = NoQuestion
                           /\ NameOf[T.q[z].dup] = NameOf[z]
                      /\ ~T.q[z].on => T.q[z].server = 0 /\ ~T.q[z].nta
    BY DEF Asked
  <2>1. CASE z \in {x, y}
    <3>1. ~S.q[x].on => S.q[x].server = 0 /\ ~S.q[x].nta
      BY DEF Sound, Asked
    <3> QED BY <1>2, <1>4, <1>5, <2>1, <3>1
  <2>2. CASE z \notin {x, y} /\ S.q[z].dup = x
    <3>1. /\ S.q[z].on /\ S.q[z].server = 0 /\ ~S.q[z].nta
          /\ NameOf[x] = NameOf[z]
      BY <1>1, <2>2 DEF Sound, Asked
    <3>2. T.q[z].dup = y /\ z \in Questions \ {x, y}
      BY <1>6, <2>2
    <3> QED BY <1>2, <1>6, <1>4, <3>1, <3>2
  <2>3. CASE z \notin {x, y} /\ S.q[z].dup # x
    <3>1. S.q[z].dup \in Questions \cup {NoQuestion}
      BY <1>1 DEF QuestionRecord
    <3>2. S.q[z].dup # y
      BY <1>1, <1>2 DEF Sound, Asked
    <3>3. T.q[z].dup = S.q[z].dup /\ z \in Questions \ {x, y}
      BY <1>6, <2>3
    <3>4. /\ S.q[z].dup # NoQuestion =>
               /\ S.q[z].on /\ S.q[z].server = 0 /\ ~S.q[z].nta
               /\ S.q[S.q[z].dup].on /\ S.q[S.q[z].dup].dup = NoQuestion
               /\ NameOf[S.q[z].dup] = NameOf[z]
          /\ ~S.q[z].on => S.q[z].server = 0 /\ ~S.q[z].nta
      BY DEF Sound, Asked
    <3>5. ASSUME S.q[z].dup # NoQuestion
          PROVE  T.q[S.q[z].dup].on /\ T.q[S.q[z].dup].dup = NoQuestion
      <4>1. S.q[z].dup \in Questions \ {x, y}
        BY <2>3, <3>1, <3>2, <3>5
      <4>2. S.q[S.q[z].dup].on /\ S.q[S.q[z].dup].dup = NoQuestion
        BY <3>4, <3>5
      <4> QED BY <1>1, <1>6, <4>1, <4>2
    <3> QED BY <1>6, <3>3, <3>4, <3>5
  <2> QED BY <2>1, <2>2, <2>3
<1>9. Backed(T)
  <2> SUFFICES ASSUME NEW n \in T.pinned
               PROVE  \E z \in Questions : T.q[z].on /\ NameOf[z] = n /\ T.q[z].server # 0
    BY DEF Backed
  <2>1. PICK z \in Questions : S.q[z].on /\ NameOf[z] = n /\ S.q[z].server # 0
    BY DEF Sound, Backed, Moved
  <2>2. CASE z = x
    BY <1>2, <1>4, <2>1, <2>2
  <2>3. CASE z # x
    <3>1. z \in Questions \ {x, y}
      BY <1>2, <2>1, <2>3
    <3> QED BY <1>6, <2>1, <3>1
  <2> QED BY <2>2, <2>3
<1>10. \A t \in Servers : Holders(T, t) = IF x \in Holders(S, t) THEN (Holders(S, t) \ {x}) \cup {y}
                                                                 ELSE Holders(S, t)
  <2> TAKE t \in Servers
  <2>1. t # 0
    BY PushAssumption DEF Servers
  <2>2. y \notin Holders(S, t) /\ (x \in Holders(S, t) <=> S.q[x].server = t) /\ x \notin Holders(T, t)
        /\ (y \in Holders(T, t) <=> S.q[x].server = t)
    BY <1>2, <1>4, <1>5, <2>1 DEF Holders
  <2>3. \A z \in Questions \ {x, y} : z \in Holders(T, t) <=> z \in Holders(S, t)
    BY <1>6 DEF Holders
  <2>4. Holders(S, t) \subseteq Questions /\ Holders(T, t) \subseteq Questions
    BY DEF Holders
  <2> QED BY <2>2, <2>3, <2>4
<1>11. ASSUME NEW t \in Servers PROVE At(T, t, 0)
  <2> DEFINE v == S.server[t]
             d == T.dso[t]
             c == S.connect[t]
             p == S.peer[t]
             H == Holders(S, t)
             K == Holders(T, t)
  <2>1. /\ S.dso[t] \in DSORecord /\ v \in ServerRecord
        /\ Counted(v, S.dso[t], H, 0) /\ Joined(v, S.dso[t], c, H)
        /\ Quiet(S.dso[t], c, p) /\ Matched(S.dso[t].out, p)
    BY SoundParts
  <2>2. T.server[t] = v /\ T.connect[t] = c /\ T.peer[t] = p
    BY DEF Moved
  <2>3. CASE x \notin H
    <3>1. K = H
      BY <1>10, <2>3
    <3>2. t # S.q[x].server
      BY <2>3 DEF Holders
    <3>3. d = S.dso[t]
      BY <3>2 DEF Moved
    <3> HIDE DEF v, d, c, p, H, K
    <3> QED BY <2>1, <2>2, <3>1, <3>3 DEF At, Whole, v, d, c, p, H, K
  <2>4. CASE x \in H
    <3>1. K = (H \ {x}) \cup {y} /\ y \notin H
      <4>1. y \notin H
        BY <1>2, PushAssumption DEF Holders, Servers
      <4> QED BY <1>10, <2>4, <4>1
    <3>2. Cardinality(K) = Cardinality(H)
      BY <2>4, <3>1, HoldersFinite, SwapCount
    <3>3. t = S.q[x].server
      BY <2>4 DEF Holders
    <3>4. d = [S.dso[t] EXCEPT !.acts = (S.dso[t].acts \ {x}) \cup {y}]
      BY <3>3 DEF Moved
    <3>5. d.life = S.dso[t].life /\ d.acts = (S.dso[t].acts \ {x}) \cup {y} /\ d.out = S.dso[t].out
          /\ d.transport = S.dso[t].transport
      BY <2>1, <3>4 DEF DSORecord
    <3> HIDE DEF v, d, c, p, H, K
    <3>6. v.listed /\ S.dso[t].life = "live"
      BY <2>1, <2>4 DEF Joined, ServerRecord
    <3>7. Counted(v, d, K, 0)
      BY <2>1, <3>2, <3>5 DEF Counted
    <3>8. Joined(v, d, c, K)
      BY <2>1, <3>1, <3>5, <3>6 DEF Joined
    <3>9. Quiet(d, c, p) /\ Matched(d.out, p)
      BY <2>1, <3>5, <3>6 DEF Quiet
    <3> QED BY <2>2, <3>7, <3>8, <3>9 DEF At, Whole, v, d, c, p, H, K
  <2> QED BY <2>3, <2>4
<1>12. Single(T) /\ T \in States
  BY DEF Moved, Single, Sound
<1> QED BY <1>7, <1>8, <1>9, <1>11, <1>12 DEF Sound

\* What mDNS_StopQuery leaves: the record of x is cleared, and a duplicate, if
\* there is one, has taken over from it.
StoppedIn(S, T, x) ==
  /\ T.q[x] = Stopped
  /\ (\A y \in Questions : S.q[y].dup # x) =>
       /\ T.q = [S.q EXCEPT ![x] = Stopped]
       /\ T.pinned = IF S.q[x].server # 0 THEN S.pinned \ {NameOf[x]} ELSE S.pinned
  /\ (\E y \in Questions : S.q[y].dup = x) =>
       /\ T.pinned = S.pinned
       /\ \E y \in Questions :
            /\ S.q[y].dup = x
            /\ T.q = [z \in Questions |->
                        IF z = x THEN Stopped
                        ELSE IF z = y THEN [S.q[x] EXCEPT !.dup = NoQuestion]
                        ELSE IF S.q[z].dup = x THEN [S.q[z] EXCEPT !.dup = y] ELSE S.q[z]]
  /\ \A z \in Servers : /\ T.dso[z].life = S.dso[z].life /\ T.peer[z].subs = S.peer[z].subs
                        /\ T.server[z].listed = S.server[z].listed

\* The question that holds nothing and that no other one follows is cleared.
Unused(U, x) == U.q[x].server = 0 /\ \A z \in Questions : U.q[z].dup # x
Clear(U, x, b) == [U EXCEPT !.q[x] = Stopped, !.bad = b]
Cleared(U, T, x) ==
  /\ T.q = [U.q EXCEPT ![x] = Stopped] /\ T.pinned = U.pinned
  /\ T.server = U.server /\ T.dso = U.dso /\ T.connect = U.connect /\ T.peer = U.peer

\* Clearing an unused question keeps the invariant.
LEMMA ClearSound ==
  ASSUME NEW U, Sound(U), NEW x \in Questions, Unused(U, x), NEW b \in BOOLEAN
  PROVE  Sound(Clear(U, x, b)) /\ Cleared(U, Clear(U, x, b), x)
<1> DEFINE T == Clear(U, x, b)
<1>1. T = [U EXCEPT !.q[x] = Stopped, !.bad = b] /\ U.q[x].server = 0
      /\ \A z \in Questions : U.q[z].dup # x
  BY DEF Clear, Unused
<1> HIDE DEF T
<1>2. U \in States /\ U.q \in [Questions -> QuestionRecord]
  BY DEF Sound, States
<1>3. /\ T \in States /\ T.q = [U.q EXCEPT ![x] = Stopped] /\ T.pinned = U.pinned
      /\ T.server = U.server /\ T.dso = U.dso /\ T.connect = U.connect /\ T.peer = U.peer
  BY <1>1, <1>2, NoneTyped DEF States
<1>4. T.q[x] = Stopped /\ \A z \in Questions \ {x} : T.q[z] = U.q[z]
  BY <1>2, <1>3
<1>5. Stopped.server = 0 /\ Stopped.dup = NoQuestion /\ Stopped.on = FALSE /\ Stopped.nta = FALSE
  BY DEF Stopped
<1>6. \A t \in Servers : Holders(T, t) = Holders(U, t)
  <2> TAKE t \in Servers
  <2>1. t # 0
    BY PushAssumption DEF Servers
  <2> QED BY <1>1, <1>4, <1>5, <2>1 DEF Holders
<1>7. Asked(T)
  <2> SUFFICES ASSUME NEW z \in Questions
               PROVE  /\ T.q[z].dup # NoQuestion =>
                           /\ T.q[z].on /\ T.q[z].server = 0 /\ ~T.q[z].nta
                           /\ T.q[T.q[z].dup].on /\ T.q[T.q[z].dup].dup = NoQuestion
                           /\ NameOf[T.q[z].dup] = NameOf[z]
                      /\ ~T.q[z].on => T.q[z].server = 0 /\ ~T.q[z].nta
    BY DEF Asked
  <2>1. CASE z = x
    BY <1>4, <1>5, <2>1
  <2>2. CASE z # x
    <3>1. T.q[z] = U.q[z]
      BY <1>4, <2>2
    <3>2. U.q[z].dup # NoQuestion => U.q[z].dup \in Questions \ {x}
      BY <1>1, <1>2 DEF QuestionRecord
    <3>3. U.q[z].dup # NoQuestion => T.q[U.q[z].dup] = U.q[U.q[z].dup]
      BY <1>4, <3>2
    <3> QED BY <3>1, <3>3 DEF Sound, Asked
  <2> QED BY <2>1, <2>2
<1>8. Backed(T)
  <2> SUFFICES ASSUME NEW n \in T.pinned
               PROVE  \E z \in Questions : T.q[z].on /\ NameOf[z] = n /\ T.q[z].server # 0
    BY DEF Backed
  <2>1. PICK z \in Questions : U.q[z].on /\ NameOf[z] = n /\ U.q[z].server # 0
    BY <1>3 DEF Sound, Backed
  <2>2. T.q[z] = U.q[z]
    BY <1>1, <1>4, <2>1
  <2> QED BY <2>1, <2>2
<1>9. Sound(T)
  BY <1>3, <1>6, <1>7, <1>8, QuestionsOnly
<1> QED BY <1>3, <1>9 DEF Cleared, T

\* mDNS_StopQuery keeps the invariant, whichever of a set of questions of one name
\* is stopped, and does what StoppedIn says.
LEMMA StopSound ==
  ASSUME NEW S, Sound(S), NEW x \in Questions
  PROVE  Sound(Stop(S, x)) /\ StoppedIn(S, Stop(S, x), x)
<1> DEFINE dups == {y \in Questions : S.q[y].dup = x}
           y == CHOOSE z \in dups : TRUE
           R == IF dups # {} THEN HandOver(S, x, y) ELSE S
           U == IF R.q[x].server # 0 THEN Unsubscribe(R, x) ELSE R
           b == U.bad \/ \E s \in Servers, i \in Slots : U.dso[s].life = "live" /\ U.dso[s].out[i] = x
           T == Clear(U, x, b)
<1>1. Stop(S, x) = T
  BY DEF Stop, Clear
<1>2. b \in BOOLEAN
  OBVIOUS
<1> HIDE DEF b
<1>3. CASE dups # {}
  <2>1. y \in Questions /\ S.q[y].dup = x
    BY <1>3
  <2> HIDE DEF y
  <2>2. R = HandOver(S, x, y)
    BY <1>3
  <2> HIDE DEF R
  <2>3. Moved(S, R, x, y)
    BY <2>1, <2>2, HandOverMoves
  <2>4. Sound(R) /\ \A z \in Questions : R.q[z].dup # x
    BY <2>1, <2>3, MovedSound
  <2>5. x # y
    BY <2>1, PushAssumption DEF Sound, Asked, NoQuestion
  <2>6. R.q[x].server = 0
    <3>1. R.q[x] = [S.q[x] EXCEPT !.server = 0, !.nta = FALSE] /\ S.q[x] \in QuestionRecord
      BY <2>3, <2>5 DEF Moved, Sound, States
    <3> QED BY <3>1 DEF QuestionRecord
  <2>7. U = R
    BY <2>6
  <2> HIDE DEF U
  <2>8. T = Clear(R, x, b) /\ Unused(R, x)
    BY <2>4, <2>6, <2>7 DEF Unused
  <2> HIDE DEF T
  <2>9. /\ Sound(T) /\ T.q = [R.q EXCEPT ![x] = Stopped] /\ T.pinned = R.pinned
        /\ T.server = R.server /\ T.dso = R.dso /\ T.connect = R.connect /\ T.peer = R.peer
    BY <1>2, <2>4, <2>8, ClearSound DEF Cleared
  <2>10. T.q[x] = Stopped /\ T.pinned = S.pinned
    BY <2>3, <2>4, <2>9 DEF Moved, Sound, States
  <2>11. T.q = [z \in Questions |->
                   IF z = x THEN Stopped
                   ELSE IF z = y THEN [S.q[x] EXCEPT !.dup = NoQuestion]
                   ELSE IF S.q[z].dup = x THEN [S.q[z] EXCEPT !.dup = y] ELSE S.q[z]]
    <3>1. R.q = [z \in Questions |->
                   IF z = y THEN [S.q[x] EXCEPT !.dup = NoQuestion]
                   ELSE IF z = x THEN [S.q[x] EXCEPT !.server = 0, !.nta = FALSE]
                   ELSE IF S.q[z].dup = x THEN [S.q[z] EXCEPT !.dup = y] ELSE S.q[z]]
      BY <2>3 DEF Moved
    <3> QED BY ZenonT(60), <2>5, <2>9, <3>1
  <2>12. ASSUME NEW z \in Servers
         PROVE  /\ T.dso[z].life = S.dso[z].life /\ T.peer[z].subs = S.peer[z].subs
                /\ T.server[z].listed = S.server[z].listed
    <3>1. S.dso[z] \in DSORecord /\ (S.dso[z].acts \ {x}) \cup {y} \in SUBSET Questions
      <4>1. S.dso[z] \in DSORecord
        BY DEF Sound, States
      <4> QED BY <2>1, <4>1 DEF DSORecord
    <3>2. R.dso[z].life = S.dso[z].life
      <4>1. CASE z = S.q[x].server
        <5>1. R.dso[z] = [S.dso[z] EXCEPT !.acts = (S.dso[z].acts \ {x}) \cup {y}]
          BY <2>3, <4>1 DEF Moved
        <5> QED BY <3>1, <5>1, ActivitiesTyped
      <4>2. CASE z # S.q[x].server
        BY <2>3, <4>2 DEF Moved
      <4> QED BY <4>1, <4>2
    <3>3. R.peer = S.peer /\ R.server = S.server
      BY <2>3 DEF Moved
    <3> QED BY <2>9, <3>2, <3>3
  <2>13. StoppedIn(S, T, x)
    BY <2>1, <2>10, <2>11, <2>12 DEF StoppedIn
  <2> QED BY <1>1, <2>9, <2>13
<1>4. CASE dups = {}
  <2>1. R = S /\ \A z \in Questions : S.q[z].dup # x
    BY <1>4
  <2> HIDE DEF R
  <2>2. CASE S.q[x].server = 0
    <3>1. U = S
      BY <2>1, <2>2
    <3> HIDE DEF U
    <3>2. T = Clear(S, x, b) /\ Unused(S, x)
      BY <2>1, <2>2, <3>1 DEF Unused
    <3> HIDE DEF T
    <3>3. /\ Sound(T) /\ T.q = [S.q EXCEPT ![x] = Stopped] /\ T.pinned = S.pinned
          /\ T.server = S.server /\ T.dso = S.dso /\ T.connect = S.connect /\ T.peer = S.peer
      BY <1>2, <3>2, ClearSound DEF Cleared
    <3>4. T.q[x] = Stopped
      BY <3>3 DEF Sound, States
    <3>5. StoppedIn(S, T, x)
      BY <2>1, <2>2, <3>3, <3>4 DEF StoppedIn
    <3> QED BY <1>1, <3>3, <3>5
  <2>3. CASE S.q[x].server # 0
    <3> DEFINE s == S.q[x].server
    <3>1. U = Unsubscribe(S, x)
      BY <2>1, <2>3
    <3> HIDE DEF U, T
    <3>2. Dropped(S, U, x, s) /\ s \in Servers
      BY <2>3, <3>1, UnsubscribeDrops, HolderListed
    <3>3. Sound(U)
      BY <3>2, DropSound
    <3>4. S \in States /\ S.q \in [Questions -> QuestionRecord]
      BY DEF Sound, States
    <3>5. U.q = [S.q EXCEPT ![x].server = 0] /\ U.pinned = S.pinned \ {NameOf[x]}
      BY <3>2 DEF Dropped
    <3>6. U.q[x].server = 0 /\ \A z \in Questions : U.q[z].dup # x
      BY <2>1, <3>4, <3>5 DEF QuestionRecord
    <3>7. /\ Sound(T) /\ T.q = [U.q EXCEPT ![x] = Stopped] /\ T.pinned = U.pinned
          /\ T.server = U.server /\ T.dso = U.dso /\ T.connect = U.connect /\ T.peer = U.peer
      <4>1. Unused(U, x)
        BY <3>6 DEF Unused
      <4> QED BY <1>2, <3>3, <4>1, ClearSound DEF T, Cleared
    <3>8. T.q = [S.q EXCEPT ![x] = Stopped] /\ T.q[x] = Stopped
      BY <3>4, <3>5, <3>7
    <3>9. ASSUME NEW z \in Servers
          PROVE  /\ T.dso[z].life = S.dso[z].life /\ T.peer[z].subs = S.peer[z].subs
                 /\ T.server[z].listed = S.server[z].listed
      <4>1. Shrunk(S, U, x, s)
        BY <3>2, <3>4, DroppedAt
      <4>2. S.dso[z] \in DSORecord /\ S.peer[z] \in PeerRecord /\ S.server[z] \in ServerRecord
        BY <3>4 DEF States
      <4> HIDE DEF s
      <4>3. CASE z # s
        BY <3>7, <4>1, <4>3 DEF Shrunk
      <4>4. CASE z = s
        <5>1. U.dso[z].life = S.dso[z].life
          BY <4>1, <4>2, <4>4 DEF Shrunk, DSORecord
        <5>2. U.peer[z].subs = S.peer[z].subs
          BY <4>1, <4>2, <4>4 DEF Shrunk, PeerRecord
        <5>3. U.server[z].listed = S.server[z].listed
          BY <4>1, <4>2, <4>4 DEF Shrunk, ServerRecord
        <5> QED BY <3>7, <5>1, <5>2, <5>3
      <4> QED BY <4>3, <4>4
    <3>10. StoppedIn(S, T, x)
      BY <2>1, <2>3, <3>5, <3>7, <3>8, <3>9 DEF StoppedIn
    <3> QED BY <1>1, <3>7, <3>10
  <2> QED BY <2>2, <2>3
<1> QED BY <1>3, <1>4

\* What mDNS_StartQuery does: x looks for a push server, or follows the question
\* p of its name.
StartedIn(S, T, x) ==
  /\ T.server = S.server /\ T.dso = S.dso /\ T.connect = S.connect /\ T.peer = S.peer
  /\ T.pinned = S.pinned /\ T.bad = S.bad
  /\ \E p \in Questions \cup {NoQuestion} :
       /\ T.q = [S.q EXCEPT ![x] = [on |-> TRUE, dup |-> p, state |-> "Init", server |-> 0,
                                    nta |-> FALSE]]
       /\ p = NoQuestion <=> Primary(S, NameOf[x]) = {}
       /\ p # NoQuestion => p \in Primary(S, NameOf[x])

\* A question's record is its fields.
LEMMA SameQuestion ==
  ASSUME NEW a \in QuestionRecord, NEW b \in QuestionRecord,
         a.on = b.on, a.dup = b.dup, a.state = b.state, a.server = b.server, a.nta = b.nta
  PROVE  a = b
  BY DEF QuestionRecord

\* The record of a question that is started.
LEMMA StartRecord ==
  ASSUME NEW p \in Questions \cup {NoQuestion}
  PROVE  [Stopped EXCEPT !.on = TRUE, !.dup = p]
         = [on |-> TRUE, dup |-> p, state |-> "Init", server |-> 0, nta |-> FALSE]
<1> DEFINE r == [on |-> TRUE, dup |-> p, state |-> "Init", server |-> 0, nta |-> FALSE]
           t == [Stopped EXCEPT !.on = TRUE, !.dup = p]
<1>1. r \in QuestionRecord
  BY DEF QuestionRecord
<1>2. PICK v \in QuestionRecord : v = Stopped /\ v.state = "Init" /\ v.server = 0 /\ v.nta = FALSE
  BY NoneTyped DEF Stopped
<1>3. [v EXCEPT !.on = TRUE, !.dup = p] \in QuestionRecord
  BY DEF QuestionRecord
<1>4. LET w == [v EXCEPT !.on = TRUE, !.dup = p]
      IN  w.on = TRUE /\ w.dup = p /\ w.state = v.state /\ w.server = v.server /\ w.nta = v.nta
  BY DEF QuestionRecord
<1>5. t = [v EXCEPT !.on = TRUE, !.dup = p]
  BY <1>2
<1>6. t \in QuestionRecord /\ t.on = r.on /\ t.dup = r.dup /\ t.state = r.state
      /\ t.server = r.server /\ t.nta = r.nta
  BY <1>2, <1>3, <1>4, <1>5
<1> HIDE DEF r, t
<1>7. t = r
  BY <1>1, <1>6, SameQuestion
<1> QED BY <1>7 DEF r, t

\* mDNS_StartQuery keeps the invariant and does what StartedIn says.
LEMMA StartSound ==
  ASSUME NEW S, Sound(S), NEW x \in Questions, ~S.q[x].on
  PROVE  Sound(Start(S, x)) /\ StartedIn(S, Start(S, x), x)
<1> DEFINE P == Primary(S, NameOf[x])
           p == IF P = {} THEN NoQuestion ELSE CHOOSE y \in P : TRUE
           r == [on |-> TRUE, dup |-> p, state |-> "Init", server |-> 0, nta |-> FALSE]
           T == Start(S, x)
<1>1. S \in States /\ S.q \in [Questions -> QuestionRecord] /\ NoQuestion \notin Questions
  BY PushAssumption DEF Sound, States, NoQuestion
<1>2. (p = NoQuestion <=> P = {}) /\ (p # NoQuestion => p \in P) /\ p \in Questions \cup {NoQuestion}
  <2>1. P \subseteq Questions
    BY DEF Primary
  <2> HIDE DEF P
  <2> QED BY <1>1, <2>1
<1>3. [Stopped EXCEPT !.on = TRUE, !.dup = p] = r
  BY <1>2, StartRecord
<1>4. T = [S EXCEPT !.q[x] = r]
  <2>1. T = [S EXCEPT !.q[x] = [Stopped EXCEPT !.on = TRUE, !.dup = p]]
    BY DEF Start
  <2> HIDE DEF r, p
  <2> QED BY <1>3, <2>1
<1> HIDE DEF p, P, T
<1>5. r \in QuestionRecord
  BY <1>2 DEF QuestionRecord
<1> DEFINE R == r
<1>6. R = r /\ R.server = 0 /\ R.on = TRUE /\ R.dup = p /\ R.nta = FALSE
  OBVIOUS
<1> HIDE DEF R
<1>7. /\ T \in States /\ T.q = [S.q EXCEPT ![x] = R] /\ T.server = S.server /\ T.dso = S.dso
      /\ T.connect = S.connect /\ T.peer = S.peer /\ T.pinned = S.pinned /\ T.bad = S.bad
  <2>1. T = [S EXCEPT !.q[x] = R] /\ R \in QuestionRecord
    BY <1>4, <1>5, <1>6
  <2> QED BY <1>1, <2>1 DEF States
<1>8. T.q[x] = R /\ \A z \in Questions \ {x} : T.q[z] = S.q[z]
  BY <1>1, <1>7
<1>9. S.q[x].server = 0 /\ S.q[x].dup = NoQuestion /\ \A z \in Questions : S.q[z].dup # x
  <2>1. S.q[x].dup \in Questions \cup {NoQuestion}
    BY <1>1 DEF QuestionRecord
  <2> QED BY <1>1, <2>1 DEF Sound, Asked
<1>10. \A t \in Servers : Holders(T, t) = Holders(S, t)
  <2> TAKE t \in Servers
  <2>1. t # 0
    BY PushAssumption DEF Servers
  <2> QED BY <1>6, <1>8, <1>9, <2>1 DEF Holders
<1>11. p # NoQuestion => p \in Questions \ {x} /\ S.q[p].on /\ S.q[p].dup = NoQuestion
                         /\ NameOf[p] = NameOf[x]
  BY <1>2 DEF P, Primary
<1>12. Asked(T)
  <2> SUFFICES ASSUME NEW z \in Questions
               PROVE  /\ T.q[z].dup # NoQuestion =>
                           /\ T.q[z].on /\ T.q[z].server = 0 /\ ~T.q[z].nta
                           /\ T.q[T.q[z].dup].on /\ T.q[T.q[z].dup].dup = NoQuestion
                           /\ NameOf[T.q[z].dup] = NameOf[z]
                      /\ ~T.q[z].on => T.q[z].server = 0 /\ ~T.q[z].nta
    BY DEF Asked
  <2>1. CASE z = x
    BY <1>6, <1>8, <1>11, <2>1
  <2>2. CASE z # x
    <3>1. T.q[z] = S.q[z]
      BY <1>8, <2>2
    <3>2. S.q[z].dup # NoQuestion => S.q[z].dup \in Questions \ {x}
      BY <1>1, <1>9 DEF QuestionRecord
    <3>3. S.q[z].dup # NoQuestion => T.q[S.q[z].dup] = S.q[S.q[z].dup]
      BY <1>8, <3>2
    <3> QED BY <3>1, <3>3 DEF Sound, Asked
  <2> QED BY <2>1, <2>2
<1>13. Backed(T)
  <2> SUFFICES ASSUME NEW n \in T.pinned
               PROVE  \E z \in Questions : T.q[z].on /\ NameOf[z] = n /\ T.q[z].server # 0
    BY DEF Backed
  <2>1. PICK z \in Questions : S.q[z].on /\ NameOf[z] = n /\ S.q[z].server # 0
    BY <1>7 DEF Sound, Backed
  <2>2. T.q[z] = S.q[z]
    BY <1>8, <1>9, <2>1
  <2> QED BY <2>1, <2>2
<1>14. Sound(T)
  BY <1>7, <1>10, <1>12, <1>13, QuestionsOnly
<1>15. StartedIn(S, T, x)
  <2>1. /\ T.q = [S.q EXCEPT ![x] = r]
        /\ p = NoQuestion <=> Primary(S, NameOf[x]) = {}
        /\ p # NoQuestion => p \in Primary(S, NameOf[x])
        /\ p \in Questions \cup {NoQuestion}
    BY <1>2, <1>6, <1>7 DEF P
  <2> QED BY <1>7, <2>1 DEF StartedIn
<1> QED BY <1>14, <1>15 DEF T
-----------------------------------------------------------------------------
(* The steps.                                                              *)

\* A step that becomes a state is a step to that state.
LEMMA BecomeIs ==
  ASSUME NEW T \in States, Become(T) PROVE Now' = T
  BY DEF Become, Now, States

-----------------------------------------------------------------------------
(* One end of a connection.                                                *)

\* Nothing but records of server s changes, and the questions do not.
LEMMA OneRecord ==
  ASSUME NEW S, Sound(S), NEW T \in States, NEW s \in Servers, T.q = S.q, T.pinned \subseteq S.pinned,
         \A t \in Servers \ {s} :
           /\ T.server[t] = S.server[t] /\ T.dso[t] = S.dso[t] /\ T.connect[t] = S.connect[t]
           /\ T.peer[t] = S.peer[t],
         At(T, s, 0), T.server[s].listed => S.server[s].listed
  PROVE  Sound(T)
<1>1. Asked(T)
  BY DEF Sound, Asked
<1>2. Backed(T)
  BY DEF Sound, Backed
<1>3. \A t \in Servers : Holders(T, t) = Holders(S, t)
  BY DEF Holders
<1> QED BY <1>1, <1>2, <1>3, OneServer

\* A record of server s is replaced.
PutPeer(S, s, p) == [S EXCEPT !.peer = [S.peer EXCEPT ![s] = p]]
PutConnect(S, s, c) == [S EXCEPT !.connect = [S.connect EXCEPT ![s] = c]]

\* Only the dso_connect_state_t is replaced, and the last replacement counts.
LEMMA PutConnectIs ==
  ASSUME NEW S \in States, NEW s \in Servers, NEW c \in ConnectRecord
  PROVE  /\ PutConnect(S, s, c) \in States /\ PutConnect(S, s, c).connect[s] = c
         /\ \A d : PutConnect(PutConnect(S, s, c), s, d) = PutConnect(S, s, d)
  BY DEF PutConnect, States

\* Only the push server's end is replaced.
LEMMA PutPeerIs ==
  ASSUME NEW S \in States, NEW s \in Servers, NEW p \in PeerRecord
  PROVE  PutPeer(S, s, p) \in States /\ PutPeer(S, s, p).peer[s] = p
  BY DEF PutPeer, States

\* The push server's end of the connection changes.
LEMMA PeerSound ==
  ASSUME NEW S, Sound(S), NEW s \in Servers, NEW p \in PeerRecord,
         Matched(S.dso[s].out, p), S.dso[s].transport # "none"
  PROVE  Sound(PutPeer(S, s, p))
<1> DEFINE T == PutPeer(S, s, p)
<1>1. S \in States
  BY DEF Sound
<1>2. /\ T \in States /\ T.q = S.q /\ T.pinned = S.pinned /\ T.server = S.server /\ T.dso = S.dso
      /\ T.connect = S.connect /\ T.peer = [S.peer EXCEPT ![s] = p]
  BY <1>1 DEF PutPeer, States
<1>3. T.peer[s] = p /\ \A t \in Servers \ {s} : T.peer[t] = S.peer[t]
  BY <1>1, <1>2 DEF States
<1> HIDE DEF T
<1>4. Holders(T, s) = Holders(S, s)
  BY <1>2 DEF Holders
<1>5. /\ Counted(S.server[s], S.dso[s], Holders(S, s), 0)
      /\ Joined(S.server[s], S.dso[s], S.connect[s], Holders(S, s))
      /\ Quiet(S.dso[s], S.connect[s], S.peer[s])
  BY SoundParts
<1>6. Quiet(S.dso[s], S.connect[s], p)
  BY <1>5 DEF Quiet
<1>7. At(T, s, 0)
  BY <1>2, <1>3, <1>4, <1>5, <1>6 DEF At, Whole
<1>8. Sound(T)
  BY ZenonT(60), <1>2, <1>3, <1>7, OneRecord
<1> QED BY <1>8 DEF T

\* The dso_connect_state_t changes, and stays in use if it was.
LEMMA ConnectSound ==
  ASSUME NEW S, Sound(S), NEW s \in Servers, NEW c \in ConnectRecord,
         c.life = S.connect[s].life, c.queue + c.tried <= MaxAddresses,
         c.life # "live" => ~c.lookup /\ ~c.last_event /\ \A a \in Attempts : c.nw[a] = "none"
  PROVE  Sound(PutConnect(S, s, c))
<1> DEFINE T == PutConnect(S, s, c)
<1>1. S \in States
  BY DEF Sound
<1>2. /\ T \in States /\ T.q = S.q /\ T.pinned = S.pinned /\ T.server = S.server /\ T.dso = S.dso
      /\ T.peer = S.peer /\ T.connect = [S.connect EXCEPT ![s] = c]
  BY <1>1 DEF PutConnect, States
<1>3. T.connect[s] = c /\ \A t \in Servers \ {s} : T.connect[t] = S.connect[t]
  BY <1>1, <1>2 DEF States
<1> HIDE DEF T
<1>4. Holders(T, s) = Holders(S, s)
  BY <1>2 DEF Holders
<1>5. /\ Counted(S.server[s], S.dso[s], Holders(S, s), 0)
      /\ Joined(S.server[s], S.dso[s], S.connect[s], Holders(S, s))
      /\ Quiet(S.dso[s], S.connect[s], S.peer[s]) /\ Matched(S.dso[s].out, S.peer[s])
  BY SoundParts
<1>6. Quiet(S.dso[s], c, S.peer[s])
  BY <1>5 DEF Quiet
<1>7. Joined(S.server[s], S.dso[s], c, Holders(S, s))
  BY <1>5 DEF Joined
<1>8. At(T, s, 0)
  BY <1>2, <1>3, <1>4, <1>5, <1>6, <1>7 DEF At, Whole
<1>9. Sound(T)
  BY <1>2, <1>3, <1>8, OneRecord
<1> QED BY <1>9 DEF T

-----------------------------------------------------------------------------
(* Making the connection.                                                  *)

\* An address more or less, and the steps of the connection attempts, keep the
\* type of the dso_connect_state_t.
LEMMA ConnectFields ==
  ASSUME NEW c \in ConnectRecord, NEW n \in Nat, NEW a \in Attempts,
         NEW w \in {"none", "cancelling", "ready"}, NEW b \in BOOLEAN, NEW k \in BOOLEAN,
         NEW m \in Attempts \cup {0}
  PROVE  /\ [c EXCEPT !.last_event = b, !.queue = n] \in ConnectRecord
         /\ [c EXCEPT !.last_event = b] \in ConnectRecord
         /\ [c EXCEPT !.connecting = b, !.nw[a] = w] \in ConnectRecord
         /\ [c EXCEPT !.connecting = b, !.current = m, !.nw[a] = w] \in ConnectRecord
         /\ [c EXCEPT !.connecting = b, !.current = m, !.nw[a] = w, !.last_event = k, !.lookup = k]
              \in ConnectRecord
<1>1. [c.nw EXCEPT ![a] = w] \in [Attempts -> {"none", "starting", "cancelling", "ready"}]
  BY DEF ConnectRecord
<1> QED BY <1>1 DEF ConnectRecord

\* Trying the next address keeps the types and the number of addresses.
LEMMA NextAddressTyped ==
  ASSUME NEW c \in ConnectRecord, c.queue > 0, c.queue + c.tried <= MaxAddresses
  PROVE  LET d == [c EXCEPT !.queue = @ - 1, !.tried = @ + 1, !.connecting = TRUE,
                            !.current = c.tried + 1, !.nw[c.tried + 1] = "starting",
                            !.last_event = TRUE]
         IN  /\ d \in ConnectRecord /\ d.life = c.life /\ d.queue + d.tried <= MaxAddresses
             /\ d.lookup = c.lookup
<1>1. c.queue \in Nat /\ c.tried \in Nat /\ MaxAddresses \in Nat
  BY PushAssumption DEF ConnectRecord
<1>2. c.queue - 1 \in Nat /\ c.tried + 1 \in Nat /\ c.tried + 1 \in Attempts
      /\ (c.queue - 1) + (c.tried + 1) = c.queue + c.tried
  BY <1>1 DEF Attempts
<1>3. PICK k \in Nat, m \in Nat : k = c.queue - 1 /\ m = c.tried + 1 /\ m \in Attempts
  BY <1>2
<1>4. [c.nw EXCEPT ![m] = "starting"] \in [Attempts -> {"none", "starting", "cancelling", "ready"}]
  BY <1>2, <1>3 DEF ConnectRecord
<1> DEFINE d == [c EXCEPT !.queue = k, !.tried = m, !.connecting = TRUE,
                          !.current = m, !.nw[m] = "starting", !.last_event = TRUE]
<1>5. d \in ConnectRecord
  BY <1>3, <1>4 DEF ConnectRecord
<1>6. d.life = c.life /\ d.queue = k /\ d.tried = m /\ d.lookup = c.lookup
  BY DEF ConnectRecord
<1>7. d = [c EXCEPT !.queue = @ - 1, !.tried = @ + 1, !.connecting = TRUE,
                    !.current = c.tried + 1, !.nw[c.tried + 1] = "starting",
                    !.last_event = TRUE]
  BY <1>3 DEF ConnectRecord
<1> HIDE DEF d
<1> QED BY <1>1, <1>2, <1>3, <1>5, <1>6, <1>7

\* dso_connect_internal, for a dso_connect_state_t in use.
LEMMA ConnectInternalSound ==
  ASSUME NEW S, Sound(S), NEW s \in Servers, S.connect[s].life = "live"
  PROVE  Sound(ConnectInternal(S, s))
<1> DEFINE c == S.connect[s]
           d == [c EXCEPT !.queue = @ - 1, !.tried = @ + 1, !.connecting = TRUE,
                          !.current = c.tried + 1, !.nw[c.tried + 1] = "starting",
                          !.last_event = TRUE]
           e == [c EXCEPT !.last_event = TRUE]
<1>1. S \in States
  BY DEF Sound
<1>2. c \in ConnectRecord /\ Quiet(S.dso[s], c, S.peer[s])
  BY SoundParts
<1>3. c.queue + c.tried <= MaxAddresses
  BY <1>2 DEF Quiet
<1>4. CASE c.queue > 0
  <2>1. d \in ConnectRecord /\ d.life = c.life /\ d.queue + d.tried <= MaxAddresses
    BY <1>2, <1>3, <1>4, NextAddressTyped
  <2>2. ConnectInternal(S, s) = PutConnect(S, s, d)
    BY <1>1, <1>4 DEF ConnectInternal, PutConnect
  <2> HIDE DEF d, c
  <2>3. Sound(PutConnect(S, s, d))
    BY <2>1, ConnectSound DEF c
  <2> QED BY <2>2, <2>3
<1>5. CASE ~(c.queue > 0) /\ c.lookup
  <2>1. e \in ConnectRecord
    BY <1>2 DEF ConnectRecord
  <2>2. e.life = c.life /\ e.queue = c.queue /\ e.tried = c.tried
    BY <1>2 DEF ConnectRecord
  <2>3. ConnectInternal(S, s) = PutConnect(S, s, e)
    BY <1>1, <1>5 DEF ConnectInternal, PutConnect
  <2> HIDE DEF e, c
  <2>4. Sound(PutConnect(S, s, e))
    BY <1>3, <2>1, <2>2, ConnectSound DEF c
  <2> QED BY <2>3, <2>4
<1>6. CASE ~(c.queue > 0) /\ ~c.lookup
  BY <1>6, CancelSound DEF ConnectInternal
<1> QED BY <1>4, <1>5, <1>6

\* A lookup result or its end keeps the invariant.
LEMMA AddressCallbackSound ==
  ASSUME Sound(Now), NEW s \in Servers, AddressCallback(s)
  PROVE  Sound(Now)'
<1> DEFINE c == connect[s]
           seen == [Now EXCEPT !.connect[s].last_event = TRUE]
           Changed(n) == LET S == [seen EXCEPT !.connect[s].queue = n]
                         IN  IF c.connecting THEN S ELSE ConnectInternal(S, s)
<1>1. Now \in States /\ Now.connect[s] = c
  BY NowTyped DEF Sound
<1>2. c \in ConnectRecord /\ Quiet(dso[s], c, peer[s])
  BY SoundParts, NowTyped
<1>3. c.life = "live" /\ c.lookup /\ c.queue + c.tried <= MaxAddresses /\ c.queue \in Nat /\ c.tried \in Nat
  BY <1>2 DEF AddressCallback, Quiet, ConnectRecord
<1>4. ASSUME NEW n \in Nat, n + c.tried <= MaxAddresses
      PROVE  Sound(Changed(n))
  <2> DEFINE e == [c EXCEPT !.last_event = TRUE, !.queue = n]
             S == [seen EXCEPT !.connect[s].queue = n]
  <2>1. S = PutConnect(Now, s, e)
    BY <1>1 DEF PutConnect, States
  <2>2. e \in ConnectRecord /\ e.life = c.life /\ e.queue = n /\ e.tried = c.tried
    BY <1>2 DEF ConnectRecord
  <2> HIDE DEF e, c
  <2>3. Sound(PutConnect(Now, s, e))
    BY <1>1, <1>3, <1>4, <2>2, ConnectSound
  <2>4. S.connect[s] = e
    BY ZenonT(60), <1>1, <2>1 DEF PutConnect, States
  <2> HIDE DEF S
  <2>5. Sound(S) /\ S.connect[s].life = "live"
    BY <1>3, <2>1, <2>2, <2>3, <2>4
  <2>6. Sound(ConnectInternal(S, s))
    BY <2>5, ConnectInternalSound
  <2> QED BY <2>5, <2>6 DEF S, c
<1>5. Sound(seen)
  <2> DEFINE e == [c EXCEPT !.last_event = TRUE]
  <2>1. seen = PutConnect(Now, s, e)
    BY <1>1 DEF PutConnect, States
  <2>2. e \in ConnectRecord /\ e.life = c.life /\ e.queue = c.queue /\ e.tried = c.tried
    BY <1>2 DEF ConnectRecord
  <2> HIDE DEF e, c
  <2>3. Sound(PutConnect(Now, s, e))
    BY <1>1, <1>3, <2>2, ConnectSound
  <2> QED BY <2>1, <2>3
<1>6. PICK T : Sound(T) /\ Become(T)
  <2> HIDE DEF Changed, seen
  <2>1. CASE Become(seen)
    BY <1>5, <2>1
  <2>2. CASE c.tried + c.queue = 0 /\ Become(Changed(1))
    <3>1. 1 \in Nat /\ 1 + c.tried <= MaxAddresses
      BY <1>3, <2>2, PushAssumption
    <3> QED BY <1>4, <2>2, <3>1
  <2>3. CASE c.tried + c.queue \in 1..MaxAddresses - 1 /\ Become(Changed(c.queue + 1))
    BY <1>3, <1>4, <2>3, PushAssumption
  <2>4. CASE c.queue > 0 /\ Become(Changed(c.queue - 1))
    BY <1>3, <1>4, <2>4, PushAssumption
  <2>5. CASE Become(Changed(c.queue))
    BY <1>3, <1>4, <2>5
  <2> QED BY <2>1, <2>2, <2>3, <2>4, <2>5 DEF AddressCallback, Changed, seen
<1> QED BY <1>6, BecomeIs DEF Sound

\* Giving up on an address for the next one keeps the invariant.
LEMMA ConnectionWaitingSound ==
  ASSUME Sound(Now), NEW s \in Servers, NEW a \in Attempts, ConnectionWaiting(s, a)
  PROVE  Sound(Now)'
<1> DEFINE c == connect[s]
           d == [c EXCEPT !.connecting = FALSE, !.nw[a] = "cancelling"]
<1>1. Now \in States /\ Now.connect[s] = c
  BY NowTyped DEF Sound
<1>2. c \in ConnectRecord /\ Quiet(dso[s], c, peer[s])
  BY SoundParts, NowTyped
<1>3. c.life = "live" /\ c.queue + c.tried <= MaxAddresses
  BY <1>2 DEF ConnectionWaiting, Quiet, ConnectRecord
<1>4. d \in ConnectRecord
  BY <1>2, ConnectFields
<1>5. d.life = c.life /\ d.queue = c.queue /\ d.tried = c.tried
  BY <1>2 DEF ConnectRecord
<1>6. Now' = PutConnect(Now, s, d)
  <2>1. connect' = [connect EXCEPT ![s].connecting = FALSE, ![s].nw[a] = "cancelling"]
    BY DEF ConnectionWaiting
  <2>2. connect \in [Servers -> ConnectRecord]
    BY <1>1, NowTyped DEF States
  <2>3. connect' = [connect EXCEPT ![s] = d]
    <3> DEFINE e == [connect EXCEPT ![s].connecting = FALSE]
    <3>1. e = [connect EXCEPT ![s] = [c EXCEPT !.connecting = FALSE]]
      BY Zenon
    <3>2. e[s] = [c EXCEPT !.connecting = FALSE] /\ e \in [Servers -> ConnectRecord]
      BY <2>2, <3>1 DEF ConnectRecord
    <3>3. connect' = [e EXCEPT ![s].nw[a] = "cancelling"]
      BY <2>1, Zenon
    <3> HIDE DEF e
    <3>4. connect' = [e EXCEPT ![s] = [e[s] EXCEPT !.nw[a] = "cancelling"]]
      BY <3>3, Zenon
    <3>5. d = [e[s] EXCEPT !.nw[a] = "cancelling"]
      BY <3>2, Zenon
    <3> HIDE DEF d, c
    <3> QED BY <2>2, <3>1, <3>4, <3>5
  <2> HIDE DEF d
  <2>4. PutConnect(Now, s, d) \in States
    BY <1>1, <1>4, PutConnectIs
  <2>5. Become(PutConnect(Now, s, d))
    BY <1>1, <2>3, NowTyped DEF PutConnect, ConnectionWaiting, Become, States
  <2> QED BY <2>4, <2>5, BecomeIs, Zenon
<1> HIDE DEF d, c
<1>7. Sound(PutConnect(Now, s, d))
  BY <1>1, <1>3, <1>4, <1>5, ConnectSound
<1> QED BY <1>6, <1>7

\* A failed connection attempt keeps the invariant.
LEMMA ConnectionFailedSound ==
  ASSUME Sound(Now), NEW s \in Servers, NEW a \in Attempts, ConnectionFailed(s, a)
  PROVE  Sound(Now)'
<1> DEFINE c == connect[s]
           d == [c EXCEPT !.connecting = FALSE, !.current = 0, !.nw[a] = "none"]
           S == [Now EXCEPT !.connect[s].connecting = FALSE, !.connect[s].current = 0,
                            !.connect[s].nw[a] = "none"]
<1>1. Now \in States /\ Now.connect[s] = c
  BY NowTyped DEF Sound
<1>2. c \in ConnectRecord /\ Quiet(dso[s], c, peer[s])
  BY SoundParts, NowTyped
<1>3. c.life = "live" /\ c.queue + c.tried <= MaxAddresses
  BY <1>2 DEF ConnectionFailed, Quiet, ConnectRecord
<1>4. d \in ConnectRecord
  BY <1>2, ConnectFields
<1>5. d.life = c.life /\ d.queue = c.queue /\ d.tried = c.tried
  BY <1>2 DEF ConnectRecord
<1>6. S = PutConnect(Now, s, d)
  <2> DEFINE S1 == [Now EXCEPT !.connect[s].connecting = FALSE]
             S2 == [S1 EXCEPT !.connect[s].current = 0]
             c1 == [c EXCEPT !.connecting = FALSE]
             c2 == [c1 EXCEPT !.current = 0]
  <2>1. c1 \in ConnectRecord /\ c2 \in ConnectRecord
    BY <1>2 DEF ConnectRecord
  <2>2. S1 = PutConnect(Now, s, c1)
    BY <1>1, Zenon DEF PutConnect
  <2>3. S = [S2 EXCEPT !.connect[s].nw[a] = "none"] /\ d = [c2 EXCEPT !.nw[a] = "none"]
    BY Zenon
  <2> HIDE DEF c1, c, S1
  <2>4. S1.connect[s] = c1 /\ S1 \in States
    BY <1>1, <2>1, <2>2, PutConnectIs, Zenon
  <2>5. S2 = PutConnect(S1, s, c2)
    BY <2>4, Zenon DEF PutConnect
  <2> HIDE DEF c2, S2
  <2>6. S2 = PutConnect(Now, s, c2)
    BY <1>1, <2>1, <2>2, <2>5, PutConnectIs, Zenon
  <2>7. S2.connect[s] = c2 /\ S2 \in States
    BY <1>1, <2>1, <2>6, PutConnectIs, Zenon
  <2>8. S = PutConnect(S2, s, d)
    BY <2>3, <2>7, Zenon DEF PutConnect
  <2> HIDE DEF S, d
  <2> QED BY <1>1, <2>1, <2>6, <2>8, PutConnectIs, ZenonT(60)
<1> HIDE DEF d, c
<1>7. Sound(PutConnect(Now, s, d))
  BY <1>1, <1>3, <1>4, <1>5, ConnectSound
<1>8. S.connect[s] = d
  <2> HIDE DEF S
  <2> QED BY <1>1, <1>4, <1>6, PutConnectIs, Zenon
<1>9. Become(ConnectInternal(S, s))
  BY DEF ConnectionFailed
<1> HIDE DEF S
<1>10. Sound(ConnectInternal(S, s))
  BY <1>3, <1>5, <1>6, <1>7, <1>8, ConnectInternalSound
<1> QED BY <1>9, <1>10, BecomeIs DEF Sound

\* The server is given up: after 90 seconds, or when the read fails.
LEMMA GivesUpSound ==
  ASSUME Sound(Now), NEW s \in Servers, ConnectTimeout(s) \/ ReadFails(s)
  PROVE  Sound(Now)'
<1>1. Become(DNSPushServerCancel(Now, s))
  BY DEF ConnectTimeout, ReadFails
<1>2. Sound(DNSPushServerCancel(Now, s))
  BY CancelSound
<1> QED BY <1>1, <1>2, BecomeIs DEF Sound

-----------------------------------------------------------------------------
(* The push server.                                                        *)

\* Where the i-th of the messages but the k-th was.
Place(k, i) == IF i < k THEN i ELSE i + 1

\* A message is taken out of those on their way; the others keep their order.
LEMMA WithoutIs ==
  ASSUME NEW X, NEW u \in Seq(X), NEW k \in DOMAIN u
  PROVE  /\ u[k] \in X /\ k \in 1..Len(u) /\ Without(u, k) \in Seq(X)
         /\ Len(u) \in Nat /\ Len(Without(u, k)) = Len(u) - 1
         /\ \A i \in 1..Len(Without(u, k)) :
              /\ Without(u, k)[i] = u[Place(k, i)] /\ Place(k, i) \in 1..Len(u) /\ Place(k, i) # k
         /\ \A i, j \in 1..Len(Without(u, k)) :
              (Place(k, i) = Place(k, j) => i = j) /\ (i < j <=> Place(k, i) < Place(k, j))
         /\ \A j \in 1..Len(u) : j # k => \E i \in 1..Len(Without(u, k)) : Place(k, i) = j
<1> DEFINE w == Without(u, k)
           n == Len(u) - 1
<1>1. Len(u) \in Nat /\ DOMAIN u = 1..Len(u) /\ k \in 1..Len(u) /\ n \in Nat
      /\ \A i \in 1..Len(u) : u[i] \in X
  OBVIOUS
<1>2. w = [i \in 1..n |-> IF i < k THEN u[i] ELSE u[i + 1]]
  BY DEF Without
<1>3. \A i \in 1..n : Place(k, i) \in 1..Len(u) /\ Place(k, i) # k
  BY <1>1 DEF Place
<1>4. \A i \in 1..n : w[i] = u[Place(k, i)]
  BY <1>2 DEF Place
<1>5. w \in Seq(X) /\ Len(w) = n
  <2>1. w \in [1..n -> X]
    BY <1>1, <1>2
  <2> HIDE DEF w, n
  <2>2. w \in Seq(X)
    BY <1>1, <2>1, SeqDef
  <2>3. Len(w) \in Nat /\ 1..Len(w) = 1..n
    BY <2>1, <2>2, LenProperties
  <2> QED BY <1>1, <2>2, <2>3
<1> HIDE DEF w
<1>6. \A i, j \in 1..n : (Place(k, i) = Place(k, j) => i = j) /\ (i < j <=> Place(k, i) < Place(k, j))
  BY <1>1 DEF Place
<1>7. ASSUME NEW j \in 1..Len(u), j # k PROVE \E i \in 1..n : Place(k, i) = j
  <2>1. CASE j < k
    BY <1>1, <2>1 DEF Place
  <2>2. CASE j > k
    <3>1. j - 1 \in 1..n /\ Place(k, j - 1) = j
      BY <1>1, <2>2 DEF Place
    <3> QED BY <3>1
  <2> QED BY <1>1, <1>7, <2>1, <2>2
<1> QED BY <1>1, <1>3, <1>4, <1>5, <1>6, <1>7 DEF w

\* The push server reads a message: the others still match, and if it was a request
\* no other message has its slot.
LEMMA ReadRequest ==
  ASSUME NEW p \in PeerRecord, NEW out, Matched(out, p), NEW k \in DOMAIN p.up,
         NEW r \in PeerRecord, r.up = Without(p.up, k), r.down = p.down
  PROVE  /\ Matched(out, r)
         /\ p.up[k].type = "subscribe" =>
              /\ p.up[k].slot \in Slots /\ out[p.up[k].slot] # Free
              /\ \A i \in Requests(r) : r.up[i].slot # p.up[k].slot
              /\ \A i \in Responses(r) : r.down[i].slot # p.up[k].slot
<1>1. p.up \in Seq(Messages)
  BY DEF PeerRecord
<1> DEFINE Later(i) == Place(k, i)
<1>2. /\ k \in 1..Len(p.up)
      /\ \A i \in 1..Len(r.up) : r.up[i] = p.up[Later(i)] /\ Later(i) \in 1..Len(p.up) /\ Later(i) # k
      /\ \A i, j \in 1..Len(r.up) : Later(i) = Later(j) => i = j
  <2>1. PICK u \in Seq(Messages) : u = p.up /\ k \in DOMAIN u
    BY <1>1
  <2> DEFINE w == Without(u, k)
  <2>2. /\ k \in 1..Len(u)
        /\ \A i \in 1..Len(w) : w[i] = u[Place(k, i)] /\ Place(k, i) \in 1..Len(u) /\ Place(k, i) # k
        /\ \A i, j \in 1..Len(w) : Place(k, i) = Place(k, j) => i = j
    BY <2>1, WithoutIs
  <2>3. r.up = w
    BY <2>1
  <2> HIDE DEF w
  <2> QED BY <2>1, <2>2, <2>3, Zenon DEF Later
<1> HIDE DEF Later
<1>4. Responses(r) = Responses(p)
  BY DEF Responses
<1>5. \A i \in Requests(r) : Later(i) \in Requests(p) /\ r.up[i] = p.up[Later(i)] /\ Later(i) # k
  BY <1>2 DEF Requests
<1>6. \A i, j \in Requests(r) : Later(i) = Later(j) => i = j
  BY <1>2, Zenon DEF Requests
<1>7. \A i \in Requests(r) : r.up[i].slot \in Slots /\ out[r.up[i].slot] # Free
  BY <1>5 DEF Matched
<1>8. \A i, j \in Requests(r) : r.up[i].slot = r.up[j].slot => i = j
  <2> TAKE i, j \in Requests(r)
  <2>1. Later(i) \in Requests(p) /\ Later(j) \in Requests(p)
        /\ r.up[i] = p.up[Later(i)] /\ r.up[j] = p.up[Later(j)]
    BY <1>5
  <2>2. p.up[Later(i)].slot = p.up[Later(j)].slot => Later(i) = Later(j)
    BY <2>1 DEF Matched
  <2> QED BY <1>6, <2>1, <2>2
<1>9. \A i \in Requests(r), j \in Responses(r) : r.up[i].slot # r.down[j].slot
  <2> TAKE i \in Requests(r), j \in Responses(r)
  <2>1. Later(i) \in Requests(p) /\ r.up[i] = p.up[Later(i)] /\ j \in Responses(p)
    BY <1>5, <1>4
  <2>2. p.up[Later(i)].slot # p.down[j].slot
    BY <2>1 DEF Matched
  <2> QED BY <2>1, <2>2
<1>10. \A i \in Responses(r) : r.down[i].slot \in Slots /\ out[r.down[i].slot] # Free
  BY <1>4 DEF Matched
<1>11. \A i, j \in Responses(r) : r.down[i].slot = r.down[j].slot => i = j
  BY <1>4 DEF Matched
<1>12. Matched(out, r)
  BY <1>7, <1>8, <1>9, <1>10, <1>11 DEF Matched
<1>13. ASSUME p.up[k].type = "subscribe"
       PROVE  /\ p.up[k].slot \in Slots /\ out[p.up[k].slot] # Free
              /\ \A i \in Requests(r) : r.up[i].slot # p.up[k].slot
              /\ \A i \in Responses(r) : r.down[i].slot # p.up[k].slot
  <2>1. k \in Requests(p)
    BY <1>2, <1>13 DEF Requests
  <2>2. \A i \in Requests(r) : r.up[i].slot # p.up[k].slot
    <3> TAKE i \in Requests(r)
    <3>1. Later(i) \in Requests(p) /\ r.up[i] = p.up[Later(i)] /\ Later(i) # k
      BY <1>5
    <3>2. p.up[Later(i)].slot = p.up[k].slot => Later(i) = k
      BY <2>1, <3>1 DEF Matched
    <3> QED BY <3>1, <3>2
  <2>3. \A i \in Responses(r) : r.down[i].slot # p.up[k].slot
    BY <1>4, <2>1 DEF Matched
  <2> QED BY <2>1, <2>2, <2>3 DEF Matched
<1> QED BY <1>12, <1>13

\* The push server sends a message: unless it is a response, or no other message has
\* its slot, the messages match.
LEMMA SendAnswer ==
  ASSUME NEW p \in PeerRecord, NEW out, Matched(out, p), NEW m \in Answers,
         m.type = "response" =>
           /\ m.slot \in Slots /\ out[m.slot] # Free
           /\ \A i \in Requests(p) : p.up[i].slot # m.slot
           /\ \A i \in Responses(p) : p.down[i].slot # m.slot,
         NEW r \in PeerRecord, r.up = p.up, r.down = Append(p.down, m)
  PROVE  Matched(out, r)
<1>1. p.down \in Seq(Answers)
  BY DEF PeerRecord
<1>2. /\ Len(p.down) \in Nat /\ Len(r.down) = Len(p.down) + 1 /\ r.down[Len(p.down) + 1] = m
      /\ \A i \in 1..Len(p.down) : r.down[i] = p.down[i]
  BY <1>1
<1>3. \A i \in Responses(r) : /\ i # Len(p.down) + 1 => i \in Responses(p) /\ r.down[i] = p.down[i]
                              /\ i = Len(p.down) + 1 => r.down[i] = m /\ m.type = "response"
  BY <1>2 DEF Responses
<1>4. Requests(r) = Requests(p)
  BY DEF Requests
<1>5. \A i \in Responses(r) : r.down[i].slot \in Slots /\ out[r.down[i].slot] # Free
  BY <1>3 DEF Matched
<1>6. \A i, j \in Responses(r) : r.down[i].slot = r.down[j].slot => i = j
  BY ZenonT(60), <1>3 DEF Matched
<1>7. \A i \in Requests(r), j \in Responses(r) : r.up[i].slot # r.down[j].slot
  <2> TAKE i \in Requests(r), j \in Responses(r)
  <2>1. CASE j = Len(p.down) + 1
    BY <1>3, <1>4, <2>1
  <2>2. CASE j # Len(p.down) + 1
    <3>1. i \in Requests(p) /\ j \in Responses(p) /\ r.down[j] = p.down[j]
      BY <1>3, <1>4, <2>2
    <3>2. p.up[i].slot # p.down[j].slot
      BY <3>1 DEF Matched
    <3> QED BY <3>1, <3>2
  <2> QED BY <2>1, <2>2
<1>8. \A i \in Requests(r) : r.up[i].slot \in Slots /\ out[r.up[i].slot] # Free
  BY <1>4 DEF Matched
<1>9. \A i, j \in Requests(r) : r.up[i].slot = r.up[j].slot => i = j
  BY <1>4 DEF Matched
<1> QED BY <1>5, <1>6, <1>7, <1>8, <1>9 DEF Matched

\* A step that changes only the push server's end of an open connection.
LEMMA PeerStep ==
  ASSUME Sound(Now), NEW s \in Servers, peer[s].open # {}, NEW p \in PeerRecord, Matched(dso[s].out, p),
         peer' = [peer EXCEPT ![s] = p], UNCHANGED <<q, server, dso, connect, pinned, bad>>
  PROVE  Sound(Now)'
<1>1. Now \in States
  BY DEF Sound
<1>2. Quiet(dso[s], connect[s], peer[s])
  BY SoundParts, NowTyped
<1>3. dso[s].transport # "none"
  BY <1>2 DEF Quiet, NoPeer
<1>4. Sound(PutPeer(Now, s, p))
  BY <1>3, NowTyped, PeerSound
<1>5. PutPeer(Now, s, p) \in States
  BY <1>4 DEF Sound
<1>6. Become(PutPeer(Now, s, p))
  BY <1>1, NowTyped DEF PutPeer, Become, States
<1> QED BY <1>4, <1>5, <1>6, BecomeIs, Zenon

\* Changing one field of the push server's end changes nothing else.
LEMMA PeerUp ==
  ASSUME NEW p \in PeerRecord, NEW u \in Seq(Messages)
  PROVE  /\ [p EXCEPT !.up = u] \in PeerRecord
         /\ [p EXCEPT !.up = u].up = u /\ [p EXCEPT !.up = u].down = p.down
         /\ [p EXCEPT !.up = u].subs = p.subs
  BY DEF PeerRecord

\* The same for what it has sent.
LEMMA PeerDown ==
  ASSUME NEW p \in PeerRecord, NEW d \in Seq(Answers)
  PROVE  /\ [p EXCEPT !.down = d] \in PeerRecord
         /\ [p EXCEPT !.down = d].up = p.up /\ [p EXCEPT !.down = d].down = d
  BY DEF PeerRecord

\* The same for the subscriptions it has granted.
LEMMA PeerSubs ==
  ASSUME NEW p \in PeerRecord, NEW N \in SUBSET (Attempts \X Names)
  PROVE  /\ [p EXCEPT !.subs = N] \in PeerRecord
         /\ [p EXCEPT !.subs = N].up = p.up /\ [p EXCEPT !.subs = N].down = p.down
  BY DEF PeerRecord

\* The same for the end of a connection.
LEMMA PeerShut ==
  ASSUME NEW p \in PeerRecord, NEW a
  PROVE  LET r == [p EXCEPT !.open = p.open \ {a}]
         IN  r \in PeerRecord /\ r.up = p.up /\ r.down = p.down /\ r.subs = p.subs
  BY DEF PeerRecord

\* Whether messages match depends on the messages only.
LEMMA SameMessages ==
  ASSUME NEW p, NEW out, Matched(out, p), NEW r, r.up = p.up, r.down = p.down
  PROVE  Matched(out, r)
<1>1. Requests(r) = Requests(p) /\ Responses(r) = Responses(p)
  BY DEF Requests, Responses
<1> QED BY <1>1 DEF Matched

\* The end of a connection at the push server keeps the invariant.
LEMMA PeerClosesSound ==
  ASSUME Sound(Now), NEW s \in Servers, NEW a \in Attempts, PeerCloses(s, a)
  PROVE  Sound(Now)'
<1> DEFINE p == peer[s]
           r == [p EXCEPT !.open = p.open \ {a}]
<1>1. p \in PeerRecord /\ Matched(dso[s].out, p)
  BY SoundParts, NowTyped
<1>2. r \in PeerRecord /\ r.up = p.up /\ r.down = p.down
  BY <1>1, PeerShut, Zenon
<1>3. peer' = [peer EXCEPT ![s] = r] /\ peer[s].open # {}
  BY DEF PeerCloses
<1> HIDE DEF r
<1>4. Matched(dso[s].out, r)
  BY <1>1, <1>2, SameMessages
<1> QED BY <1>2, <1>3, <1>4, PeerStep DEF PeerCloses

\* A PUSH message on its way keeps the invariant.
LEMMA PeerUpdateSound ==
  ASSUME Sound(Now), NEW s \in Servers, NEW a \in Attempts, NEW n \in Names, NEW add \in BOOLEAN,
         PeerUpdate(s, a, n, add)
  PROVE  Sound(Now)'
<1> DEFINE p == peer[s]
           m == [type |-> "update", slot |-> 0, name |-> n, conn |-> a, ok |-> add]
           r == [p EXCEPT !.down = Append(p.down, m)]
<1>1. p \in PeerRecord /\ Matched(dso[s].out, p)
  BY SoundParts, NowTyped
<1>2. m \in Answers /\ m.type # "response"
  BY PushAssumption DEF Answers
<1> HIDE DEF m
<1>3. Append(p.down, m) \in Seq(Answers)
  BY <1>1, <1>2 DEF PeerRecord
<1>4. r \in PeerRecord /\ r.up = p.up /\ r.down = Append(p.down, m)
  BY <1>1, <1>3, PeerDown, Zenon
<1>5. peer' = [peer EXCEPT ![s] = r] /\ peer[s].open # {}
  BY DEF PeerUpdate, m
<1> HIDE DEF r
<1>6. Matched(dso[s].out, r)
  BY <1>1, <1>2, <1>4, SendAnswer
<1> QED BY <1>4, <1>5, <1>6, PeerStep DEF PeerUpdate

\* A message read by the push server keeps the invariant: a response takes the slot
\* of the request it answers.
LEMMA PeerReceiveSound ==
  ASSUME Sound(Now), NEW s \in Servers, PeerReceive(s)
  PROVE  Sound(Now)'
<1> DEFINE p == peer[s]
           Took(i) ==
             LET m == p.up[i]
                 P == [p EXCEPT !.up = Without(p.up, i)]
                 A(ok) == [type |-> "response", slot |-> m.slot, name |-> m.name, conn |-> m.conn, ok |-> ok]
             IN  /\ m.conn \in p.open
                 /\ \/ m.type = "subscribe"
                       /\ peer' = [peer EXCEPT ![s] = [P EXCEPT !.subs = P.subs \cup {<<m.conn, m.name>>},
                                                                !.down = Append(P.down, A(TRUE))]]
                    \/ m.type = "subscribe"
                       /\ peer' = [peer EXCEPT ![s] = [P EXCEPT !.down = Append(P.down, A(FALSE))]]
                    \/ peer' = [peer EXCEPT ![s] = [P EXCEPT !.subs = P.subs \ {<<m.conn, m.name>>}]]
                    \/ peer' = [peer EXCEPT ![s] = [P EXCEPT !.open = P.open \ {m.conn}]]
<1>0. PICK k \in DOMAIN p.up : Took(k)
  BY Zenon DEF PeerReceive, Foremost
<1> DEFINE m == p.up[k]
           P == [p EXCEPT !.up = Without(p.up, k)]
           A(ok) == [type |-> "response", slot |-> m.slot, name |-> m.name, conn |-> m.conn, ok |-> ok]
           R(ok) == [P EXCEPT !.down = Append(P.down, A(ok))]
           G(ok) == [[P EXCEPT !.subs = P.subs \cup {<<m.conn, m.name>>}] EXCEPT !.down = Append(P.down, A(ok))]
           U == [P EXCEPT !.subs = P.subs \ {<<m.conn, m.name>>}]
           C == [P EXCEPT !.open = P.open \ {m.conn}]
<1>1. p \in PeerRecord /\ Matched(dso[s].out, p) /\ m.conn \in p.open
  BY <1>0, SoundParts, NowTyped
<1>2. p.up \in Seq(Messages) /\ p.open \subseteq Attempts
  BY <1>1 DEF PeerRecord
<1>3. m \in Messages /\ Without(p.up, k) \in Seq(Messages)
  BY <1>2, WithoutIs
<1>4. P \in PeerRecord /\ P.up = Without(p.up, k) /\ P.down = p.down
  BY <1>1, <1>3, PeerUp, Zenon
<1>5. m.name \in Names /\ m.slot \in 0..MaxOutstanding /\ m.conn \in Attempts
  BY <1>1, <1>2, <1>3 DEF Messages
<1>6. /\ P.subs \cup {<<m.conn, m.name>>} \in SUBSET (Attempts \X Names)
      /\ P.subs \ {<<m.conn, m.name>>} \in SUBSET (Attempts \X Names)
  BY <1>4, <1>5 DEF PeerRecord
<1> HIDE DEF P, m
<1>7. ASSUME NEW ok \in BOOLEAN
      PROVE  /\ A(ok) \in Answers /\ A(ok).type = "response" /\ A(ok).slot = m.slot
             /\ Append(P.down, A(ok)) \in Seq(Answers)
  <2>1. A(ok) \in Answers /\ A(ok).type = "response" /\ A(ok).slot = m.slot
    BY <1>5 DEF Answers
  <2> HIDE DEF A
  <2> QED BY <1>4, <2>1 DEF PeerRecord
<1>8. /\ Matched(dso[s].out, P)
      /\ m.type = "subscribe" =>
           /\ m.slot \in Slots /\ dso[s].out[m.slot] # Free
           /\ \A i \in Requests(P) : P.up[i].slot # m.slot
           /\ \A i \in Responses(P) : P.down[i].slot # m.slot
  BY <1>1, <1>4, ReadRequest DEF m
<1> HIDE DEF A
<1>9. ASSUME NEW ok \in BOOLEAN, m.type = "subscribe"
      PROVE  /\ R(ok) \in PeerRecord /\ Matched(dso[s].out, R(ok))
             /\ G(ok) \in PeerRecord /\ Matched(dso[s].out, G(ok))
  <2>1. R(ok) \in PeerRecord /\ R(ok).up = P.up /\ R(ok).down = Append(P.down, A(ok))
    BY <1>4, <1>7, PeerDown, Zenon
  <2>2. PICK p1 \in PeerRecord : p1 = [P EXCEPT !.subs = P.subs \cup {<<m.conn, m.name>>}]
                                 /\ p1.up = P.up /\ p1.down = P.down
    BY <1>4, <1>6, PeerSubs, Zenon
  <2>3. G(ok) \in PeerRecord /\ G(ok).up = P.up /\ G(ok).down = Append(P.down, A(ok))
    BY <1>7, <2>2, PeerDown, Zenon
  <2> HIDE DEF R, G
  <2>4. Matched(dso[s].out, R(ok))
    BY ZenonT(60), <1>4, <1>7, <1>8, <1>9, <2>1, SendAnswer
  <2>5. Matched(dso[s].out, G(ok))
    BY ZenonT(60), <1>4, <1>7, <1>8, <1>9, <2>3, SendAnswer
  <2> QED BY <2>1, <2>3, <2>4, <2>5
<1>10. U \in PeerRecord /\ Matched(dso[s].out, U)
  <2>1. U \in PeerRecord /\ U.up = P.up /\ U.down = P.down
    BY <1>4, <1>6, PeerSubs, Zenon
  <2> HIDE DEF U
  <2> QED BY <1>8, <2>1, SameMessages
<1>11. C \in PeerRecord /\ Matched(dso[s].out, C)
  <2>1. C \in PeerRecord /\ C.up = P.up /\ C.down = P.down
    BY <1>4, PeerShut, Zenon
  <2> HIDE DEF C
  <2> QED BY <1>8, <2>1, SameMessages
<1>12. PICK r \in PeerRecord : Matched(dso[s].out, r) /\ peer' = [peer EXCEPT ![s] = r]
  <2>1. CASE m.type = "subscribe" /\ peer' = [peer EXCEPT ![s] = G(TRUE)]
    BY <1>9, <2>1
  <2>2. CASE m.type = "subscribe" /\ peer' = [peer EXCEPT ![s] = R(FALSE)]
    BY <1>9, <2>2
  <2>3. CASE peer' = [peer EXCEPT ![s] = U]
    BY <1>10, <2>3
  <2>4. CASE peer' = [peer EXCEPT ![s] = C]
    BY <1>11, <2>4
  <2> QED BY <1>0, <2>1, <2>2, <2>3, <2>4, Zenon DEF P, m, A
<1> QED BY <1>1, <1>12, PeerStep DEF PeerReceive

-----------------------------------------------------------------------------
(* The questions.                                                          *)

\* The record of question x is replaced.
PutQuestion(S, x, r) == [S EXCEPT !.q = [S.q EXCEPT ![x] = r]]

\* The state of a question changes, or whether it is looking for its zone.
LEMMA QuestionSound ==
  ASSUME NEW S, Sound(S), NEW x \in Questions, NEW r \in QuestionRecord,
         r.on = S.q[x].on, r.dup = S.q[x].dup, r.server = S.q[x].server,
         r.nta => r.on /\ r.dup = NoQuestion
  PROVE  /\ Sound(PutQuestion(S, x, r)) /\ PutQuestion(S, x, r).q = [S.q EXCEPT ![x] = r]
         /\ PutQuestion(S, x, r).pinned = S.pinned /\ PutQuestion(S, x, r).peer = S.peer
         /\ PutQuestion(S, x, r).dso = S.dso /\ PutQuestion(S, x, r).bad = S.bad
         /\ PutQuestion(S, x, r).server = S.server
<1> DEFINE T == PutQuestion(S, x, r)
<1>1. S \in States /\ S.q \in [Questions -> QuestionRecord]
  BY DEF Sound, States
<1>2. /\ T \in States /\ T.q = [S.q EXCEPT ![x] = r] /\ T.server = S.server /\ T.dso = S.dso
      /\ T.connect = S.connect /\ T.peer = S.peer /\ T.pinned = S.pinned /\ T.bad = S.bad
  BY <1>1 DEF PutQuestion, States
<1> HIDE DEF T
<1>3. T.q[x] = r /\ \A z \in Questions \ {x} : T.q[z] = S.q[z]
  BY <1>1, <1>2
<1>4. \A z \in Questions : /\ T.q[z].on = S.q[z].on /\ T.q[z].dup = S.q[z].dup
                           /\ T.q[z].server = S.q[z].server
  BY <1>3
<1>5. \A t \in Servers : Holders(T, t) = Holders(S, t)
  BY <1>4 DEF Holders
<1>6. Asked(T)
  <2> SUFFICES ASSUME NEW z \in Questions
               PROVE  /\ T.q[z].dup # NoQuestion =>
                           /\ T.q[z].on /\ T.q[z].server = 0 /\ ~T.q[z].nta
                           /\ T.q[T.q[z].dup].on /\ T.q[T.q[z].dup].dup = NoQuestion
                           /\ NameOf[T.q[z].dup] = NameOf[z]
                      /\ ~T.q[z].on => T.q[z].server = 0 /\ ~T.q[z].nta
    BY DEF Asked
  <2>1. S.q[z].dup # NoQuestion => S.q[z].dup \in Questions
    BY <1>1 DEF QuestionRecord
  <2>2. /\ S.q[z].dup # NoQuestion =>
             /\ S.q[z].on /\ S.q[z].server = 0 /\ ~S.q[z].nta
             /\ S.q[S.q[z].dup].on /\ S.q[S.q[z].dup].dup = NoQuestion
             /\ NameOf[S.q[z].dup] = NameOf[z]
        /\ ~S.q[z].on => S.q[z].server = 0 /\ ~S.q[z].nta
    BY DEF Sound, Asked
  <2>3. T.q[z].nta => S.q[z].nta \/ (S.q[z].on /\ S.q[z].dup = NoQuestion)
    BY <1>3
  <2> QED BY <1>4, <2>1, <2>2, <2>3
<1>7. Backed(T)
  BY <1>2, <1>4 DEF Sound, Backed
<1>8. Sound(T)
  BY <1>2, <1>5, <1>6, <1>7, QuestionsOnly
<1> QED BY <1>2, <1>8 DEF T

\* A question in another state is a question.
LEMMA StateTyped ==
  ASSUME NEW r \in QuestionRecord, NEW b \in BOOLEAN,
         NEW k \in {"Init", "Discovery", "Connecting", "Established", "Poll"}
  PROVE  LET v == [r EXCEPT !.state = k, !.nta = b]
             w == [r EXCEPT !.state = k]
             u == [r EXCEPT !.nta = b]
         IN  /\ v \in QuestionRecord /\ v.on = r.on /\ v.dup = r.dup /\ v.server = r.server /\ v.nta = b
             /\ w \in QuestionRecord /\ w.on = r.on /\ w.dup = r.dup /\ w.server = r.server /\ w.nta = r.nta
             /\ u \in QuestionRecord /\ u.on = r.on /\ u.dup = r.dup /\ u.server = r.server /\ u.nta = b
  BY DEF QuestionRecord

\* mDNS_StartQuery keeps the invariant.
LEMMA StartQuerySound ==
  ASSUME Sound(Now), NEW x \in Questions, StartQuery(x)
  PROVE  Sound(Now)'
<1>1. ~Now.q[x].on /\ Become(Start(Now, x))
  BY NowTyped DEF StartQuery
<1>2. Sound(Start(Now, x))
  BY <1>1, StartSound
<1> QED BY <1>1, <1>2, BecomeIs DEF Sound

\* mDNS_StopQuery keeps the invariant.
LEMMA StopQuerySound ==
  ASSUME Sound(Now), NEW x \in Questions, StopQuery(x)
  PROVE  Sound(Now)'
<1>1. Become(Stop(Now, x))
  BY DEF StopQuery
<1>2. Sound(Stop(Now, x))
  BY StopSound
<1> QED BY <1>1, <1>2, BecomeIs DEF Sound

\* Waking from sleep keeps the invariant: only questions without a server restart.
LEMMA WakeSound ==
  ASSUME Sound(Now), Wake
  PROVE  Sound(Now)'
<1> DEFINE T == [Now EXCEPT !.q = q']
<1>1. Now \in States /\ q \in [Questions -> QuestionRecord]
  BY NowTyped DEF Sound, States
<1>2. \A x \in Questions : q[x].on /\ q[x].dup = NoQuestion =>
        [q[x] EXCEPT !.state = "Init", !.nta = FALSE] \in QuestionRecord
  BY <1>1 DEF QuestionRecord
<1>3. q' = [x \in Questions |-> IF q[x].on /\ q[x].dup = NoQuestion
                                THEN [q[x] EXCEPT !.state = "Init", !.nta = FALSE] ELSE q[x]]
  BY DEF Wake
<1>4. q' \in [Questions -> QuestionRecord]
  BY <1>1, <1>2, <1>3
<1>5. \A z \in Questions : /\ q'[z].on = q[z].on /\ q'[z].dup = q[z].dup
                           /\ q'[z].server = q[z].server /\ (q'[z].nta => q[z].nta)
  <2> TAKE z \in Questions
  <2>1. q[z] \in QuestionRecord
    BY <1>1
  <2>2. CASE q[z].on /\ q[z].dup = NoQuestion
    <3>1. q'[z] = [q[z] EXCEPT !.state = "Init", !.nta = FALSE]
      BY <1>3, <2>2
    <3> QED BY <2>1, <3>1 DEF QuestionRecord
  <2>3. CASE ~(q[z].on /\ q[z].dup = NoQuestion)
    BY <1>3, <2>3
  <2> QED BY <2>2, <2>3
<1>6. /\ T \in States /\ T.q = q' /\ T.server = Now.server /\ T.dso = Now.dso
      /\ T.connect = Now.connect /\ T.peer = Now.peer /\ T.pinned = Now.pinned /\ T.bad = Now.bad
  BY <1>1, <1>4 DEF States
<1> HIDE DEF T
<1>7. \A t \in Servers : Holders(T, t) = Holders(Now, t)
  BY <1>5, <1>6, NowTyped DEF Holders
<1>8. Asked(T)
  <2> SUFFICES ASSUME NEW z \in Questions
               PROVE  /\ q'[z].dup # NoQuestion =>
                           /\ q'[z].on /\ q'[z].server = 0 /\ ~q'[z].nta
                           /\ q'[q'[z].dup].on /\ q'[q'[z].dup].dup = NoQuestion
                           /\ NameOf[q'[z].dup] = NameOf[z]
                      /\ ~q'[z].on => q'[z].server = 0 /\ ~q'[z].nta
    BY <1>6 DEF Asked
  <2>1. q[z].dup # NoQuestion => q[z].dup \in Questions
    BY <1>1 DEF QuestionRecord
  <2>2. /\ q[z].dup # NoQuestion =>
             /\ q[z].on /\ q[z].server = 0 /\ ~q[z].nta
             /\ q[q[z].dup].on /\ q[q[z].dup].dup = NoQuestion
             /\ NameOf[q[z].dup] = NameOf[z]
        /\ ~q[z].on => q[z].server = 0 /\ ~q[z].nta
    BY NowTyped DEF Sound, Asked
  <2> QED BY <1>5, <2>1, <2>2
<1>9. Backed(T)
  BY <1>5, <1>6, NowTyped DEF Sound, Backed
<1>10. Sound(T)
  BY <1>6, <1>7, <1>8, <1>9, QuestionsOnly
<1>11. Become(T)
  BY <1>6, NowTyped DEF Become, Wake
<1> QED BY <1>6, <1>10, <1>11, BecomeIs

\* The question timer keeps the invariant, be it to look for a push server or to poll.
LEMMA HandleLLQStateSound ==
  ASSUME Sound(Now), NEW x \in Questions, HandleLLQState(x)
  PROVE  Sound(Now)'
<1>1. Now \in States /\ q[x] \in QuestionRecord /\ Now.q[x] = q[x]
  BY NowTyped DEF Sound, States
<1>2. CASE Become([Now EXCEPT !.q[x].state = "Discovery", !.q[x].nta = TRUE])
  <2> DEFINE r == [q[x] EXCEPT !.state = "Discovery", !.nta = TRUE]
             T == [Now EXCEPT !.q[x].state = "Discovery", !.q[x].nta = TRUE]
  <2>1. r \in QuestionRecord /\ r.on = q[x].on /\ r.dup = q[x].dup /\ r.server = q[x].server
    BY <1>1, StateTyped
  <2>2. T = PutQuestion(Now, x, r)
    BY <1>1 DEF PutQuestion, States
  <2>3. q[x].on /\ q[x].dup = NoQuestion
    BY DEF HandleLLQState
  <2> HIDE DEF T, r
  <2>4. r.nta => r.on /\ r.dup = NoQuestion
    BY <2>1, <2>3
  <2>5. r.on = Now.q[x].on /\ r.dup = Now.q[x].dup /\ r.server = Now.q[x].server
    BY <1>1, <2>1
  <2>6. Sound(PutQuestion(Now, x, r))
    BY <2>1, <2>4, <2>5, QuestionSound, Zenon
  <2> QED BY <1>2, <2>2, <2>6, BecomeIs DEF Sound, T
<1>3. CASE Become(StartLLQPolling(IF q[x].server # 0 THEN Unsubscribe(Now, x) ELSE Now, x))
  <2> DEFINE U == IF q[x].server # 0 THEN Unsubscribe(Now, x) ELSE Now
  <2>1. Sound(U)
    <3>1. CASE q[x].server # 0
      <4>1. q[x].server \in Servers
        BY <1>1, <3>1 DEF QuestionRecord
      <4>2. Dropped(Now, Unsubscribe(Now, x), x, q[x].server)
        BY <1>1, <3>1, UnsubscribeDrops
      <4>3. Sound(Unsubscribe(Now, x))
        BY <1>1, <4>1, <4>2, DropSound
      <4> QED BY <3>1, <4>3
    <3>2. CASE q[x].server = 0
      BY <3>2
    <3> QED BY <3>1, <3>2
  <2> HIDE DEF U
  <2>2. Sound(StartLLQPolling(U, x))
    BY <2>1, PollingSound
  <2> QED BY <1>3, <2>2, BecomeIs DEF Sound, U
<1> QED BY <1>2, <1>3 DEF HandleLLQState

-----------------------------------------------------------------------------
(* What the push server sends.                                             *)

\* A message from the push server is read: no response that is still on
\* its way has its slot.
LEMMA ReadAnswer ==
  ASSUME NEW p \in PeerRecord, NEW out, Matched(out, p), NEW k \in DOMAIN p.down,
         NEW r \in PeerRecord, r.up = p.up, r.down = Without(p.down, k)
  PROVE  /\ Matched(out, r)
         /\ p.down[k].type = "response" =>
              /\ p.down[k].slot \in Slots /\ out[p.down[k].slot] # Free
              /\ \A i \in Requests(r) : r.up[i].slot # p.down[k].slot
              /\ \A i \in Responses(r) : r.down[i].slot # p.down[k].slot
<1>1. p.down \in Seq(Answers)
  BY DEF PeerRecord
<1> DEFINE Later(i) == Place(k, i)
<1>2. /\ k \in 1..Len(p.down)
      /\ \A i \in 1..Len(r.down) : r.down[i] = p.down[Later(i)] /\ Later(i) \in 1..Len(p.down) /\ Later(i) # k
      /\ \A i, j \in 1..Len(r.down) : Later(i) = Later(j) => i = j
  <2>1. PICK u \in Seq(Answers) : u = p.down /\ k \in DOMAIN u
    BY <1>1
  <2> DEFINE w == Without(u, k)
  <2>2. /\ k \in 1..Len(u)
        /\ \A i \in 1..Len(w) : w[i] = u[Place(k, i)] /\ Place(k, i) \in 1..Len(u) /\ Place(k, i) # k
        /\ \A i, j \in 1..Len(w) : Place(k, i) = Place(k, j) => i = j
    BY <2>1, WithoutIs
  <2>3. r.down = w
    BY <2>1
  <2> HIDE DEF w
  <2> QED BY <2>1, <2>2, <2>3, Zenon DEF Later
<1> HIDE DEF Later
<1>4. Requests(r) = Requests(p)
  BY DEF Requests
<1>5. \A i \in Responses(r) : Later(i) \in Responses(p) /\ r.down[i] = p.down[Later(i)] /\ Later(i) # k
  BY <1>2 DEF Responses
<1>6. \A i, j \in Responses(r) : Later(i) = Later(j) => i = j
  BY <1>2, Zenon DEF Responses
<1>7. \A i \in Responses(r) : r.down[i].slot \in Slots /\ out[r.down[i].slot] # Free
  BY <1>5 DEF Matched
<1>8. \A i, j \in Responses(r) : r.down[i].slot = r.down[j].slot => i = j
  <2> TAKE i, j \in Responses(r)
  <2>1. Later(i) \in Responses(p) /\ Later(j) \in Responses(p)
        /\ r.down[i] = p.down[Later(i)] /\ r.down[j] = p.down[Later(j)]
    BY <1>5
  <2>2. p.down[Later(i)].slot = p.down[Later(j)].slot => Later(i) = Later(j)
    BY <2>1 DEF Matched
  <2> QED BY <1>6, <2>1, <2>2
<1>9. \A i \in Requests(r), j \in Responses(r) : r.up[i].slot # r.down[j].slot
  <2> TAKE i \in Requests(r), j \in Responses(r)
  <2>1. Later(j) \in Responses(p) /\ r.down[j] = p.down[Later(j)] /\ i \in Requests(p)
    BY <1>4, <1>5
  <2>2. p.up[i].slot # p.down[Later(j)].slot
    BY <2>1 DEF Matched
  <2> QED BY <2>1, <2>2
<1>10. \A i \in Requests(r) : r.up[i].slot \in Slots /\ out[r.up[i].slot] # Free
  BY <1>4 DEF Matched
<1>11. \A i, j \in Requests(r) : r.up[i].slot = r.up[j].slot => i = j
  BY <1>4 DEF Matched
<1>12. Matched(out, r)
  BY <1>7, <1>8, <1>9, <1>10, <1>11 DEF Matched
<1>13. ASSUME p.down[k].type = "response"
       PROVE  /\ p.down[k].slot \in Slots /\ out[p.down[k].slot] # Free
              /\ \A i \in Requests(r) : r.up[i].slot # p.down[k].slot
              /\ \A i \in Responses(r) : r.down[i].slot # p.down[k].slot
  <2>1. k \in Responses(p)
    BY <1>2, <1>13 DEF Responses
  <2>2. \A i \in Responses(r) : r.down[i].slot # p.down[k].slot
    <3> TAKE i \in Responses(r)
    <3>1. Later(i) \in Responses(p) /\ r.down[i] = p.down[Later(i)] /\ Later(i) # k
      BY <1>5
    <3>2. p.down[Later(i)].slot = p.down[k].slot => Later(i) = k
      BY <2>1, <3>1 DEF Matched
    <3> QED BY <3>1, <3>2
  <2>3. \A i \in Requests(r) : r.up[i].slot # p.down[k].slot
    BY <1>4, <2>1 DEF Matched
  <2> QED BY <2>1, <2>2, <2>3 DEF Matched
<1> QED BY <1>12, <1>13

\* A query is taken off the table when no message on its way has its slot.
LEMMA FreeMatched ==
  ASSUME NEW out \in [Slots -> Questions \cup {Free, Ignored}], NEW p, Matched(out, p), NEW k \in Slots,
         \A i \in Requests(p) : p.up[i].slot # k, \A i \in Responses(p) : p.down[i].slot # k
  PROVE  Matched([out EXCEPT ![k] = Free], p)
<1>1. \A i \in Slots \ {k} : [out EXCEPT ![k] = Free][i] = out[i]
  OBVIOUS
<1> QED BY <1>1 DEF Matched

\* The dso_state_t of server s is replaced.
PutDSO(S, s, d) == [S EXCEPT !.dso = [S.dso EXCEPT ![s] = d]]

\* The table of outstanding queries and the session of a dso_state_t in use change.
LEMMA DSOSound ==
  ASSUME NEW S, Sound(S), NEW s \in Servers, NEW d \in DSORecord, S.dso[s].life = "live",
         d.life = "live", d.acts = S.dso[s].acts, d.transport = S.dso[s].transport,
         Matched(d.out, S.peer[s])
  PROVE  /\ Sound(PutDSO(S, s, d)) /\ PutDSO(S, s, d).q = S.q /\ PutDSO(S, s, d).server = S.server
         /\ PutDSO(S, s, d).pinned = S.pinned /\ PutDSO(S, s, d).peer = S.peer
         /\ PutDSO(S, s, d).bad = S.bad
<1> DEFINE T == PutDSO(S, s, d)
<1>1. S \in States
  BY DEF Sound
<1>2. /\ T \in States /\ T.q = S.q /\ T.pinned = S.pinned /\ T.server = S.server /\ T.peer = S.peer
      /\ T.connect = S.connect /\ T.dso = [S.dso EXCEPT ![s] = d] /\ T.bad = S.bad
  BY <1>1 DEF PutDSO, States
<1>3. T.dso[s] = d /\ \A t \in Servers \ {s} : T.dso[t] = S.dso[t]
  BY <1>1, <1>2 DEF States
<1> HIDE DEF T
<1>4. Holders(T, s) = Holders(S, s)
  BY <1>2 DEF Holders
<1>5. /\ Counted(S.server[s], S.dso[s], Holders(S, s), 0)
      /\ Joined(S.server[s], S.dso[s], S.connect[s], Holders(S, s))
      /\ Quiet(S.dso[s], S.connect[s], S.peer[s])
  BY SoundParts
<1>6. Counted(S.server[s], d, Holders(S, s), 0)
  BY <1>5 DEF Counted
<1>7. Joined(S.server[s], d, S.connect[s], Holders(S, s))
  BY <1>5 DEF Joined
<1>8. Quiet(d, S.connect[s], S.peer[s])
  BY <1>5 DEF Quiet
<1>9. At(T, s, 0)
  BY <1>2, <1>3, <1>4, <1>6, <1>7, <1>8 DEF At, Whole
<1>10. Sound(T)
  BY <1>2, <1>3, <1>9, OneRecord
<1> QED BY <1>2, <1>10 DEF T

\* The connection states of a DNSPushServer.
ServerStates == {"none", "InProgress", "ConnectFailed", "Connected", "SessionEstablished", "NoDNSPush"}

\* The state of a server changes.
LEMMA ServerStateSound ==
  ASSUME NEW S, Sound(S), NEW s \in Servers, NEW k \in ServerStates
  PROVE  LET T == [S EXCEPT !.server[s].state = k]
         IN  /\ Sound(T) /\ T.q = S.q /\ T.pinned = S.pinned /\ T.peer = S.peer /\ T.bad = S.bad
             /\ T.dso = S.dso /\ T.connect = S.connect
             /\ \A z \in Servers : T.server[z].listed = S.server[z].listed
<1> DEFINE v == [S.server[s] EXCEPT !.state = k]
           T == [S EXCEPT !.server[s].state = k]
<1>1. S \in States
  BY DEF Sound
<1>2. PICK w \in ServerRecord : w = S.server[s]
  BY SoundParts
<1>3. [w EXCEPT !.state = k] \in ServerRecord
  BY DEF ServerRecord, ServerStates
<1>4. LET u == [w EXCEPT !.state = k]
      IN  /\ u.refs = w.refs /\ u.zrefs = w.zrefs /\ u.listed = w.listed /\ u.zlisted = w.zlisted
          /\ u.connection = w.connection /\ u.connectInfo = w.connectInfo
  BY DEF ServerRecord
<1>5. /\ v \in ServerRecord /\ v.refs = w.refs /\ v.zrefs = w.zrefs /\ v.listed = w.listed
      /\ v.zlisted = w.zlisted /\ v.connection = w.connection /\ v.connectInfo = w.connectInfo
  BY <1>2, <1>3, <1>4
<1>6. T = Put(S, s, v)
  BY <1>1, Zenon DEF Put
<1> HIDE DEF T, v
<1>7. T \in States /\ Replaced(S, T, s, v)
  BY <1>1, <1>5, <1>6, PutReplaces, PutTyped, Zenon
<1>8. \A t \in Servers \ {s} : T.server[t] = S.server[t]
  BY <1>1, <1>7 DEF Replaced, States
<1>9. Holders(T, s) = Holders(S, s)
  BY <1>7 DEF Holders, Replaced
<1>10. /\ Counted(w, S.dso[s], Holders(S, s), 0)
       /\ Joined(w, S.dso[s], S.connect[s], Holders(S, s))
       /\ Quiet(S.dso[s], S.connect[s], S.peer[s]) /\ Matched(S.dso[s].out, S.peer[s])
  BY <1>2, SoundParts
<1>11. Counted(v, S.dso[s], Holders(S, s), 0)
  BY <1>5, <1>10 DEF Counted
<1>12. Joined(v, S.dso[s], S.connect[s], Holders(S, s))
  BY <1>5, <1>10 DEF Joined
<1>13. At(T, s, 0)
  BY <1>7, <1>9, <1>10, <1>11, <1>12 DEF At, Whole, Replaced
<1>14. Sound(T)
  BY ZenonT(60), <1>2, <1>5, <1>7, <1>8, <1>13, OneRecord DEF Replaced
<1>15. \A z \in Servers : T.server[z].listed = S.server[z].listed
  BY <1>2, <1>5, <1>7, <1>8 DEF Replaced
<1> QED BY <1>7, <1>14, <1>15 DEF Replaced, T

\* Records are marked for a question of theirs, and unmarked.
LEMMA PinSound ==
  ASSUME NEW S, Sound(S), NEW N \in SUBSET Names,
         \A n \in N \ S.pinned :
           \E x \in Questions : S.q[x].on /\ NameOf[x] = n /\ S.q[x].server # 0
  PROVE  LET T == [S EXCEPT !.pinned = N]
         IN  Sound(T) /\ T.q = S.q /\ T.pinned = N /\ T.dso = S.dso /\ T.peer = S.peer
<1> DEFINE T == [S EXCEPT !.pinned = N]
<1>1. S \in States
  BY DEF Sound
<1>2. /\ T \in States /\ T.q = S.q /\ T.server = S.server /\ T.dso = S.dso
      /\ T.connect = S.connect /\ T.peer = S.peer /\ T.pinned = N
  BY <1>1 DEF States
<1> HIDE DEF T
<1>3. \A t \in Servers : Holders(T, t) = Holders(S, t)
  BY <1>2 DEF Holders
<1>4. Asked(T)
  BY <1>2 DEF Asked, Sound
<1>5. Backed(T)
  BY <1>2 DEF Backed, Sound
<1>6. Sound(T)
  BY <1>2, <1>3, <1>4, <1>5, QuestionsOnly
<1> QED BY <1>2, <1>6 DEF T

\* A PUSH message keeps the invariant: a record is marked only for a subscribed question.
LEMMA ReceiveUpdateSound ==
  ASSUME NEW S, Sound(S), NEW s \in Servers, NEW n \in Names, NEW add, NEW cached
  PROVE  Sound(ReceiveUpdate(S, s, n, add, cached))
<1>1. S.pinned \in SUBSET Names
  BY DEF Sound, States
<1>2. Sound(Unpin(S, {n}))
  <2>1. S.pinned \ {n} \in SUBSET Names /\ \A k \in (S.pinned \ {n}) \ S.pinned : FALSE
    BY <1>1
  <2>2. Sound([S EXCEPT !.pinned = S.pinned \ {n}])
    BY <2>1, PinSound
  <2> QED BY <2>2 DEF Unpin
<1>3. ASSUME NEW x \in Holders(S, s), NameOf[x] = n
      PROVE  Sound([S EXCEPT !.pinned = @ \cup {n}])
  <2>1. x \in Questions /\ S.q[x].server = s /\ s # 0
    BY <1>3, PushAssumption DEF Holders, Servers
  <2>2. S.q[x].on
    BY <2>1 DEF Sound, Asked
  <2>3. S.pinned \cup {n} \in SUBSET Names
        /\ \A k \in (S.pinned \cup {n}) \ S.pinned :
             \E y \in Questions : S.q[y].on /\ NameOf[y] = k /\ S.q[y].server # 0
    BY <1>1, <1>3, <2>1, <2>2
  <2>4. Sound([S EXCEPT !.pinned = S.pinned \cup {n}])
    BY <2>3, PinSound
  <2> QED BY <2>4
<1> QED BY <1>2, <1>3 DEF ReceiveUpdate

\* No message on its way has the slot.
Answered(S, s, slot) ==
  /\ slot \in Slots /\ S.dso[s].out[slot] # Free
  /\ \A i \in Requests(S.peer[s]) : S.peer[s].up[i].slot # slot
  /\ \A i \in Responses(S.peer[s]) : S.peer[s].down[i].slot # slot

\* A response to a SUBSCRIBE keeps the invariant, a refusal and a response to a
\* question no longer there included.
LEMMA ReceiveResponseSound ==
  ASSUME NEW S, Sound(S), NEW s \in Servers, NEW slot, NEW ok \in BOOLEAN,
         S.dso[s].life = "live", Answered(S, s, slot)
  PROVE  Sound(ReceiveResponse(S, s, slot, ok))
<1> DEFINE x == S.dso[s].out[slot]
           d == [S.dso[s] EXCEPT !.out = [S.dso[s].out EXCEPT ![slot] = Free],
                                 !.session = S.dso[s].session \/ ok]
           R == [S EXCEPT !.dso[s].out[slot] = Free, !.dso[s].session = @ \/ ok]
<1>1. S \in States /\ slot \in Slots
  BY DEF Sound, Answered
<1>2. PICK e \in DSORecord : e = S.dso[s] /\ Matched(e.out, S.peer[s])
  BY SoundParts
<1>3. e.out \in [Slots -> Questions \cup {Free, Ignored}] /\ e.session \in BOOLEAN
  BY DEF DSORecord
<1>4. [e.out EXCEPT ![slot] = Free] \in [Slots -> Questions \cup {Free, Ignored}]
  BY <1>1, <1>3
<1>5. PICK o \in [Slots -> Questions \cup {Free, Ignored}] : o = [e.out EXCEPT ![slot] = Free]
  BY <1>4
<1>6. PICK b \in BOOLEAN : b = (e.session \/ ok)
  BY <1>3
<1>7. LET f == [e EXCEPT !.out = o, !.session = b]
      IN  /\ f \in DSORecord /\ f.out = o /\ f.life = e.life /\ f.acts = e.acts
          /\ f.transport = e.transport
  BY DEF DSORecord
<1>8. d = [e EXCEPT !.out = o, !.session = b]
  BY <1>2, <1>5, <1>6
<1>9. /\ d \in DSORecord /\ d.out = o /\ d.life = "live" /\ d.acts = S.dso[s].acts
      /\ d.transport = S.dso[s].transport
  BY <1>2, <1>7, <1>8
<1>10. R = PutDSO(S, s, d)
  BY <1>1 DEF PutDSO, States
<1> HIDE DEF d, R
<1>11. Matched(d.out, S.peer[s])
  <2>1. Matched(o, S.peer[s])
    BY <1>1, <1>2, <1>3, <1>5, FreeMatched DEF Answered
  <2> QED BY <1>9, <2>1
<1>12. Sound(PutDSO(S, s, d)) /\ PutDSO(S, s, d).q = S.q
  BY <1>9, <1>11, DSOSound, Zenon
<1>13. Sound(R) /\ R.q = S.q
  BY <1>10, <1>12
<1>14. x \in Questions \cup {Ignored}
  BY <1>2, <1>3, <1>1 DEF Answered
<1> HIDE DEF x
<1>15. CASE x = Ignored
  <2>1. ReceiveResponse(S, s, slot, ok) = [R EXCEPT !.server[s].state = "SessionEstablished"]
    BY <1>15, Zenon DEF ReceiveResponse, x, R
  <2>2. "SessionEstablished" \in ServerStates
    BY DEF ServerStates
  <2>3. Sound([R EXCEPT !.server[s].state = "SessionEstablished"])
    BY <1>13, <2>2, ServerStateSound, Zenon
  <2> QED BY <2>1, <2>3, Zenon
<1>16. CASE x # Ignored /\ ~ok /\ S.q[x].server = 0
  <2>1. ReceiveResponse(S, s, slot, ok) = [S EXCEPT !.bad = TRUE]
    BY <1>16, Zenon DEF ReceiveResponse, x
  <2> DEFINE T == [S EXCEPT !.bad = TRUE]
  <2>2. /\ T \in States /\ T.q = S.q /\ T.server = S.server /\ T.dso = S.dso
        /\ T.connect = S.connect /\ T.peer = S.peer /\ T.pinned = S.pinned
    BY <1>1 DEF States
  <2> HIDE DEF T
  <2>3. Asked(T) /\ Backed(T) /\ \A t \in Servers : Holders(T, t) = Holders(S, t)
    BY <2>2 DEF Asked, Backed, Holders, Sound
  <2>4. Sound(T)
    BY <2>2, <2>3, QuestionsOnly
  <2> QED BY <2>1, <2>4 DEF T
<1>17. ASSUME x \in Questions, NEW k \in {"Init", "Discovery", "Connecting", "Established", "Poll"}
       PROVE  /\ Sound([R EXCEPT !.q[x].state = k])
              /\ [R EXCEPT !.q[x].state = k].q[x].server = S.q[x].server
              /\ [R EXCEPT !.q[x].state = k] \in States
  <2>1. PICK r \in QuestionRecord : r = R.q[x]
    BY <1>13, <1>17 DEF Sound, States
  <2> DEFINE w == [r EXCEPT !.state = k]
  <2>2. w \in QuestionRecord /\ w.on = r.on /\ w.dup = r.dup /\ w.server = r.server /\ w.nta = r.nta
    BY <2>1 DEF QuestionRecord
  <2>3. r.nta => r.on /\ r.dup = NoQuestion
    BY <1>13, <1>17, <2>1 DEF Sound, Asked, QuestionRecord
  <2>4. [R EXCEPT !.q[x].state = k] = PutQuestion(R, x, w)
    BY <2>1, Zenon DEF PutQuestion
  <2> HIDE DEF w
  <2>5. w.on = R.q[x].on /\ w.dup = R.q[x].dup /\ w.server = R.q[x].server
        /\ (w.nta => w.on /\ w.dup = NoQuestion)
    BY <2>1, <2>2, <2>3
  <2>6. x \in Questions /\ w \in QuestionRecord
    BY <1>17, <2>2
  <2>7. Sound(PutQuestion(R, x, w))
    BY <1>13, <2>6, <2>5, QuestionSound, Zenon
  <2>8. PutQuestion(R, x, w).q = [R.q EXCEPT ![x] = w]
    BY <1>13 DEF PutQuestion, Sound, States
  <2>9. Sound(PutQuestion(R, x, w)) /\ PutQuestion(R, x, w).q = [R.q EXCEPT ![x] = w]
    BY <2>7, <2>8
  <2>10. [R.q EXCEPT ![x] = w][x] = w
    BY <1>13, <1>17 DEF Sound, States
  <2> QED BY <1>13, <2>1, <2>2, <2>4, <2>9, <2>10 DEF Sound
<1>18. CASE x \in Questions /\ ok
  <2> DEFINE E == [R EXCEPT !.q[x].state = "Established"]
             F == [E EXCEPT !.server[s].state = "SessionEstablished"]
  <2>1. x # Ignored
    BY <1>18, PushAssumption
  <2>2. ReceiveResponse(S, s, slot, ok)
          = Unpin([R EXCEPT !.q[x].state = "Established", !.server[s].state = "SessionEstablished"],
                  {NameOf[x]})
    BY <1>18, <2>1, Zenon DEF ReceiveResponse, x, R
  <2>3. F = [R EXCEPT !.q[x].state = "Established", !.server[s].state = "SessionEstablished"]
    BY Zenon
  <2>4. Sound(E)
    BY <1>17, <1>18
  <2> HIDE DEF E
  <2>5. Sound(F)
    <3>1. "SessionEstablished" \in ServerStates
      BY DEF ServerStates
    <3> QED BY <2>4, <3>1, ServerStateSound, Zenon
  <2> HIDE DEF F
  <2>6. Sound([F EXCEPT !.pinned = F.pinned \ {NameOf[x]}])
    <3>1. /\ F.pinned \ {NameOf[x]} \in SUBSET Names
          /\ \A n \in (F.pinned \ {NameOf[x]}) \ F.pinned :
               \E y \in Questions : F.q[y].on /\ NameOf[y] = n /\ F.q[y].server # 0
      BY <2>5 DEF Sound, States
    <3> QED BY <2>5, <3>1, PinSound
  <2> QED BY <2>2, <2>3, <2>6 DEF Unpin
<1>19. CASE x \in Questions /\ ~ok /\ S.q[x].server # 0
  <2> DEFINE t == S.q[x].server
             F == [R EXCEPT !.server[t].state = "NoDNSPush"]
  <2>1. x # Ignored
    BY <1>19, PushAssumption
  <2>2. ReceiveResponse(S, s, slot, ok) = StartLLQPolling(F, x)
    BY <1>19, <2>1, Zenon DEF ReceiveResponse, x, R
  <2>3. t \in Servers
    BY <1>1, <1>19 DEF States, QuestionRecord
  <2>4. "NoDNSPush" \in ServerStates
    BY DEF ServerStates
  <2> HIDE DEF t
  <2>5. Sound(F)
    BY <1>13, <2>3, <2>4, ServerStateSound, Zenon
  <2> HIDE DEF F
  <2>6. Sound(StartLLQPolling(F, x))
    BY <1>19, <2>5, PollingSound, Zenon
  <2> QED BY <2>2, <2>6, Zenon
<1> QED BY <1>14, <1>15, <1>16, <1>18, <1>19, PushAssumption

\* A message from the push server keeps the invariant.
LEMMA ReceiveSound ==
  ASSUME Sound(Now), NEW s \in Servers, Receive(s)
  PROVE  Sound(Now)'
<1> DEFINE p == peer[s]
           Took(i) ==
             LET m == p.down[i]
                 S == [Now EXCEPT !.peer[s].down = Without(@, i)]
             IN  /\ m.conn \in dso[s].reading
                 /\ \/ m.type = "response" /\ Become(ReceiveResponse(S, s, m.slot, m.ok))
                    \/ \E cached \in BOOLEAN : Become(ReceiveUpdate(S, s, m.name, m.ok, cached))
<1>0. PICK k \in DOMAIN p.down : Took(k)
  BY Zenon DEF Receive, Foremost
<1> DEFINE m == p.down[k]
           r == [p EXCEPT !.down = Without(p.down, k)]
           S == [Now EXCEPT !.peer[s].down = Without(@, k)]
<1>1. p \in PeerRecord /\ Matched(dso[s].out, p) /\ dso[s].life = "live" /\ Now \in States
  BY SoundParts, NowTyped DEF Receive, Sound
<1>2. p.down \in Seq(Answers)
  BY <1>1 DEF PeerRecord
<1>3. m \in Answers /\ Without(p.down, k) \in Seq(Answers)
  BY <1>2, WithoutIs
<1>4. r \in PeerRecord /\ r.up = p.up /\ r.down = Without(p.down, k)
  BY <1>1, <1>3, PeerDown, Zenon
<1>5. m.name \in Names /\ m.ok \in BOOLEAN
  BY <1>3 DEF Answers
<1>6. S = PutPeer(Now, s, r)
  <2>1. S = [Now EXCEPT !.peer = [Now.peer EXCEPT ![s] = [Now.peer[s] EXCEPT !.down = Without(Now.peer[s].down, k)]]]
    BY Zenon
  <2> QED BY <2>1, NowTyped, Zenon DEF PutPeer
<1> HIDE DEF S, r, m
<1>7. /\ Matched(dso[s].out, r)
      /\ m.type = "response" =>
           /\ m.slot \in Slots /\ dso[s].out[m.slot] # Free
           /\ \A i \in Requests(r) : r.up[i].slot # m.slot
           /\ \A i \in Responses(r) : r.down[i].slot # m.slot
  BY <1>1, <1>4, ReadAnswer DEF m
<1>8. Sound(S)
  <2>1. Matched(Now.dso[s].out, r) /\ Now.dso[s].transport # "none"
    <3>1. Quiet(dso[s], connect[s], p)
      BY SoundParts, NowTyped
    <3>2. dso[s].transport # "none"
      BY <3>1 DEF Quiet, NoPeer
    <3> QED BY <1>7, <3>2, NowTyped
  <2> QED BY <1>4, <1>6, <2>1, PeerSound, Zenon
<1>9. S.peer[s] = r /\ S.dso = dso
  BY <1>1, <1>4, <1>6, NowTyped DEF PutPeer, States
<1>10. CASE m.type = "response" /\ Become(ReceiveResponse(S, s, m.slot, m.ok))
  <2>1. Answered(S, s, m.slot)
    BY <1>7, <1>9, <1>10 DEF Answered
  <2>2. Sound(ReceiveResponse(S, s, m.slot, m.ok))
    BY <1>1, <1>5, <1>8, <1>9, <2>1, ReceiveResponseSound
  <2> QED BY <1>10, <2>2, BecomeIs DEF Sound
<1>11. ASSUME NEW cached \in BOOLEAN, Become(ReceiveUpdate(S, s, m.name, m.ok, cached))
       PROVE  Sound(Now)'
  <2>1. Sound(ReceiveUpdate(S, s, m.name, m.ok, cached))
    BY <1>5, <1>8, ReceiveUpdateSound
  <2> QED BY <1>11, <2>1, BecomeIs DEF Sound
<1> QED BY <1>0, <1>10, <1>11 DEF S, m

-----------------------------------------------------------------------------
(* The connection is made.                                                 *)

\* The questions, the marks, the subscriptions granted and the servers in use
\* are what they were.
Told(S, T) ==
  /\ T.q = S.q /\ T.pinned = S.pinned /\ T.bad = S.bad /\ T.server = S.server
  /\ \A z \in Servers : T.dso[z].life = S.dso[z].life /\ T.peer[z].subs = S.peer[z].subs

\* Sending messages keeps the invariant and changes nothing a client sees.
LEMMA SentSound ==
  ASSUME NEW S, Sound(S), NEW s \in Servers, S.dso[s].life = "live", NEW T, Sent(S, T, s)
  PROVE  Sound(T) /\ Told(S, T)
<1>1. S \in States /\ T \in States
  BY DEF Sound, Sent
<1>2. PICK o \in [Slots -> Questions \cup {Free, Ignored}], u \in Seq(Messages) :
        o = T.dso[s].out /\ u = T.peer[s].up
  BY <1>1 DEF States, DSORecord, PeerRecord
<1>3. PICK d \in DSORecord, p \in PeerRecord : d = S.dso[s] /\ p = S.peer[s]
  BY SoundParts
<1>4. T.dso = [S.dso EXCEPT ![s] = [d EXCEPT !.out = o]] /\ T.peer = [S.peer EXCEPT ![s] = [p EXCEPT !.up = u]]
  BY <1>2, <1>3 DEF Sent
<1>5. /\ T.dso[s] = [d EXCEPT !.out = o] /\ T.peer[s] = [p EXCEPT !.up = u]
      /\ \A t \in Servers \ {s} : T.dso[t] = S.dso[t] /\ T.peer[t] = S.peer[t]
  BY <1>1, <1>4 DEF States
<1>6. LET e == [d EXCEPT !.out = o]
      IN  e.life = d.life /\ e.acts = d.acts /\ e.transport = d.transport /\ e.out = o
  BY DEF DSORecord
<1>7. [p EXCEPT !.up = u].subs = p.subs
  BY DEF PeerRecord
<1>8. /\ T.q = S.q /\ T.server = S.server /\ T.connect = S.connect /\ T.pinned = S.pinned
      /\ T.bad = S.bad /\ Matched(T.dso[s].out, T.peer[s])
      /\ (S.dso[s].transport = "none" => T.peer[s] = S.peer[s])
  BY DEF Sent
<1>9. Told(S, T)
  <2> SUFFICES ASSUME NEW z \in Servers
               PROVE  T.dso[z].life = S.dso[z].life /\ T.peer[z].subs = S.peer[z].subs
    BY <1>8 DEF Told
  <2>1. CASE z = s
    BY <1>3, <1>5, <1>6, <1>7, <2>1
  <2>2. CASE z # s
    BY <1>5, <2>2
  <2> QED BY <2>1, <2>2
<1>10. PICK e : /\ e = T.dso[s] /\ e.life = "live" /\ e.acts = S.dso[s].acts
                /\ e.transport = S.dso[s].transport /\ Matched(e.out, T.peer[s])
  BY <1>3, <1>5, <1>6, <1>8
<1>11. Holders(T, s) = Holders(S, s)
  BY <1>8 DEF Holders
<1>12. /\ Counted(S.server[s], S.dso[s], Holders(S, s), 0)
       /\ Joined(S.server[s], S.dso[s], S.connect[s], Holders(S, s))
       /\ Quiet(S.dso[s], S.connect[s], S.peer[s])
  BY SoundParts
<1>13. Counted(S.server[s], e, Holders(S, s), 0)
  BY <1>10, <1>12 DEF Counted
<1>14. Joined(S.server[s], e, S.connect[s], Holders(S, s))
  BY <1>10, <1>12 DEF Joined
<1>15. Quiet(e, S.connect[s], T.peer[s])
  BY <1>8, <1>10, <1>12 DEF Quiet
<1>16. At(T, s, 0)
  BY <1>8, <1>10, <1>11, <1>13, <1>14, <1>15 DEF At, Whole
<1>17. Sound(T)
  BY <1>1, <1>5, <1>8, <1>16, OneRecord
<1> QED BY <1>9, <1>17

\* DNSPushServerConnected subscribes the questions that wait, one after the other.
AskOp(x, R, p) == SendSubscribe(R, p[2], x)
AskInv(t, R, p) == Sound(R) /\ Told(p[1], R)
Asks == INSTANCE FoldInduction WITH Op <- AskOp, P <- AskInv

\* When it has, the invariant holds and a client sees no difference.
LEMMA ConnectedSound ==
  ASSUME NEW S, Sound(S), NEW s \in Servers, S.dso[s].life = "live"
  PROVE  LET B0 == [S EXCEPT !.server[s].state = "Connected"]
         IN  Sound(Connected(S, s)) /\ Told(B0, Connected(S, s)) /\ Sound(B0)
<1> DEFINE B0 == [S EXCEPT !.server[s].state = "Connected"]
           p == <<B0, s>>
           A == S.dso[s].acts
<1>1. Sound(B0) /\ B0.dso = S.dso
  <2>1. "Connected" \in ServerStates
    BY DEF ServerStates
  <2> QED BY <2>1, ServerStateSound, Zenon
<1> HIDE DEF B0
<1>2. p[1] = B0 /\ p[2] = s
  OBVIOUS
<1>3. A \in SUBSET Questions /\ IsFiniteSet(A)
  <2>1. A \in SUBSET Questions
    BY SoundParts DEF DSORecord
  <2> QED BY <2>1, PushAssumption, FS_Subset
<1> HIDE DEF p, A
<1>4. AskInv({}, B0, p)
  BY <1>1, <1>2 DEF AskInv, Told
<1>5. ASSUME NEW t \in SUBSET A, NEW R, NEW x \in t, AskInv(t \ {x}, R, p)
      PROVE  AskInv(t, AskOp(x, R, p), p)
  <2>1. Sound(R) /\ Told(B0, R)
    BY <1>2, <1>5 DEF AskInv
  <2>2. R.dso[s].life = "live" /\ x \in Questions
    BY <1>1, <1>3, <2>1 DEF Told
  <2>3. Sent(R, SendSubscribe(R, s, x), s)
    <3>1. R \in States /\ Matched(R.dso[s].out, R.peer[s])
      BY <2>1, SoundParts DEF Sound
    <3> QED BY <2>2, <3>1, SubscribeSent
  <2>4. Sound(SendSubscribe(R, s, x)) /\ Told(R, SendSubscribe(R, s, x))
    BY <2>1, <2>2, <2>3, SentSound
  <2>5. Told(B0, SendSubscribe(R, s, x))
    BY <2>1, <2>4 DEF Told
  <2> QED BY <1>2, <2>4, <2>5 DEF AskInv, AskOp
<1>6. Asks!IsFiniteSet(A)
  BY <1>3 DEF IsFiniteSet, Asks!IsFiniteSet
<1>7. AskInv(A, Asks!Fold(A, B0, p), p)
  <2>1. \A t \in SUBSET A : \A R : \A x \in t :
           AskInv(t \ {x}, R, p) => AskInv(t, AskOp(x, R, p), p)
    BY <1>5
  <2> QED BY <1>4, <1>6, <2>1, Asks!FoldPreserves, Zenon
<1>8. Asks!Fold(A, B0, p) = Connected(S, s)
  <2> DEFINE F(k) == FoldSet(LAMBDA x, R : SendSubscribe(R, k, x), B0, A)
  <2>1. Asks!Fold(A, B0, p) = F(p[2])
    BY Zenon DEF Asks!Fold, Asks!FoldSet, Asks!MapThenFoldSet, FoldSet, MapThenFoldSet, AskOp
  <2>2. F(s) = Connected(S, s)
    BY Zenon DEF Connected, A, B0
  <2> HIDE DEF F
  <2> QED BY <1>2, <2>1, <2>2
<1> QED BY <1>1, <1>2, <1>7, <1>8 DEF AskInv, B0

\* The records of a server whose connection attempt a is ready.
LEMMA ReadyTransport ==
  ASSUME NEW d \in DSORecord, NEW b \in Attempts \cup {0}
  PROVE  LET e == [d EXCEPT !.transport = "made", !.connection = b, !.reading = @ \cup ({b} \ {0})]
         IN  /\ e \in DSORecord /\ e.transport = "made" /\ e.life = d.life /\ e.acts = d.acts
             /\ e.out = d.out
<1>1. {b} \ {0} \subseteq Attempts
  OBVIOUS
<1> QED BY <1>1 DEF DSORecord

\* The same for the push server's end.
LEMMA ReadyPeer ==
  ASSUME NEW p \in PeerRecord, NEW a \in Attempts
  PROVE  LET e == [p EXCEPT !.open = @ \cup {a}]
         IN  e \in PeerRecord /\ e.up = p.up /\ e.down = p.down /\ e.subs = p.subs
  BY DEF PeerRecord

\* The same for the dso_connect_state_t.
LEMMA ReadyConnect ==
  ASSUME NEW c \in ConnectRecord, NEW a \in Attempts
  PROVE  LET e == [c EXCEPT !.connecting = FALSE, !.current = 0, !.nw[a] = "ready",
                            !.last_event = FALSE, !.lookup = FALSE]
         IN  e \in ConnectRecord /\ e.life = c.life /\ e.queue = c.queue /\ e.tried = c.tried
<1>1. [c.nw EXCEPT ![a] = "ready"] \in [Attempts -> {"none", "starting", "cancelling", "ready"}]
  BY DEF ConnectRecord
<1> QED BY <1>1, PushAssumption DEF ConnectRecord

\* A connection attempt succeeds: the transport is made, whichever connection it
\* gets, and the dso_connect_state_t has nothing more to do.
MadeReady(S, s) ==
  /\ Sound(S) /\ S.q = Now.q /\ S.pinned = Now.pinned /\ S.bad = Now.bad
  /\ Now.dso[s].life = "live" /\ S.dso[s].life = "live" /\ S.dso[s].out = Now.dso[s].out
  /\ S.peer[s].up = Now.peer[s].up /\ S.peer[s].down = Now.peer[s].down
  /\ S.peer[s].subs = Now.peer[s].subs

\* So nothing a name is served by is touched before the requests are sent.
LEMMA ConnectionReadyIs ==
  ASSUME Sound(Now), NEW s \in Servers, NEW a \in Attempts, ConnectionReady(s, a)
  PROVE  \E S : MadeReady(S, s) /\ Become(Connected(S, s))
<1> DEFINE b == Now.connect[s].current
           d == [Now.dso[s] EXCEPT !.transport = "made", !.connection = b,
                                   !.reading = @ \cup ({b} \ {0})]
           p == [Now.peer[s] EXCEPT !.open = @ \cup {a}]
           c == [Now.connect[s] EXCEPT !.connecting = FALSE, !.current = 0, !.nw[a] = "ready",
                                       !.last_event = FALSE, !.lookup = FALSE]
           D == PutDSO(Now, s, d)
           P == PutPeer(D, s, p)
           S == PutConnect(P, s, c)
<1>1. Now \in States /\ b \in Attempts \cup {0}
  BY SoundParts DEF Sound, ConnectRecord
<1>2. Become(Connected([Now EXCEPT !.dso[s] = d, !.peer[s] = p, !.connect[s] = c], s))
  BY NowTyped, Zenon DEF ConnectionReady
<1> HIDE DEF b
<1>3. /\ d \in DSORecord /\ d.transport = "made" /\ d.life = Now.dso[s].life
      /\ d.acts = Now.dso[s].acts /\ d.out = Now.dso[s].out
      /\ p \in PeerRecord /\ p.up = Now.peer[s].up /\ p.down = Now.peer[s].down
      /\ p.subs = Now.peer[s].subs
      /\ c \in ConnectRecord /\ c.life = Now.connect[s].life /\ c.queue = Now.connect[s].queue
      /\ c.tried = Now.connect[s].tried
  <2>1. /\ Now.dso[s] \in DSORecord /\ Now.peer[s] \in PeerRecord
        /\ Now.connect[s] \in ConnectRecord
    BY SoundParts
  <2>2. /\ d \in DSORecord /\ d.transport = "made" /\ d.life = Now.dso[s].life
        /\ d.acts = Now.dso[s].acts /\ d.out = Now.dso[s].out
    BY <1>1, <2>1, ReadyTransport, Zenon
  <2>3. /\ p \in PeerRecord /\ p.up = Now.peer[s].up /\ p.down = Now.peer[s].down
        /\ p.subs = Now.peer[s].subs
    BY <2>1, ReadyPeer, Zenon
  <2>4. /\ c \in ConnectRecord /\ c.life = Now.connect[s].life /\ c.queue = Now.connect[s].queue
        /\ c.tried = Now.connect[s].tried
    BY <2>1, ReadyConnect, Zenon
  <2> HIDE DEF d, p, c
  <2> QED BY <2>2, <2>3, <2>4
<1> HIDE DEF c
<1>4. Become(Connected(S, s))
  <2>1. [Now EXCEPT !.dso[s] = d, !.peer[s] = p, !.connect[s] = c] = S
    <3> HIDE DEF d, p
    <3> QED BY Zenon DEF PutDSO, PutPeer, PutConnect
  <2> HIDE DEF S
  <2> QED BY <1>2, <2>1
<1> HIDE DEF d, p
<1>5. /\ S \in States /\ S.q = Now.q /\ S.pinned = Now.pinned /\ S.server = Now.server
      /\ S.bad = Now.bad /\ S.dso = [Now.dso EXCEPT ![s] = d] /\ S.peer = [Now.peer EXCEPT ![s] = p]
      /\ S.connect = [Now.connect EXCEPT ![s] = c]
  <2>1. /\ D \in States /\ D.q = Now.q /\ D.pinned = Now.pinned /\ D.server = Now.server
        /\ D.bad = Now.bad /\ D.dso = [Now.dso EXCEPT ![s] = d] /\ D.peer = Now.peer /\ D.connect = Now.connect
    BY <1>1, <1>3 DEF PutDSO, States
  <2> HIDE DEF D
  <2>2. /\ P \in States /\ P.q = D.q /\ P.pinned = D.pinned /\ P.server = D.server
        /\ P.bad = D.bad /\ P.dso = D.dso /\ P.peer = [D.peer EXCEPT ![s] = p] /\ P.connect = D.connect
    BY <1>3, <2>1 DEF PutPeer, States
  <2> HIDE DEF P
  <2>3. /\ S \in States /\ S.q = P.q /\ S.pinned = P.pinned /\ S.server = P.server
        /\ S.bad = P.bad /\ S.dso = P.dso /\ S.peer = P.peer /\ S.connect = [P.connect EXCEPT ![s] = c]
    BY <1>3, <2>2 DEF PutConnect, States
  <2> QED BY <2>1, <2>2, <2>3
<1> HIDE DEF D, P, S
<1>6. /\ S.dso[s] = d /\ S.peer[s] = p /\ S.connect[s] = c
      /\ \A t \in Servers \ {s} : /\ S.dso[t] = Now.dso[t] /\ S.peer[t] = Now.peer[t]
                                   /\ S.connect[t] = Now.connect[t]
  BY <1>1, <1>5 DEF States
<1>7. /\ Counted(Now.server[s], Now.dso[s], Holders(Now, s), 0)
      /\ Joined(Now.server[s], Now.dso[s], Now.connect[s], Holders(Now, s))
      /\ Quiet(Now.dso[s], Now.connect[s], Now.peer[s]) /\ Matched(Now.dso[s].out, Now.peer[s])
  BY SoundParts
<1>8. Now.connect[s].life = "live" /\ Now.dso[s].life = "live" /\ Now.server[s].listed
  <2>1. Now.connect[s].nw[a] = "starting"
    BY NowTyped DEF ConnectionReady
  <2>2. Now.connect[s].life = "live"
    BY <1>7, <2>1 DEF Quiet
  <2> QED BY <1>7, <2>2 DEF Joined
<1>9. Counted(Now.server[s], d, Holders(Now, s), 0)
  BY <1>3, <1>7 DEF Counted
<1>10. Joined(Now.server[s], d, c, Holders(Now, s))
  BY <1>3, <1>7 DEF Joined
<1>11. Quiet(d, c, p)
  BY <1>1, <1>3, <1>7, <1>8 DEF Quiet
<1>12. Matched(d.out, p)
  BY <1>3, <1>7, SameMessages
<1>13. Holders(S, s) = Holders(Now, s)
  BY <1>5 DEF Holders
<1>14. At(S, s, 0)
  BY <1>5, <1>6, <1>9, <1>10, <1>11, <1>12, <1>13 DEF At, Whole
<1>15. Sound(S)
  <2>1. /\ S.pinned \subseteq Now.pinned
        /\ S.server[s].listed => Now.server[s].listed
        /\ \A t \in Servers \ {s} :
             /\ S.server[t] = Now.server[t] /\ S.dso[t] = Now.dso[t]
             /\ S.connect[t] = Now.connect[t] /\ S.peer[t] = Now.peer[t]
    BY <1>5, <1>6
  <2>2. S \in States /\ S.q = Now.q
    BY <1>5
  <2> QED BY <1>14, <2>1, <2>2, OneRecord, ZenonT(60)
<1>16. MadeReady(S, s)
  BY <1>3, <1>5, <1>6, <1>8, <1>15 DEF MadeReady
<1> QED BY <1>4, <1>16, Zenon

\* The questions that wait are subscribed.
LEMMA ConnectionReadySound ==
  ASSUME Sound(Now), NEW s \in Servers, NEW a \in Attempts, ConnectionReady(s, a)
  PROVE  Sound(Now)'
<1>1. PICK S : MadeReady(S, s) /\ Become(Connected(S, s))
  BY ConnectionReadyIs, Zenon
<1>2. Sound(Connected(S, s))
  BY <1>1, ConnectedSound DEF MadeReady
<1> QED BY <1>1, <1>2, BecomeIs DEF Sound

-----------------------------------------------------------------------------
(* A question subscribes.                                                  *)

\* What DNSPushZoneAndServerCopy leaves: server s, the only one listed, has a
\* reference and a zone reference more than its holders account for.
Offered(S, C, s) ==
  /\ C \in States /\ C.q = S.q /\ C.pinned = S.pinned /\ C.bad = S.bad
  /\ \A t \in Servers \ {s} :
       /\ C.server[t] = S.server[t] /\ C.dso[t] = S.dso[t] /\ C.connect[t] = S.connect[t]
       /\ C.peer[t] = S.peer[t]
  /\ \A t \in Servers : S.server[t].listed => t = s
  /\ C.server[s].listed /\ C.server[s].zrefs = 2 + Cardinality(Holders(S, s))
  /\ C.server[s].refs = 5 + Cardinality(Holders(S, s))
  /\ Joined(C.server[s], C.dso[s], C.connect[s], Holders(S, s))
  /\ Quiet(C.dso[s], C.connect[s], C.peer[s]) /\ Matched(C.dso[s].out, C.peer[s])

\* The activity of x is added, and x holds s.
Adding(C, s, x) == [C EXCEPT !.dso[s].acts = @ \cup {x}]
Holding(M, s, x) == [M EXCEPT !.q[x].server = s]

\* Adding an activity changes nothing else.
LEMMA AddingIs ==
  ASSUME NEW C \in States, NEW s \in Servers, NEW x \in Questions
  PROVE  LET A == Adding(C, s, x)
         IN  /\ A \in States /\ A.q = C.q /\ A.pinned = C.pinned /\ A.bad = C.bad
             /\ A.server = C.server /\ A.connect = C.connect /\ A.peer = C.peer
             /\ A.dso[s].acts = C.dso[s].acts \cup {x} /\ A.dso[s].out = C.dso[s].out
             /\ A.dso[s].life = C.dso[s].life /\ A.dso[s].transport = C.dso[s].transport
             /\ \A t \in Servers \ {s} : A.dso[t] = C.dso[t]
<1> DEFINE A == Adding(C, s, x)
<1>1. PICK d \in DSORecord : d = C.dso[s]
  BY DEF States
<1>2. PICK X \in SUBSET Questions : X = d.acts \cup {x}
  BY DEF DSORecord
<1> DEFINE e == [d EXCEPT !.acts = X]
<1>3. e \in DSORecord /\ e.acts = X /\ e.life = d.life /\ e.out = d.out /\ e.transport = d.transport
  BY ActivitiesTyped
<1>4. A = PutDSO(C, s, e)
  <2>1. A = [C EXCEPT !.dso = [C.dso EXCEPT ![s] = [C.dso[s] EXCEPT !.acts = C.dso[s].acts \cup {x}]]]
    BY Zenon DEF Adding
  <2> QED BY <1>1, <1>2, <2>1, Zenon DEF PutDSO
<1> HIDE DEF e, A
<1>5. /\ A \in States /\ A.q = C.q /\ A.pinned = C.pinned /\ A.bad = C.bad
      /\ A.server = C.server /\ A.connect = C.connect /\ A.peer = C.peer
      /\ A.dso = [C.dso EXCEPT ![s] = e]
  BY <1>3, <1>4 DEF PutDSO, States
<1>6. A.dso[s] = e /\ \A t \in Servers \ {s} : A.dso[t] = C.dso[t]
  BY <1>5 DEF States
<1> QED BY <1>1, <1>2, <1>3, <1>5, <1>6 DEF A

\* Holding a server changes nothing else.
LEMMA HoldingIs ==
  ASSUME NEW M \in States, NEW s \in Servers, NEW x \in Questions
  PROVE  LET H == Holding(M, s, x)
         IN  /\ H \in States /\ H.pinned = M.pinned /\ H.bad = M.bad /\ H.server = M.server
             /\ H.connect = M.connect /\ H.peer = M.peer /\ H.dso = M.dso
             /\ H.q[x].server = s /\ H.q[x].on = M.q[x].on /\ H.q[x].dup = M.q[x].dup
             /\ H.q[x].nta = M.q[x].nta /\ H.q[x].state = M.q[x].state
             /\ \A z \in Questions \ {x} : H.q[z] = M.q[z]
<1> DEFINE H == Holding(M, s, x)
<1>1. PICK r \in QuestionRecord : r = M.q[x]
  BY DEF States
<1> DEFINE e == [r EXCEPT !.server = s]
<1>2. e \in QuestionRecord /\ e.server = s /\ e.on = r.on /\ e.dup = r.dup /\ e.nta = r.nta
      /\ e.state = r.state
  BY DEF QuestionRecord
<1>3. H = PutQuestion(M, x, e)
  BY <1>1, Zenon DEF Holding, PutQuestion
<1> HIDE DEF e, H
<1>4. /\ H \in States /\ H.pinned = M.pinned /\ H.bad = M.bad /\ H.server = M.server
      /\ H.connect = M.connect /\ H.peer = M.peer /\ H.dso = M.dso
      /\ H.q = [M.q EXCEPT ![x] = e]
  BY <1>2, <1>3 DEF PutQuestion, States
<1>5. H.q[x] = e /\ \A z \in Questions \ {x} : H.q[z] = M.q[z]
  BY <1>4 DEF States
<1> QED BY <1>1, <1>2, <1>4, <1>5 DEF H

\* The question takes the reference, and its activity is the server's.
LEMMA JoinSound ==
  ASSUME NEW S, Sound(S), NEW s \in Servers, NEW x \in Questions, NEW C, Offered(S, C, s),
         S.q[x].on, S.q[x].dup = NoQuestion, S.q[x].server = 0,
         NEW M, Sent(Adding(C, s, x), M, s)
  PROVE  Sound(Holding(M, s, x))
<1> DEFINE A == Adding(C, s, x)
           H == Holding(M, s, x)
           K == Holders(S, s)
<1>1. /\ A \in States /\ A.q = C.q /\ A.pinned = C.pinned
      /\ A.server = C.server /\ A.connect = C.connect /\ A.peer = C.peer
      /\ A.dso[s].acts = C.dso[s].acts \cup {x}
      /\ A.dso[s].life = C.dso[s].life /\ A.dso[s].transport = C.dso[s].transport
      /\ \A t \in Servers \ {s} : A.dso[t] = C.dso[t]
  BY AddingIs DEF Offered
<1> HIDE DEF A
<1>2. /\ M \in States /\ M.q = A.q /\ M.server = A.server /\ M.connect = A.connect
      /\ M.pinned = A.pinned /\ Matched(M.dso[s].out, M.peer[s])
      /\ (A.dso[s].transport = "none" => M.peer[s] = A.peer[s])
  BY DEF Sent, A
<1>3. PICK o \in [Slots -> Questions \cup {Free, Ignored}], u \in Seq(Messages) :
        o = M.dso[s].out /\ u = M.peer[s].up
  BY <1>2 DEF States, DSORecord, PeerRecord
<1>4. PICK d \in DSORecord, p \in PeerRecord : d = A.dso[s] /\ p = A.peer[s]
  BY <1>1 DEF States
<1>5. M.dso = [A.dso EXCEPT ![s] = [d EXCEPT !.out = o]] /\ M.peer = [A.peer EXCEPT ![s] = [p EXCEPT !.up = u]]
  BY <1>3, <1>4 DEF Sent, A
<1>6. /\ M.dso[s] = [d EXCEPT !.out = o]
      /\ \A t \in Servers \ {s} : M.dso[t] = A.dso[t] /\ M.peer[t] = A.peer[t]
  BY <1>1, <1>5 DEF States
<1>7. M.dso[s].life = d.life /\ M.dso[s].acts = d.acts /\ M.dso[s].transport = d.transport
  BY <1>6 DEF DSORecord
<1>8. /\ H \in States /\ H.pinned = M.pinned /\ H.server = M.server
      /\ H.connect = M.connect /\ H.peer = M.peer /\ H.dso = M.dso
      /\ H.q[x].server = s /\ H.q[x].on = M.q[x].on /\ H.q[x].dup = M.q[x].dup
      /\ H.q[x].nta = M.q[x].nta
      /\ \A z \in Questions \ {x} : H.q[z] = M.q[z]
  BY <1>2, HoldingIs
<1> HIDE DEF H
<1>9. M.q = S.q /\ s # 0
  BY <1>1, <1>2, PushAssumption DEF Offered, Servers
<1>10. Holders(H, s) = K \cup {x} /\ x \notin K /\ \A t \in Servers \ {s} : Holders(H, t) = Holders(S, t)
  <2>1. \A t \in Servers : t # 0
    BY PushAssumption DEF Servers
  <2> QED BY <1>8, <1>9, <2>1 DEF Holders
<1>11. Cardinality(Holders(H, s)) = Cardinality(K) + 1 /\ Cardinality(K) \in Nat
  <2>1. IsFiniteSet(K) /\ Cardinality(K) \in Nat
    BY HoldersFinite
  <2>2. Cardinality(K \cup {x}) = Cardinality(K) + 1
    BY <1>10, <2>1, FS_AddElement
  <2> QED BY <1>10, <2>1, <2>2
<1>12. H.server[s] = C.server[s] /\ H.connect[s] = C.connect[s]
  BY <1>1, <1>2, <1>8
<1> HIDE DEF K
<1>13. Counted(H.server[s], H.dso[s], Holders(H, s), 0)
  <2>1. C.server[s].listed /\ C.server[s].zrefs = 2 + Cardinality(K) /\ C.server[s].refs = 5 + Cardinality(K)
    BY DEF Offered, K
  <2> QED BY <1>11, <1>12, <2>1 DEF Counted
<1>14. Joined(H.server[s], H.dso[s], H.connect[s], Holders(H, s))
  <2>1. Joined(C.server[s], C.dso[s], C.connect[s], K) /\ C.server[s].listed
    BY DEF Offered, K
  <2>2. H.dso[s].life = C.dso[s].life /\ H.dso[s].acts = C.dso[s].acts \cup {x}
    BY <1>1, <1>4, <1>7, <1>8
  <2> QED BY <1>10, <1>12, <2>1, <2>2 DEF Joined
<1>15. Quiet(H.dso[s], H.connect[s], H.peer[s])
  <2>1. Quiet(C.dso[s], C.connect[s], C.peer[s])
    BY DEF Offered
  <2>2. /\ H.dso[s].life = C.dso[s].life /\ H.dso[s].transport = C.dso[s].transport
        /\ (H.dso[s].transport = "none" => H.peer[s] = C.peer[s])
    BY <1>1, <1>2, <1>4, <1>7, <1>8
  <2>3. C.dso[s].life # "none"
    BY DEF Offered, Joined
  <2> QED BY <1>12, <2>1, <2>2, <2>3 DEF Quiet
<1>16. Matched(H.dso[s].out, H.peer[s])
  BY <1>2, <1>8
<1>17. \A t \in Servers : At(H, t, 0)
  <2> TAKE t \in Servers
  <2>1. CASE t = s
    BY <1>13, <1>14, <1>15, <1>16, <2>1 DEF At, Whole
  <2>2. CASE t # s
    <3>1. /\ H.server[t] = S.server[t] /\ H.dso[t] = S.dso[t] /\ H.connect[t] = S.connect[t]
          /\ H.peer[t] = S.peer[t]
      BY <1>1, <1>2, <1>6, <1>8, <2>2 DEF Offered
    <3>2. At(S, t, 0)
      BY DEF Sound
    <3> QED BY <1>10, <2>2, <3>1, <3>2 DEF At
  <2> QED BY <2>1, <2>2
<1>18. Single(H)
  <2>1. \A t \in Servers : H.server[t].listed => t = s
    <3> TAKE t \in Servers
    <3>1. CASE t # s
      BY <1>1, <1>2, <1>8, <3>1 DEF Offered
    <3> QED BY <3>1
  <2> QED BY <2>1 DEF Single
<1>19. Asked(H)
  <2> SUFFICES ASSUME NEW z \in Questions
               PROVE  /\ H.q[z].dup # NoQuestion =>
                           /\ H.q[z].on /\ H.q[z].server = 0 /\ ~H.q[z].nta
                           /\ H.q[H.q[z].dup].on /\ H.q[H.q[z].dup].dup = NoQuestion
                           /\ NameOf[H.q[z].dup] = NameOf[z]
                      /\ ~H.q[z].on => H.q[z].server = 0 /\ ~H.q[z].nta
    BY DEF Asked
  <2>1. CASE z = x
    BY <1>8, <1>9, <2>1
  <2>2. CASE z # x
    <3>1. H.q[z] = S.q[z]
      BY <1>8, <1>9, <2>2
    <3>2. S.q[z].dup # NoQuestion => S.q[z].dup \in Questions
      BY DEF Sound, States, QuestionRecord
    <3>3. \A y \in Questions : H.q[y].on = S.q[y].on /\ H.q[y].dup = S.q[y].dup
      BY <1>8, <1>9
    <3>4. /\ S.q[z].dup # NoQuestion =>
               /\ S.q[z].on /\ S.q[z].server = 0 /\ ~S.q[z].nta
               /\ S.q[S.q[z].dup].on /\ S.q[S.q[z].dup].dup = NoQuestion
               /\ NameOf[S.q[z].dup] = NameOf[z]
          /\ ~S.q[z].on => S.q[z].server = 0 /\ ~S.q[z].nta
      BY DEF Sound, Asked
    <3> QED BY <3>1, <3>2, <3>3, <3>4
  <2> QED BY <2>1, <2>2
<1>20. Backed(H)
  <2>1. H.pinned = S.pinned
    BY <1>1, <1>2, <1>8 DEF Offered
  <2>2. \A z \in Questions : H.q[z].on = S.q[z].on /\ (S.q[z].server # 0 => H.q[z].server # 0)
    BY <1>8, <1>9
  <2> QED BY <2>1, <2>2 DEF Backed, Sound
<1>21. Sound(H)
  BY <1>8, <1>17, <1>18, <1>19, <1>20 DEF Sound
<1> QED BY <1>21 DEF H

\* A server's record is its fields.
LEMMA SameServer ==
  ASSUME NEW a \in ServerRecord, NEW b \in ServerRecord,
         a.refs = b.refs, a.listed = b.listed, a.zrefs = b.zrefs, a.zlisted = b.zlisted,
         a.state = b.state, a.connection = b.connection, a.connectInfo = b.connectInfo
  PROVE  a = b
  BY DEF ServerRecord

\* Changing one count changes nothing else.
LEMMA CountFields ==
  ASSUME NEW v \in ServerRecord, NEW n \in Int
  PROVE  LET a == [v EXCEPT !.refs = n]
             b == [v EXCEPT !.zrefs = n]
         IN  /\ a \in ServerRecord /\ a.refs = n /\ a.zrefs = v.zrefs /\ a.listed = v.listed
             /\ a.zlisted = v.zlisted /\ a.connection = v.connection
             /\ a.connectInfo = v.connectInfo /\ a.state = v.state
             /\ b \in ServerRecord /\ b.zrefs = n /\ b.refs = v.refs /\ b.listed = v.listed
             /\ b.zlisted = v.zlisted /\ b.connection = v.connection
             /\ b.connectInfo = v.connectInfo /\ b.state = v.state
  BY DEF ServerRecord

\* A reference and a zone reference more are taken and given back.
LEMMA CountsAgain ==
  ASSUME NEW v \in ServerRecord
  PROVE  LET u == [[v EXCEPT !.refs = v.refs + 1] EXCEPT !.zrefs = v.zrefs + 1]
             w == [u EXCEPT !.zrefs = u.zrefs - 1]
         IN  /\ u \in ServerRecord /\ u.refs = v.refs + 1 /\ u.zrefs = v.zrefs + 1
             /\ u.listed = v.listed /\ u.zlisted = v.zlisted /\ u.connection = v.connection
             /\ u.connectInfo = v.connectInfo
             /\ w \in ServerRecord /\ w.refs = u.refs /\ [w EXCEPT !.refs = w.refs - 1] = v
<1>1. v.refs \in Int /\ v.zrefs \in Int
  BY DEF ServerRecord
<1>2. PICK a \in Int, b \in Int : a = v.refs + 1 /\ b = v.zrefs + 1
  BY <1>1
<1> DEFINE v1 == [v EXCEPT !.refs = a]
           u == [v1 EXCEPT !.zrefs = b]
           w == [u EXCEPT !.zrefs = v.zrefs]
           x == [w EXCEPT !.refs = v.refs]
<1>3. /\ v1 \in ServerRecord /\ v1.refs = a /\ v1.zrefs = v.zrefs /\ v1.listed = v.listed
      /\ v1.zlisted = v.zlisted /\ v1.connection = v.connection
      /\ v1.connectInfo = v.connectInfo /\ v1.state = v.state
  BY CountFields, Zenon
<1> HIDE DEF v1
<1>4. /\ u \in ServerRecord /\ u.zrefs = b /\ u.refs = v1.refs /\ u.listed = v1.listed
      /\ u.zlisted = v1.zlisted /\ u.connection = v1.connection
      /\ u.connectInfo = v1.connectInfo /\ u.state = v1.state
  BY <1>3, CountFields, Zenon
<1> HIDE DEF u
<1>5. /\ w \in ServerRecord /\ w.zrefs = v.zrefs /\ w.refs = u.refs /\ w.listed = u.listed
      /\ w.zlisted = u.zlisted /\ w.connection = u.connection
      /\ w.connectInfo = u.connectInfo /\ w.state = u.state
  BY <1>1, <1>4, CountFields, Zenon
<1> HIDE DEF w
<1>6. /\ x \in ServerRecord /\ x.zrefs = w.zrefs /\ x.refs = v.refs
      /\ x.listed = w.listed /\ x.zlisted = w.zlisted /\ x.connection = w.connection
      /\ x.connectInfo = w.connectInfo /\ x.state = w.state
  BY <1>1, <1>5, CountFields, Zenon
<1> HIDE DEF x
<1>7. x = v
  BY <1>3, <1>4, <1>5, <1>6, SameServer
<1>8. u.zrefs - 1 = v.zrefs /\ w.refs - 1 = v.refs
  BY <1>1, <1>2, <1>3, <1>4, <1>5
<1>9. u = [[v EXCEPT !.refs = v.refs + 1] EXCEPT !.zrefs = v.zrefs + 1]
  BY <1>2 DEF u, v1
<1>10. w = [u EXCEPT !.zrefs = u.zrefs - 1] /\ v = [w EXCEPT !.refs = w.refs - 1]
  BY <1>7, <1>8 DEF w, x
<1> QED BY <1>2, <1>3, <1>4, <1>5, <1>9, <1>10, Zenon

\* The listed server gets a reference more.
LEMMA ListedOffered ==
  ASSUME NEW S, Sound(S), NEW s \in Servers, S.server[s].listed
  PROVE  LET C == [S EXCEPT !.server[s].refs = @ + 1, !.server[s].zrefs = @ + 1]
         IN  /\ Offered(S, C, s)
             /\ ReleaseServer(ReleaseZone(C, s, 1), s, 1) = S
<1> DEFINE C == [S EXCEPT !.server[s].refs = @ + 1, !.server[s].zrefs = @ + 1]
           k == Cardinality(Holders(S, s))
<1>1. S \in States /\ k \in Nat
  BY HoldersFinite DEF Sound
<1>2. PICK v \in ServerRecord : v = S.server[s]
  BY SoundParts
<1>3. /\ Counted(v, S.dso[s], Holders(S, s), 0)
      /\ Joined(v, S.dso[s], S.connect[s], Holders(S, s))
      /\ Quiet(S.dso[s], S.connect[s], S.peer[s]) /\ Matched(S.dso[s].out, S.peer[s])
  BY <1>2, SoundParts
<1>4. v.listed /\ v.zrefs = 1 + k /\ v.refs = 4 + k /\ v.zrefs \in Int /\ v.refs \in Int
  BY <1>2, <1>3, <1>1 DEF Counted
<1> DEFINE v1 == [v EXCEPT !.refs = v.refs + 1]
           u == [v1 EXCEPT !.zrefs = v.zrefs + 1]
           w == [u EXCEPT !.zrefs = u.zrefs - 1]
<1>5. /\ u \in ServerRecord /\ u.refs = v.refs + 1 /\ u.zrefs = v.zrefs + 1
      /\ u.listed = v.listed /\ u.zlisted = v.zlisted /\ u.connection = v.connection
      /\ u.connectInfo = v.connectInfo
      /\ w \in ServerRecord /\ w.refs = u.refs /\ [w EXCEPT !.refs = w.refs - 1] = v
  BY CountsAgain, Zenon
<1>6. v1.zrefs = v.zrefs
  BY DEF ServerRecord
<1>7. C = Put(S, s, u)
  <2> DEFINE S1 == [S EXCEPT !.server[s].refs = @ + 1]
  <2>1. S1 = Put(S, s, v1)
    <3>1. S1 = [S EXCEPT !.server = [S.server EXCEPT ![s] = [S.server[s] EXCEPT !.refs = S.server[s].refs + 1]]]
      BY Zenon
    <3> QED BY <1>2, <3>1, Zenon DEF Put
  <2>2. C = [S1 EXCEPT !.server[s].zrefs = @ + 1]
    BY Zenon
  <2> HIDE DEF S1, C
  <2>3. C = [S1 EXCEPT !.server = [S1.server EXCEPT ![s] = [S1.server[s] EXCEPT !.zrefs = S1.server[s].zrefs + 1]]]
    BY <2>2, Zenon
  <2>4. S1.server[s] = v1
    <3> HIDE DEF v1
    <3>1. Replaced(S, S1, s, v1)
      BY <1>1, <2>1, PutReplaces, Zenon
    <3> QED BY <3>1 DEF Replaced
  <2>5. u = [S1.server[s] EXCEPT !.zrefs = S1.server[s].zrefs + 1]
    <3> HIDE DEF v1
    <3> QED BY <1>6, <2>4
  <2> HIDE DEF u, v1
  <2>6. C = Put(S1, s, u)
    BY <2>3, <2>5, Zenon DEF Put
  <2>7. Put(Put(S, s, v1), s, u) = Put(S, s, u)
    BY <1>1, PutTwice
  <2> QED BY <2>1, <2>6, <2>7
<1> HIDE DEF C, u, v1, w
<1>8. C \in States /\ Replaced(S, C, s, u)
  BY <1>1, <1>5, <1>7, PutReplaces, PutTyped, Zenon
<1>9. C.server[s] = u
  BY <1>8 DEF Replaced
<1>10. u.zrefs = 2 + k /\ u.refs = 5 + k
  BY <1>1, <1>4, <1>5
<1>11. Offered(S, C, s)
  <2>1. \A t \in Servers \ {s} : C.server[t] = S.server[t]
    BY <1>1, <1>8 DEF Replaced, States
  <2>2. \A t \in Servers : S.server[t].listed => t = s
    BY DEF Sound, Single
  <2>3. C.server[s].listed /\ C.server[s].zrefs = 2 + k /\ C.server[s].refs = 5 + k
    BY <1>4, <1>5, <1>9, <1>10
  <2>4. Joined(C.server[s], C.dso[s], C.connect[s], Holders(S, s))
    BY <1>3, <1>5, <1>8 DEF Joined, Replaced
  <2> QED BY <1>3, <1>8, <2>1, <2>2, <2>3, <2>4 DEF Offered, Replaced
<1>12. ReleaseServer(ReleaseZone(C, s, 1), s, 1) = S
  <2>1. u.zrefs - 1 # 0
    BY <1>1, <1>10
  <2>2. ReleaseZone(C, s, 1) = Put(C, s, w)
    <3> DEFINE C1 == [C EXCEPT !.server[s].zrefs = u.zrefs - 1]
    <3>1. ReleaseZone(C, s, 1) = [C EXCEPT !.server[s].zrefs = u.zrefs - 1, !.server[s].refs = @]
      BY <1>9, <2>1 DEF ReleaseZone
    <3>2. C1 = Put(C, s, w)
      BY <1>9, Zenon DEF Put, w
    <3>3. [C EXCEPT !.server[s].zrefs = u.zrefs - 1, !.server[s].refs = @] = [C1 EXCEPT !.server[s].refs = @]
      BY Zenon
    <3> HIDE DEF C1
    <3>4. [C1 EXCEPT !.server[s].refs = @] = C1
      <4>1. C1 \in States
        BY <1>5, <1>8, <3>2, PutTyped
      <4> QED BY <4>1 DEF States, ServerRecord
    <3> QED BY <3>1, <3>2, <3>3, <3>4
  <2>3. ReleaseServer(Put(C, s, w), s, 1) = Put(C, s, [w EXCEPT !.refs = w.refs - 1])
    BY <1>8, ReleaseServerPuts
  <2>4. Put(C, s, v) = S
    <3>1. Put(Put(S, s, u), s, v) = Put(S, s, v) /\ Put(S, s, S.server[s]) = S
      BY <1>1, PutTwice, PutSame
    <3> QED BY <1>2, <1>7, <3>1
  <2> QED BY <1>5, <2>2, <2>3, <2>4
<1> QED BY <1>11, <1>12 DEF C

\* A server object is made where nothing is left of an earlier one.
LEMMA FreshOffered ==
  ASSUME NEW S, Sound(S), NEW s \in Servers, NEW ok \in BOOLEAN, S.server[s] = NoServer,
         \A t \in Servers : ~S.server[t].listed
  PROVE  /\ Offered(S, ServerCreate(S, s, ok), s)
         /\ ServerCreate(S, s, ok).dso[s].acts = {}
         /\ \A i \in Slots : ServerCreate(S, s, ok).dso[s].out[i] = Free
         /\ ServerCreate(S, s, ok).peer[s] = NoPeer
<1> DEFINE C == ServerCreate(S, s, ok)
           v == [refs |-> 5, listed |-> TRUE, zrefs |-> 2, zlisted |-> TRUE,
                 state |-> IF ok THEN "InProgress" ELSE "ConnectFailed",
                 connection |-> TRUE, connectInfo |-> TRUE]
           d == [NoDSO EXCEPT !.life = "live"]
           c == [NoConnect EXCEPT !.life = "live", !.lookup = ok]
<1>1. S \in States
  BY DEF Sound
<1>2. v \in ServerRecord /\ v.listed = TRUE /\ v.zlisted = TRUE /\ v.connection = TRUE
      /\ v.connectInfo = TRUE /\ v.refs = 5 /\ v.zrefs = 2
  BY DEF ServerRecord
<1>3. /\ d \in DSORecord /\ d.life = "live" /\ d.transport = "none" /\ d.acts = {}
      /\ \A i \in Slots : d.out[i] = Free
  <2>1. PICK e \in DSORecord : /\ e = NoDSO /\ e.transport = "none" /\ e.acts = {}
                               /\ \A i \in Slots : e.out[i] = Free
    BY NoneTyped DEF NoDSO
  <2>2. LET f == [e EXCEPT !.life = "live"]
        IN  /\ f \in DSORecord /\ f.life = "live" /\ f.transport = e.transport /\ f.acts = e.acts
            /\ f.out = e.out
    BY DEF DSORecord, Lives
  <2> QED BY <2>1, <2>2
<1>4. c \in ConnectRecord /\ c.life = "live" /\ c.queue = 0 /\ c.tried = 0
  <2>1. PICK e \in ConnectRecord : e = NoConnect /\ e.queue = 0 /\ e.tried = 0
    BY NoneTyped DEF NoConnect
  <2>2. LET f == [e EXCEPT !.life = "live", !.lookup = ok]
        IN  f \in ConnectRecord /\ f.life = "live" /\ f.queue = e.queue /\ f.tried = e.tried
    BY DEF ConnectRecord, Lives
  <2> QED BY <2>1, <2>2
<1>5. C = [S EXCEPT !.server[s] = v, !.dso[s] = d, !.connect[s] = c]
  BY Zenon DEF ServerCreate
<1> HIDE DEF C, v, d, c
<1>6. /\ C \in States /\ C.q = S.q /\ C.pinned = S.pinned /\ C.bad = S.bad /\ C.peer = S.peer
      /\ C.server = [S.server EXCEPT ![s] = v] /\ C.dso = [S.dso EXCEPT ![s] = d]
      /\ C.connect = [S.connect EXCEPT ![s] = c]
  BY <1>1, <1>2, <1>3, <1>4, <1>5 DEF States
<1>7. /\ C.server[s] = v /\ C.dso[s] = d /\ C.connect[s] = c
      /\ \A t \in Servers \ {s} :
           /\ C.server[t] = S.server[t] /\ C.dso[t] = S.dso[t] /\ C.connect[t] = S.connect[t]
           /\ C.peer[t] = S.peer[t]
  BY <1>1, <1>6 DEF States
<1>8. Holders(S, s) = {} /\ S.peer[s] = NoPeer
  <2>1. /\ Counted(NoServer, S.dso[s], Holders(S, s), 0)
        /\ Joined(NoServer, S.dso[s], S.connect[s], Holders(S, s))
        /\ Quiet(S.dso[s], S.connect[s], S.peer[s]) /\ S.dso[s] \in DSORecord
    BY SoundParts
  <2>2. ~NoServer.listed /\ NoServer.refs = 0
    BY DEF NoServer
  <2>3. S.dso[s].life # "cleanup"
    BY <2>1, <2>2 DEF Counted, B
  <2>4. Holders(S, s) = {} /\ S.dso[s].life = "none"
    BY <2>1, <2>2, <2>3 DEF Joined, DSORecord, Lives
  <2>5. S.dso[s] = NoDSO /\ NoDSO.transport = "none"
    BY <2>1, <2>4 DEF Quiet, NoDSO
  <2> QED BY <2>1, <2>4, <2>5 DEF Quiet
<1>9. Cardinality(Holders(S, s)) = 0
  BY <1>8, EmptyCount
<1>10. Joined(v, d, c, {})
  BY <1>2, <1>3, <1>4 DEF Joined
<1>11. Quiet(d, c, NoPeer)
  BY <1>3, <1>4, PushAssumption DEF Quiet
<1>12. Matched(d.out, NoPeer)
  BY NothingMatches
<1>13. Offered(S, C, s)
  <2>1. C.server[s].listed /\ C.server[s].zrefs = 2 + Cardinality(Holders(S, s))
        /\ C.server[s].refs = 5 + Cardinality(Holders(S, s))
    BY <1>2, <1>7, <1>9
  <2>2. /\ Joined(C.server[s], C.dso[s], C.connect[s], Holders(S, s))
        /\ Quiet(C.dso[s], C.connect[s], C.peer[s]) /\ Matched(C.dso[s].out, C.peer[s])
    BY <1>6, <1>7, <1>8, <1>10, <1>11, <1>12
  <2>3. \A t \in Servers : S.server[t].listed => t = s
    OBVIOUS
  <2> QED BY <1>6, <1>7, <2>1, <2>2, <2>3 DEF Offered
<1> QED BY <1>3, <1>6, <1>7, <1>8, <1>13 DEF C

\* SubscribeToDNSPushServer, with the listed server or with a new one.
LEMMA SubscribeSound ==
  ASSUME NEW S, Sound(S), NEW x \in Questions, NEW s \in Servers, NEW ok \in BOOLEAN,
         S.q[x].on, S.q[x].dup = NoQuestion,
         S.server[s].listed \/ (S.server[s] = NoServer /\ \A t \in Servers : ~S.server[t].listed)
  PROVE  Sound(Subscribe(S, x, s, ok))
<1> DEFINE C == ZoneAndServerCopy(S, s, ok)
           A == Adding(C, s, x)
           M == IF C.server[s].state \in {"Connected", "SessionEstablished"}
                THEN SendSubscribe(A, s, x) ELSE A
           H == Holding(M, s, x)
<1>1. Offered(S, C, s)
  <2>1. CASE S.server[s].listed
    BY <2>1, ListedOffered DEF ZoneAndServerCopy
  <2>2. CASE ~S.server[s].listed
    BY <2>2, FreshOffered DEF ZoneAndServerCopy
  <2> QED BY <2>1, <2>2
<1>2. Subscribe(S, x, s, ok) =
        IF \E y \in C.dso[s].acts : NameOf[y] = NameOf[x]
        THEN StartLLQPolling(ReleaseServer(ReleaseZone(C, s, 1), s, 1), x)
        ELSE IF H.server[s].state \in {"InProgress", "Connected", "SessionEstablished"} THEN H
        ELSE DNSPushServerCancel(H, s)
  BY Zenon DEF Subscribe, Adding, Holding
<1>3. CASE \E y \in C.dso[s].acts : NameOf[y] = NameOf[x]
  <2>1. S.server[s].listed
    <3>1. ASSUME ~S.server[s].listed PROVE FALSE
      <4>1. ServerCreate(S, s, ok).dso[s].acts = {} /\ C = ServerCreate(S, s, ok)
        BY <3>1, FreshOffered DEF ZoneAndServerCopy
      <4> HIDE DEF C
      <4> QED BY <1>3, <4>1
    <3> QED BY <3>1
  <2>2. ReleaseServer(ReleaseZone(C, s, 1), s, 1) = S
    BY <2>1, ListedOffered DEF ZoneAndServerCopy
  <2> HIDE DEF C, H
  <2>3. Sound(StartLLQPolling(S, x))
    BY PollingSound
  <2> QED BY <1>2, <1>3, <2>2, <2>3
<1>4. CASE \A y \in C.dso[s].acts : NameOf[y] # NameOf[x]
  <2> HIDE DEF C
  <2>1. C \in States /\ Matched(C.dso[s].out, C.peer[s]) /\ C.dso[s].acts = Holders(S, s)
    BY <1>1 DEF Offered, Joined
  <2>2. S.q[x].server = 0
    <3>1. ASSUME S.q[x].server # 0 PROVE FALSE
      <4>1. S.q[x].server \in Servers /\ x \in Holders(S, S.q[x].server) /\ S.server[S.q[x].server].listed
        BY <3>1, HolderListed
      <4>2. S.q[x].server = s
        BY <1>1, <4>1 DEF Offered
      <4> QED BY <1>4, <2>1, <4>1, <4>2
    <3> QED BY <3>1
  <2>3. A \in States /\ A.dso[s].out = C.dso[s].out /\ A.peer = C.peer
    BY <2>1, AddingIs
  <2> HIDE DEF A
  <2>4. Sent(A, M, s)
    <3>1. Matched(A.dso[s].out, A.peer[s])
      BY <2>1, <2>3
    <3>2. Sent(A, A, s) /\ Sent(A, SendSubscribe(A, s, x), s)
      BY <2>3, <3>1, SentNothing, SubscribeSent
    <3> QED BY <3>2
  <2> HIDE DEF M
  <2>5. Sound(H)
    BY <1>1, <2>2, <2>4, JoinSound DEF A
  <2> HIDE DEF H
  <2>6. Sound(DNSPushServerCancel(H, s))
    BY <2>5, CancelSound
  <2> QED BY <1>2, <1>4, <2>5, <2>6
<1> HIDE DEF C
<1> QED BY <1>3, <1>4

\* The answer to the search for a push server keeps the invariant: the question
\* polls, or it subscribes at a new or a known server.
LEMMA GotZoneDataSound ==
  ASSUME Sound(Now), NEW x \in Questions, GotZoneData(x)
  PROVE  Sound(Now)'
<1> DEFINE G == [Now EXCEPT !.q[x].nta = FALSE]
           S == [G EXCEPT !.q[x].state = "Connecting"]
<1>1. Now \in States /\ q[x].on /\ q[x].nta
  BY NowTyped DEF Sound, GotZoneData
<1>2. PICK r \in QuestionRecord : r = Now.q[x]
  BY <1>1 DEF States
<1>3. r.on /\ r.nta /\ r.dup = NoQuestion
  BY <1>1, <1>2, NowTyped DEF Sound, Asked
<1> DEFINE g == [r EXCEPT !.nta = FALSE]
           h == [g EXCEPT !.state = "Connecting"]
<1>4. /\ g \in QuestionRecord /\ g.on = r.on /\ g.dup = r.dup /\ g.server = r.server /\ g.nta = FALSE
  BY DEF QuestionRecord
<1>5. G = PutQuestion(Now, x, g)
  BY <1>2, Zenon DEF PutQuestion
<1> HIDE DEF g, G
<1>6. /\ h \in QuestionRecord /\ h.on = g.on /\ h.dup = g.dup /\ h.server = g.server /\ h.nta = g.nta
  BY <1>4 DEF QuestionRecord
<1>7. Sound(G) /\ G.q = [Now.q EXCEPT ![x] = g] /\ G.server = Now.server
  <2>1. g.on = Now.q[x].on /\ g.dup = Now.q[x].dup /\ g.server = Now.q[x].server
        /\ (g.nta => g.on /\ g.dup = NoQuestion)
    BY <1>2, <1>4
  <2>2. Sound(PutQuestion(Now, x, g))
    BY <1>4, <2>1, QuestionSound, Zenon
  <2>3. PutQuestion(Now, x, g).q = [Now.q EXCEPT ![x] = g] /\ PutQuestion(Now, x, g).server = Now.server
    BY <1>1 DEF PutQuestion, States
  <2> QED BY <1>5, <2>2, <2>3
<1>8. G.q[x] = g
  BY <1>1, <1>7 DEF States
<1>9. S = PutQuestion(G, x, h)
  BY <1>8, Zenon DEF PutQuestion
<1> HIDE DEF h, S
<1>10. Sound(S) /\ S.q = [G.q EXCEPT ![x] = h] /\ S.server = G.server
  <2>1. h.on = G.q[x].on /\ h.dup = G.q[x].dup /\ h.server = G.q[x].server
        /\ (h.nta => h.on /\ h.dup = NoQuestion)
    BY <1>4, <1>6, <1>8
  <2>2. Sound(PutQuestion(G, x, h))
    BY <1>6, <1>7, <2>1, QuestionSound, Zenon
  <2>3. PutQuestion(G, x, h).q = [G.q EXCEPT ![x] = h] /\ PutQuestion(G, x, h).server = G.server
    BY <1>7 DEF PutQuestion, States, Sound
  <2> QED BY <1>9, <2>2, <2>3
<1>11. S.q[x].on /\ S.q[x].dup = NoQuestion
  <2>1. S.q[x] = h
    BY <1>7, <1>10 DEF Sound, States
  <2> QED BY <1>3, <1>4, <1>6, <2>1
<1>12. CASE Become(StartLLQPolling(G, x))
  <2>1. Sound(StartLLQPolling(G, x))
    BY <1>7, PollingSound
  <2> QED BY <1>12, <2>1, BecomeIs DEF Sound
<1>13. ASSUME NEW s \in (IF Listed # {} THEN Listed ELSE Fresh), NEW ok \in BOOLEAN,
              Become(Subscribe(S, x, s, ok))
       PROVE  Sound(Now)'
  <2>1. S.server = server
    BY <1>7, <1>10, NowTyped
  <2>2. s \in Servers
    BY DEF Listed, Fresh
  <2>3. S.server[s].listed \/ (S.server[s] = NoServer /\ \A t \in Servers : ~S.server[t].listed)
    BY <2>1 DEF Listed, Fresh
  <2>4. Sound(Subscribe(S, x, s, ok))
    BY <1>10, <1>11, <2>2, <2>3, SubscribeSound
  <2> QED BY <1>13, <2>4, BecomeIs DEF Sound
<1> QED BY <1>12, <1>13 DEF GotZoneData, G, S

-----------------------------------------------------------------------------
(* dso_idle.                                                               *)

\* dso_idle finalizes the dso_state_t of a set of servers one after the other.
FreeOp(s, R, p) == FinalizeDSO(R, s)
Freed(S, t) == [S EXCEPT !.server = [s \in Servers |-> IF s \in t THEN NoServer ELSE S.server[s]]]
FreeInv(t, R, p) == R = Freed(p, t)
Frees == INSTANCE FoldInduction WITH Op <- FreeOp, P <- FreeInv

\* The servers can be counted.
LEMMA ServersFinite == IsFiniteSet(Servers)
  BY PushAssumption, FS_Interval DEF Servers

\* A server that only its dso_state_t refers to goes with it.
LEMMA FinalizeFrees ==
  ASSUME NEW R \in States, NEW s \in Servers, R.server[s].refs = 1
  PROVE  FinalizeDSO(R, s) = [R EXCEPT !.server = [R.server EXCEPT ![s] = NoServer]]
<1> DEFINE w == [R.server[s] EXCEPT !.refs = R.server[s].refs - 1]
           T == ReleaseServer(R, s, 1)
<1>1. T = Put(R, s, w)
  <2>1. T = [R EXCEPT !.server = [R.server EXCEPT ![s] = [R.server[s] EXCEPT !.refs = R.server[s].refs - 1]]]
    BY Zenon DEF ReleaseServer
  <2> QED BY <2>1, Zenon DEF Put
<1>2. w.refs = 0
  <2>1. R.server[s] \in ServerRecord
    BY DEF States
  <2> QED BY <2>1 DEF ServerRecord
<1> HIDE DEF w
<1>3. Replaced(R, Put(R, s, w), s, w)
  BY PutReplaces
<1>4. T.server[s].refs = 0
  BY <1>1, <1>2, <1>3 DEF Replaced
<1>5. FinalizeDSO(R, s) = [T EXCEPT !.server[s] = NoServer]
  BY <1>4 DEF FinalizeDSO
<1> HIDE DEF T
<1>6. FinalizeDSO(R, s) = Put(T, s, NoServer)
  BY <1>5, Zenon DEF Put
<1>7. Put(Put(R, s, w), s, NoServer) = Put(R, s, NoServer)
  BY PutTwice
<1> QED BY <1>1, <1>6, <1>7 DEF Put

\* When each of them is the last to refer to its server, the servers are freed.
LEMMA FinalizeAll ==
  ASSUME NEW F \in States, NEW D \in SUBSET Servers, \A s \in D : F.server[s].refs = 1
  PROVE  ForEach(FinalizeDSO, F, D) = Freed(F, D)
<1>1. FreeInv({}, F, F)
  BY DEF FreeInv, Freed, States
<1>2. ASSUME NEW t \in SUBSET D, NEW R, NEW s \in t, FreeInv(t \ {s}, R, F)
      PROVE  FreeInv(t, FreeOp(s, R, F), F)
  <2>1. R = Freed(F, t \ {s}) /\ s \in Servers
    BY <1>2 DEF FreeInv
  <2>2. \A z \in Servers : F.server[z] \in ServerRecord
    BY DEF States
  <2>3. /\ R \in States /\ R.server[s] = F.server[s]
        /\ R.server = [z \in Servers |-> IF z \in t \ {s} THEN NoServer ELSE F.server[z]]
    BY <2>1, <2>2, NoneTyped DEF Freed, States
  <2>4. R.server[s].refs = 1
    BY <1>2, <2>3
  <2>5. FinalizeDSO(R, s) = [R EXCEPT !.server = [R.server EXCEPT ![s] = NoServer]]
    BY <2>1, <2>3, <2>4, FinalizeFrees
  <2>6. [R.server EXCEPT ![s] = NoServer] = [z \in Servers |-> IF z \in t THEN NoServer ELSE F.server[z]]
    BY <1>2, <2>1, <2>3
  <2>7. FinalizeDSO(R, s) = Freed(F, t)
    <3> DEFINE f == [z \in Servers |-> IF z \in t THEN NoServer ELSE F.server[z]]
               g == [z \in Servers |-> IF z \in t \ {s} THEN NoServer ELSE F.server[z]]
    <3>1. R = [F EXCEPT !.server = g] /\ FinalizeDSO(R, s) = [R EXCEPT !.server = f]
      BY <2>1, <2>5, <2>6 DEF Freed
    <3> HIDE DEF f, g
    <3>2. [[F EXCEPT !.server = g] EXCEPT !.server = f] = [F EXCEPT !.server = f]
      BY DEF States
    <3>3. FinalizeDSO(R, s) = [F EXCEPT !.server = f]
      BY <3>1, <3>2
    <3> QED BY <3>3 DEF Freed, f
  <2> QED BY <2>7 DEF FreeInv, FreeOp
<1>3. Frees!IsFiniteSet(D)
  <2>1. IsFiniteSet(D)
    BY ServersFinite, FS_Subset
  <2> QED BY <2>1 DEF IsFiniteSet, Frees!IsFiniteSet
<1>4. FreeInv(D, Frees!Fold(D, F, F), F)
  <2>1. \A t \in SUBSET D : \A R : \A x \in t : FreeInv(t \ {x}, R, F) => FreeInv(t, FreeOp(x, R, F), F)
    BY <1>2
  <2> QED BY <1>1, <1>3, <2>1, Frees!FoldPreserves, Zenon
<1>5. Frees!Fold(D, F, F) = ForEach(FinalizeDSO, F, D)
  BY Zenon DEF Frees!Fold, Frees!FoldSet, Frees!MapThenFoldSet, ForEach, FoldSet, MapThenFoldSet, FreeOp
<1> QED BY <1>4, <1>5 DEF FreeInv

\* dso_idle keeps the invariant: what it frees nothing refers to, and what is in
\* use it leaves alone.
Idled(T) ==
  /\ Sound(T) /\ T.q = q /\ T.pinned = pinned /\ T.bad = bad
  /\ \A s \in Servers : /\ T.dso[s].life = "live" <=> dso[s].life = "live"
                        /\ dso[s].life = "live" => T.dso[s] = dso[s] /\ T.peer[s] = peer[s]

\* Such a state is the next one.
LEMMA DSOIdleIs ==
  ASSUME Sound(Now), DSOIdle
  PROVE  \E T : Idled(T) /\ Become(T)
<1> DEFINE D == {s \in Servers : dso[s].life = "cleanup"}
           fd == [s \in Servers |-> IF s \in D THEN NoDSO ELSE dso[s]]
           fc == [s \in Servers |-> IF connect[s].life = "cleanup" THEN NoConnect ELSE connect[s]]
           fp == [s \in Servers |-> IF s \in D THEN NoPeer ELSE peer[s]]
           fs == [s \in Servers |-> IF s \in D THEN NoServer ELSE server[s]]
           F == [Now EXCEPT !.dso = fd, !.connect = fc, !.peer = fp]
           T == Freed(F, D)
<1>1. Now \in States /\ Become(ForEach(FinalizeDSO, F, D))
  BY DEF Sound, DSOIdle
<1>2. ASSUME NEW s \in Servers
      PROVE  /\ server[s] \in ServerRecord /\ dso[s] \in DSORecord
             /\ connect[s] \in ConnectRecord /\ peer[s] \in PeerRecord
             /\ Counted(server[s], dso[s], Holders(Now, s), 0)
             /\ Joined(server[s], dso[s], connect[s], Holders(Now, s))
             /\ Quiet(dso[s], connect[s], peer[s]) /\ Matched(dso[s].out, peer[s])
  BY SoundParts, NowTyped
<1>3. fd \in [Servers -> DSORecord] /\ fc \in [Servers -> ConnectRecord] /\ fp \in [Servers -> PeerRecord]
      /\ fs \in [Servers -> ServerRecord]
  BY <1>2, NoneTyped
<1>4. \A s \in Servers : /\ fd[s] = IF s \in D THEN NoDSO ELSE dso[s]
                         /\ fc[s] = IF connect[s].life = "cleanup" THEN NoConnect ELSE connect[s]
                         /\ fp[s] = IF s \in D THEN NoPeer ELSE peer[s]
                         /\ fs[s] = IF s \in D THEN NoServer ELSE server[s]
  OBVIOUS
<1>5. \A s \in D : s \in Servers /\ dso[s].life = "cleanup"
  OBVIOUS
<1>6. \A s \in Servers \ D : dso[s].life # "cleanup"
  OBVIOUS
<1>7. D \in SUBSET Servers
  OBVIOUS
<1>8. fs = [s \in Servers |-> IF s \in D THEN NoServer ELSE server[s]]
  OBVIOUS
<1> HIDE DEF fd, fc, fp, fs, D
<1>9. F \in States /\ F.server = server /\ F.dso = fd /\ F.connect = fc /\ F.peer = fp
      /\ F.q = q /\ F.pinned = pinned /\ F.bad = bad
  BY <1>1, <1>3, NowTyped DEF States
<1> HIDE DEF F
<1>10. /\ T \in States /\ T.server = fs /\ T.dso = fd /\ T.connect = fc /\ T.peer = fp
       /\ T.q = q /\ T.pinned = pinned /\ T.bad = bad
  BY <1>3, <1>8, <1>9 DEF Freed, States
<1>11. ASSUME NEW s \in D
       PROVE  s \in Servers /\ ~server[s].listed /\ server[s].refs = 1 /\ Holders(Now, s) = {}
              /\ connect[s].life # "live"
  <2>1. s \in Servers /\ dso[s].life = "cleanup"
    BY <1>5
  <2>2. ~server[s].listed /\ Holders(Now, s) = {} /\ connect[s].life # "live"
    BY <1>2, <2>1 DEF Joined
  <2>3. server[s].refs = 1
    BY <1>2, <2>1, <2>2 DEF Counted, B
  <2> QED BY <2>1, <2>2, <2>3
<1>12. ForEach(FinalizeDSO, F, D) = T
  BY <1>7, <1>9, <1>11, FinalizeAll
<1> HIDE DEF T
<1>13. \A s \in Servers : Holders(T, s) = Holders(Now, s)
  BY <1>10, NowTyped DEF Holders
<1>14. ASSUME NEW s \in Servers PROVE Quiet(T.dso[s], fc[s], T.peer[s]) /\ (fc[s].life = "live" <=> connect[s].life = "live")
  <2>1. Quiet(dso[s], fc[s], peer[s]) /\ (fc[s].life = "live" <=> connect[s].life = "live")
    <3>1. CASE connect[s].life = "cleanup"
      <4>1. fc[s] = NoConnect
        BY <1>4, <3>1
      <4> QED BY <1>2, <3>1, <4>1, PushAssumption DEF Quiet, NoConnect
    <3>2. CASE connect[s].life # "cleanup"
      BY <1>2, <1>4, <3>2
    <3> QED BY <3>1, <3>2
  <2>2. CASE s \in D
    <3>1. T.dso[s] = NoDSO /\ T.peer[s] = NoPeer
      BY <1>4, <1>10, <2>2
    <3> QED BY <2>1, <3>1 DEF Quiet
  <2>3. CASE s \notin D
    BY <1>4, <1>10, <2>1, <2>3
  <2> QED BY <2>1, <2>2, <2>3
<1>15. ASSUME NEW s \in Servers PROVE At(T, s, 0)
  <2>1. CASE s \in D
    <3>1. T.server[s] = NoServer /\ T.dso[s] = NoDSO /\ T.peer[s] = NoPeer /\ T.connect[s] = fc[s]
          /\ Holders(T, s) = {} /\ fc[s].life # "live"
      BY <1>4, <1>10, <1>11, <1>13, <1>14, <2>1
    <3>2. Counted(NoServer, NoDSO, {}, 0)
      BY DEF Counted, NoServer, NoDSO, B
    <3>3. Joined(NoServer, NoDSO, fc[s], {})
      BY <3>1 DEF Joined, NoServer, NoDSO
    <3>4. Matched(NoDSO.out, NoPeer)
      BY NothingMatches
    <3> QED BY <1>14, <3>1, <3>2, <3>3, <3>4 DEF At, Whole
  <2>2. CASE s \notin D
    <3>1. T.server[s] = server[s] /\ T.dso[s] = dso[s] /\ T.peer[s] = peer[s] /\ T.connect[s] = fc[s]
          /\ Holders(T, s) = Holders(Now, s)
      BY <1>4, <1>10, <1>13, <2>2
    <3>2. Joined(server[s], dso[s], fc[s], Holders(Now, s))
      BY <1>2, <1>14 DEF Joined
    <3> QED BY <1>2, <1>14, <3>1, <3>2 DEF At, Whole
  <2> QED BY <2>1, <2>2
<1>16. Single(T)
  <2>1. \A s \in Servers : T.server[s].listed => server[s].listed
    BY <1>4, <1>10 DEF NoServer
  <2> QED BY <2>1, NowTyped DEF Sound, Single
<1>17. Asked(T) /\ Backed(T)
  BY <1>10, NowTyped DEF Asked, Backed, Sound
<1>18. Sound(T)
  BY <1>10, <1>15, <1>16, <1>17 DEF Sound
<1>19. \A s \in Servers : /\ T.dso[s].life = "live" <=> dso[s].life = "live"
                          /\ dso[s].life = "live" => T.dso[s] = dso[s] /\ T.peer[s] = peer[s]
  <2> TAKE s \in Servers
  <2>1. CASE s \in D
    <3>1. T.dso[s] = NoDSO /\ dso[s].life = "cleanup"
      BY <1>4, <1>5, <1>10, <2>1
    <3> QED BY <3>1 DEF NoDSO
  <2>2. CASE s \notin D
    <3>1. T.dso[s] = dso[s] /\ T.peer[s] = peer[s]
      BY <1>4, <1>10, <2>2
    <3> QED BY <3>1
  <2> QED BY <2>1, <2>2
<1>20. Become(T)
  BY <1>1, <1>12, Zenon
<1>21. Idled(T)
  BY <1>10, <1>18, <1>19 DEF Idled
<1> QED BY <1>20, <1>21, Zenon

\* So it keeps the invariant.
LEMMA DSOIdleSound ==
  ASSUME Sound(Now), DSOIdle
  PROVE  Sound(Now)'
<1>1. PICK T : Idled(T) /\ Become(T)
  BY DSOIdleIs, Zenon
<1> QED BY <1>1, BecomeIs DEF Idled, Sound

-----------------------------------------------------------------------------
(* A new DNS configuration.                                                *)

\* The loops of a change of configuration: questions are stopped, started again, and
\* servers nobody held are cancelled.
StopOp(x, R, p) == Stop(R, x)
StopInv(t, R, p) ==
  Sound(R) /\ \A z \in Questions : R.q[z].on => p.q[z].on /\ z \notin t
Stops == INSTANCE FoldInduction WITH Op <- StopOp, P <- StopInv

StartOp(x, R, p) == Start(R, x)
StartInv(t, R, p) ==
  Sound(R) /\ \A z \in Questions \ t : R.q[z].on => p.q[z].on
Starts == INSTANCE FoldInduction WITH Op <- StartOp, P <- StartInv

CancelOp(s, R, p) == DNSPushServerCancel(R, s)
CancelInv(t, R, p) == Sound(R)
Cancels == INSTANCE FoldInduction WITH Op <- CancelOp, P <- CancelInv

\* Questions are stopped one after the other, and none is started by that.
LEMMA StopAll ==
  ASSUME NEW S, Sound(S), NEW X \in SUBSET Questions
  PROVE  LET T == ForEach(Stop, S, X)
         IN  Sound(T) /\ \A z \in Questions : T.q[z].on => S.q[z].on /\ z \notin X
<1>1. StopInv({}, S, S)
  BY DEF StopInv
<1>2. ASSUME NEW t \in SUBSET X, NEW R, NEW x \in t, StopInv(t \ {x}, R, S)
      PROVE  StopInv(t, StopOp(x, R, S), S)
  <2> DEFINE T == Stop(R, x)
  <2>1. Sound(R) /\ x \in Questions /\ \A z \in Questions : R.q[z].on => S.q[z].on /\ z \notin t \ {x}
    BY <1>2 DEF StopInv
  <2>2. Sound(T) /\ StoppedIn(R, T, x)
    BY <2>1, StopSound
  <2> HIDE DEF T
  <2>3. R.q \in [Questions -> QuestionRecord]
    BY <2>1 DEF Sound, States
  <2>4. ASSUME NEW z \in Questions PROVE T.q[z].on => R.q[z].on /\ z # x
    <3>1. CASE z = x
      BY <2>2, <3>1 DEF StoppedIn, Stopped
    <3>2. CASE z # x /\ \A y \in Questions : R.q[y].dup # x
      BY <2>2, <2>3, <3>2 DEF StoppedIn
    <3>3. CASE z # x /\ \E y \in Questions : R.q[y].dup = x
      <4>1. PICK y \in Questions :
               /\ R.q[y].dup = x
               /\ T.q = [k \in Questions |->
                           IF k = x THEN Stopped
                           ELSE IF k = y THEN [R.q[x] EXCEPT !.dup = NoQuestion]
                           ELSE IF R.q[k].dup = x THEN [R.q[k] EXCEPT !.dup = y] ELSE R.q[k]]
        BY <2>2, <3>3 DEF StoppedIn
      <4>2. CASE z = y
        <5>1. R.q[y].dup # NoQuestion
          BY <2>1, <4>1, PushAssumption DEF NoQuestion
        <5> QED BY <2>1, <3>3, <4>2, <5>1 DEF Sound, Asked
      <4>3. CASE z # y
        BY <2>3, <3>3, <4>1, <4>3 DEF QuestionRecord
      <4> QED BY <4>2, <4>3
    <3> QED BY <3>1, <3>2, <3>3
  <2> QED BY <2>1, <2>2, <2>4 DEF StopInv, StopOp, T
<1>3. Stops!IsFiniteSet(X)
  <2>1. IsFiniteSet(X)
    BY PushAssumption, FS_Subset
  <2> QED BY <2>1 DEF IsFiniteSet, Stops!IsFiniteSet
<1>4. StopInv(X, Stops!Fold(X, S, S), S)
  <2>1. \A t \in SUBSET X : \A R : \A x \in t : StopInv(t \ {x}, R, S) => StopInv(t, StopOp(x, R, S), S)
    BY <1>2
  <2> QED BY <1>1, <1>3, <2>1, Stops!FoldPreserves, Zenon
<1>5. Stops!Fold(X, S, S) = ForEach(Stop, S, X)
  BY Zenon DEF Stops!Fold, Stops!FoldSet, Stops!MapThenFoldSet, ForEach, FoldSet, MapThenFoldSet, StopOp
<1> QED BY <1>4, <1>5 DEF StopInv

\* Questions that are stopped are started one after the other, and no other one is.
LEMMA StartAll ==
  ASSUME NEW S, Sound(S), NEW X \in SUBSET Questions, \A x \in X : ~S.q[x].on
  PROVE  LET T == ForEach(Start, S, X)
         IN  Sound(T) /\ \A z \in Questions \ X : T.q[z].on => S.q[z].on
<1>1. StartInv({}, S, S)
  BY DEF StartInv
<1>2. ASSUME NEW t \in SUBSET X, NEW R, NEW x \in t, StartInv(t \ {x}, R, S)
      PROVE  StartInv(t, StartOp(x, R, S), S)
  <2> DEFINE T == Start(R, x)
  <2>1. Sound(R) /\ x \in Questions /\ \A z \in Questions \ (t \ {x}) : R.q[z].on => S.q[z].on
    BY <1>2 DEF StartInv
  <2>2. ~R.q[x].on
    BY <1>2, <2>1
  <2>3. Sound(T) /\ StartedIn(R, T, x)
    BY <2>1, <2>2, StartSound
  <2> HIDE DEF T
  <2>4. \A z \in Questions \ {x} : T.q[z] = R.q[z]
    BY <2>1, <2>3 DEF StartedIn, Sound, States
  <2> QED BY <1>2, <2>1, <2>3, <2>4 DEF StartInv, StartOp, T
<1>3. Starts!IsFiniteSet(X)
  <2>1. IsFiniteSet(X)
    BY PushAssumption, FS_Subset
  <2> QED BY <2>1 DEF IsFiniteSet, Starts!IsFiniteSet
<1>4. StartInv(X, Starts!Fold(X, S, S), S)
  <2>1. \A t \in SUBSET X : \A R : \A x \in t : StartInv(t \ {x}, R, S) => StartInv(t, StartOp(x, R, S), S)
    BY <1>2
  <2> QED BY <1>1, <1>3, <2>1, Starts!FoldPreserves, Zenon
<1>5. Starts!Fold(X, S, S) = ForEach(Start, S, X)
  BY Zenon DEF Starts!Fold, Starts!FoldSet, Starts!MapThenFoldSet, ForEach, FoldSet, MapThenFoldSet, StartOp
<1> QED BY <1>4, <1>5 DEF StartInv

\* Servers are cancelled one after the other.
LEMMA CancelAll ==
  ASSUME NEW S, Sound(S), NEW X \in SUBSET Servers
  PROVE  Sound(ForEach(DNSPushServerCancel, S, X))
<1>1. CancelInv({}, S, S)
  BY DEF CancelInv
<1>2. ASSUME NEW t \in SUBSET X, NEW R, NEW x \in t, CancelInv(t \ {x}, R, S)
      PROVE  CancelInv(t, CancelOp(x, R, S), S)
  <2>1. x \in Servers /\ Sound(R)
    BY <1>2 DEF CancelInv
  <2> QED BY <2>1, CancelSound DEF CancelInv, CancelOp
<1>3. Cancels!IsFiniteSet(X)
  <2>1. IsFiniteSet(X)
    BY ServersFinite, FS_Subset
  <2> QED BY <2>1 DEF IsFiniteSet, Cancels!IsFiniteSet
<1>4. CancelInv(X, Cancels!Fold(X, S, S), S)
  <2>1. \A t \in SUBSET X : \A R : \A x \in t : CancelInv(t \ {x}, R, S) => CancelInv(t, CancelOp(x, R, S), S)
    BY <1>2
  <2> QED BY <1>1, <1>3, <2>1, Cancels!FoldPreserves, Zenon
<1>5. Cancels!Fold(X, S, S) = ForEach(DNSPushServerCancel, S, X)
  BY Zenon DEF Cancels!Fold, Cancels!FoldSet, Cancels!MapThenFoldSet, ForEach, FoldSet, MapThenFoldSet, CancelOp
<1> QED BY <1>4, <1>5 DEF CancelInv

\* A new DNS configuration keeps the invariant.
LEMMA ReconfigureSound ==
  ASSUME Sound(Now), Reconfigure
  PROVE  Sound(Now)'
<1> DEFINE idle == {s \in Listed : Holders(Now, s) = {}}
           first == {x \in Questions : q[x].on /\ q[x].dup = NoQuestion}
           rest == {x \in Questions : q[x].on /\ q[x].dup # NoQuestion}
           R1 == ForEach(Stop, Now, first)
           R == ForEach(Stop, R1, rest)
           S1 == ForEach(Start, R, first)
           S2 == ForEach(Start, S1, rest)
           T == ForEach(DNSPushServerCancel, S2, idle)
<1>1. Become(T)
  BY DEF Reconfigure
<1>2. first \in SUBSET Questions /\ rest \in SUBSET Questions /\ idle \in SUBSET Servers
      /\ first \cap rest = {}
  BY DEF Listed
<1> HIDE DEF first, rest, idle
<1>3. Sound(R1) /\ \A z \in Questions : R1.q[z].on => z \notin first
  BY <1>2, StopAll
<1> HIDE DEF R1
<1>4. Sound(R) /\ \A z \in Questions : R.q[z].on => R1.q[z].on /\ z \notin rest
  BY <1>2, <1>3, StopAll
<1> HIDE DEF R
<1>5. Sound(S1) /\ \A z \in Questions \ first : S1.q[z].on => R.q[z].on
  <2>1. \A x \in first : ~R.q[x].on
    BY <1>2, <1>3, <1>4
  <2> QED BY <1>2, <1>4, <2>1, StartAll
<1> HIDE DEF S1
<1>6. Sound(S2)
  <2>1. \A x \in rest : ~S1.q[x].on
    BY <1>2, <1>4, <1>5
  <2> QED BY <1>2, <1>5, <2>1, StartAll
<1> HIDE DEF S2
<1>7. Sound(T)
  BY <1>2, <1>6, CancelAll
<1> HIDE DEF T
<1> QED BY <1>1, <1>7, BecomeIs DEF Sound

-----------------------------------------------------------------------------
(* Every step keeps the invariant, and the invariant gives the properties.  *)

\* Sound is inductive: a step of Next, and a step that leaves the variables
\* alone, takes a sound state to a sound one.
LEMMA StepSound == Sound(Now) /\ [Next]_vars => Sound(Now)'
<1> SUFFICES ASSUME Sound(Now), [Next]_vars
             PROVE  Sound(Now)'
  OBVIOUS
<1>1. ASSUME NEW x \in Questions, StartQuery(x)
      PROVE  Sound(Now)'
  BY <1>1, StartQuerySound
<1>2. ASSUME NEW x \in Questions, StopQuery(x)
      PROVE  Sound(Now)'
  BY <1>2, StopQuerySound
<1>3. ASSUME NEW x \in Questions, Timers(x)
      PROVE  Sound(Now)'
  BY <1>3, HandleLLQStateSound, GotZoneDataSound DEF Timers
<1>4. CASE Wake
  BY <1>4, WakeSound
<1>5. CASE Reconfigure
  BY <1>5, ReconfigureSound
<1>6. CASE DSOIdle
  BY <1>6, DSOIdleSound
<1>7. ASSUME NEW s \in Servers, Connecting(s)
      PROVE  Sound(Now)'
  BY <1>7, AddressCallbackSound, GivesUpSound, ConnectionWaitingSound, ConnectionFailedSound,
     ConnectionReadySound DEF Connecting
<1>8. ASSUME NEW s \in Servers, Session(s)
      PROVE  Sound(Now)'
  BY <1>8, ReceiveSound, GivesUpSound DEF Session
<1>9. ASSUME NEW s \in Servers, Remote(s)
      PROVE  Sound(Now)'
  BY <1>9, PeerReceiveSound, PeerClosesSound, PeerUpdateSound DEF Remote
<1>10. CASE UNCHANGED vars
  <2>1. Now' = Now
    BY <1>10 DEF vars, Now
  <2> QED BY <2>1
<1> QED BY <1>1, <1>2, <1>3, <1>4, <1>5, <1>6, <1>7, <1>8, <1>9, <1>10 DEF Next

\* In every reachable state the variables have their types: no reference count
\* of a push server or of its zone is ever below zero, at most
\* max_outstanding_queries responses are due, and each of them answers a query
\* still in the table of the dso_state_t.
THEOREM TypeCorrect == Spec => []TypeOK
<1>1. Init => Sound(Now)
  BY InitSound
<1>2. Sound(Now) /\ [Next]_vars => Sound(Now)'
  BY StepSound
<1>3. Sound(Now) => TypeOK
  BY SoundTyped
<1> QED BY <1>1, <1>2, <1>3, PTL DEF Spec

\* In every reachable state the references that DNSPushServerCreate,
\* GetConnectionToDNSPushServer, DNSPushServerCancel and UnsubscribeQuestion
\* take and release are the references that exist: of a push server and of its
\* zone, one for each holder and no other.
THEOREM ReferencesAreCounted == Spec => []ReferencesCounted
<1>1. Init => Sound(Now)
  BY InitSound
<1>2. Sound(Now) /\ [Next]_vars => Sound(Now)'
  BY StepSound
<1>3. Sound(Now) => ReferencesCounted
  BY SoundCounted
<1> QED BY <1>1, <1>2, <1>3, PTL DEF Spec

\* In every reachable state a record that a PUSH message made permanent in the
\* cache belongs to a running question that is subscribed, at a push server
\* still listed and with a session that has not been given up: nothing pushed
\* outlives the subscription that could withdraw it.
THEOREM PushedRecordsAreBacked == Spec => []PushedRecordsBacked
<1>1. Init => Sound(Now)
  BY InitSound
<1>2. Sound(Now) /\ [Next]_vars => Sound(Now)'
  BY StepSound
<1>3. Sound(Now) => PushedRecordsBacked
  BY SoundBacked
<1> QED BY <1>1, <1>2, <1>3, PTL DEF Spec
=============================================================================
