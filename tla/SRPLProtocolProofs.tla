------------------------- MODULE SRPLProtocolProofs -------------------------
(***************************************************************************)
(* The conversation of a replication session (SRPLSync): every message     *)
(* arrives in a state that takes it, every request finds the outstanding   *)
(* query slot free, and every acknowledgement finds the update it answers. *)
(* The inductive invariant says for each end what may be in the stream to  *)
(* it, and for a session that is up on both ends where the two are in the  *)
(* exchange of candidates or in the ready phase.                           *)
(* The second part adds what each end has in progress for the other, and   *)
(* shows that the update queues of an unbroken session drain.              *)
(***************************************************************************)
EXTENDS SRPLSyncProofs

-----------------------------------------------------------------------------
(* Streams.                                                                *)

\* What a message is, as far as the conversation goes.
Kind(m) == IF m.type = "candidate_response" /\ m.answer = "yes" THEN "accepted" ELSE m.type

\* Messages that every state takes.
Noise == {"retry_delay", "unmatched_response"}

\* What is in stream q besides noise: nothing; one message, of kind k; two, of kinds
\* k and l in this order.
Silent(q) == \A i \in DOMAIN q : Kind(q[i]) \in Noise
Carries(q, k) ==
    \E i \in DOMAIN q :
        Kind(q[i]) = k /\ \A n \in DOMAIN q : n # i => Kind(q[n]) \in Noise
CarriesTwo(q, k, l) ==
    \E i, j \in DOMAIN q :
        /\ i < j /\ Kind(q[i]) = k /\ Kind(q[j]) = l
        /\ \A n \in DOMAIN q : n # i /\ n # j => Kind(q[n]) \in Noise

Has(q, k) == \E i \in DOMAIN q : Kind(q[i]) = k

\* The stream to an end in the ready phase: at most one update from the peer and at
\* most one acknowledgement.
ReadyStream(q) ==
    /\ \A i \in DOMAIN q : Kind(q[i]) \in Noise \cup {"host", "host_response"}
    /\ \A i, j \in DOMAIN q : Kind(q[i]) = Kind(q[j]) /\ Kind(q[i]) \notin Noise => i = j

-----------------------------------------------------------------------------
(* The states of an end.                                                   *)

Down == {"none", "idle"}
Closing == {"disconnect", "disconnect_wait"}

\* The end that asks for candidates waits for the next one, or has a host of the peer.
Awaiting == {"send_candidates_wait", "candidate_host_wait"}
Applying ==
    {"candidate_host_prepare", "candidate_host_contention_wait", "candidate_host_re_evaluate",
     "candidate_host_apply", "candidate_host_apply_wait"}

\* The end that was asked, between two requests of its own.
Offering ==
    {"send_candidates_received", "send_candidates_remaining_check", "next_candidate_send",
     "send_candidates_response_send"}
Answering == Offering \cup {"candidate_host_send", "next_candidate_send_wait",
                            "candidate_host_response_wait"}

ReadyStates ==
    {"ready", "stashed_host_check", "stashed_host_apply", "stashed_host_finished",
     "srp_client_update_send", "srp_client_ack_evaluate"}

-----------------------------------------------------------------------------
(* What holds at one end, whatever became of the other.                    *)

\* The slot for a query is free when the next one is sent; a request that is being
\* served has not been answered; the accepting end has answered "send candidates" before
\* it asks in its turn.
SlotOK(e, c) ==
    /\ c.state \in Offering \cup {"candidate_host_send", "send_candidates_send",
                                  "send_candidates_message_wait"} => ~c.outstanding
    /\ c.state \in Answering \cup Applying \cup {"candidate_check"} => ~c.answered
    /\ e = "sv" /\ c.state \in Awaiting \cup {"send_candidates_send"} => c.answered
    /\ c.state \in ReadyStates /\ c.outstanding => c.queue # <<>> /\ Head(c.queue).sent
    /\ c.state = "srp_client_update_send" => ~Head(c.queue).sent
    /\ c.state = "srp_client_ack_evaluate" =>
         ~c.outstanding /\ c.queue # <<>> /\ Head(c.queue).sent

\* The stream q to end e holds nothing but what the state of its connection c takes.
StreamOK(e, c, q) ==
    /\ c.state \in Down => q = <<>>
    /\ c.state \in Offering \cup Applying
                   \cup {"candidate_check", "send_candidates_send", "candidate_host_send"}
         => Silent(q)
    /\ c.state = "send_candidates_message_wait" => Silent(q) \/ Carries(q, "send_candidates")
    /\ c.state = "next_candidate_send_wait"
         => Silent(q) \/ Carries(q, "candidate_response") \/ Carries(q, "accepted")
    /\ c.state = "candidate_host_response_wait" => Silent(q) \/ Carries(q, "host_response")
    /\ c.state \in Awaiting =>
         \/ Silent(q) \/ Carries(q, "candidate") \/ Carries(q, "send_candidates_response")
         \/ c.state = "candidate_host_wait" /\ Carries(q, "host")
         \/ e = "cl" /\ CarriesTwo(q, "send_candidates_response", "send_candidates")
         \/ e = "sv" /\ CarriesTwo(q, "send_candidates_response", "host")
    /\ c.state \in ReadyStates => ReadyStream(q) /\ (Has(q, "host_response") => c.outstanding)

-----------------------------------------------------------------------------
(* Where the two ends are, while both are up.  The connections are c and d *)
(* and the streams to them x and y.                                        *)

\* The end of c asks for the candidates of the end of d.
Asking(c, d, x, y) ==
    LET s == c.state
        t == d.state
    IN  \/ /\ Silent(x) /\ Silent(y)
           /\ \/ s = "send_candidates_send" /\ t = "send_candidates_message_wait"
              \/ s \in Awaiting /\ t \in Offering
              \/ s = "candidate_host_wait" /\ t = "candidate_host_send"
              \/ s = "candidate_check" /\ t = "next_candidate_send_wait"
              \/ s \in Applying /\ t = "candidate_host_response_wait"
        \/ /\ Silent(x)
           /\ \/ /\ s = "send_candidates_wait" /\ t = "send_candidates_message_wait"
                 /\ Carries(y, "send_candidates")
              \/ /\ s = "send_candidates_wait" /\ t = "next_candidate_send_wait"
                 /\ Carries(y, "candidate_response")
              \/ /\ s = "candidate_host_wait" /\ t = "next_candidate_send_wait"
                 /\ Carries(y, "accepted")
              \/ /\ s = "send_candidates_wait" /\ t = "candidate_host_response_wait"
                 /\ Carries(y, "host_response")
        \/ /\ Silent(y)
           /\ \/ s \in Awaiting /\ t = "next_candidate_send_wait" /\ Carries(x, "candidate")
              \/ /\ s = "candidate_host_wait" /\ t = "candidate_host_response_wait"
                 /\ Carries(x, "host")

\* The accepting end, of d, has told that its candidates are through, and asks in its
\* turn.
Turning(c, d, x, y) ==
    /\ c.state \in Awaiting /\ Silent(y)
    /\ \/ d.state = "send_candidates_send" /\ Carries(x, "send_candidates_response")
       \/ /\ d.state = "send_candidates_wait"
          /\ CarriesTwo(x, "send_candidates_response", "send_candidates")

\* The connecting end, of c, has told that its candidates are through, and is ready.
Finishing(c, d, x, y) ==
    /\ c.state \in ReadyStates /\ c.answered /\ Silent(x)
    /\ d.state \in Awaiting
    /\ c.outstanding => CarriesTwo(y, "send_candidates_response", "host")
    /\ ~c.outstanding => Carries(y, "send_candidates_response")

\* An update of the end of c is in flight, is being applied or is acknowledged; one of
\* them, if that end has an outstanding query, and none otherwise.
Flow(c, d, x, y) ==
    /\ ~(Has(y, "host") /\ Has(x, "host_response"))
    /\ ~d.answered => ~Has(y, "host") /\ ~Has(x, "host_response")
    /\ c.outstanding => Has(y, "host") \/ ~d.answered \/ Has(x, "host_response")
    /\ ~c.outstanding => ~Has(y, "host") /\ d.answered /\ ~Has(x, "host_response")

Ready(c, d, x, y) ==
    /\ c.state \in ReadyStates /\ d.state \in ReadyStates
    /\ ReadyStream(x) /\ ReadyStream(y)
    /\ Flow(c, d, x, y) /\ Flow(d, c, y, x)

\* The session as end e, of c, sees it.
Together(e, c, d, x, y) ==
    \/ Asking(c, d, x, y) \/ Asking(d, c, y, x) \/ Ready(c, d, x, y)
    \/ e = "cl" /\ (Turning(c, d, x, y) \/ Finishing(c, d, x, y))
    \/ e = "sv" /\ (Turning(d, c, y, x) \/ Finishing(d, c, y, x))

\* The same with what holds when the connection is lost or an end is closing; k: is
\* the connection up?
View(e, k, c, d, x, y) ==
    /\ SlotOK(e, c) /\ SlotOK(Peer(e), d)
    /\ StreamOK(e, c, x) /\ StreamOK(Peer(e), d, y)
    /\ k => c.state \notin Down /\ d.state \notin Down
    /\ k /\ c.state \notin Closing /\ d.state \notin Closing => Together(e, c, d, x, y)

\* The inductive invariant.
Conversation == \A e \in E : View(e, link, conn[e], conn[Peer(e)], net[e], net[Peer(e)])

-----------------------------------------------------------------------------
(* What sending and receiving do to a stream.                              *)

Stream == Seq(MessageType)

\* Stream r carries what stream q carries.
Alike(q, r) ==
    /\ Silent(q) => Silent(r)
    /\ \A k : k \notin Noise /\ Carries(q, k) => Carries(r, k)
    /\ \A k, l : k \notin Noise /\ l \notin Noise /\ CarriesTwo(q, k, l) => CarriesTwo(r, k, l)
    /\ \A k : k \notin Noise => (Has(r, k) <=> Has(q, k))
    /\ ReadyStream(q) => ReadyStream(r)

\* A message that no state minds is sent.
LEMMA AppendNoise ==
    ASSUME NEW q \in Stream, NEW m \in MessageType, Kind(m) \in Noise
    PROVE  Alike(q, Append(q, m))
<1> DEFINE r == Append(q, m)
<1>1. /\ DOMAIN q = 1 .. Len(q) /\ Len(q) \in Nat /\ DOMAIN r = 1 .. (Len(q) + 1)
      /\ \A i \in 1 .. Len(q) : r[i] = q[i]
      /\ r[Len(q) + 1] = m
  BY DEF Stream
<1> HIDE DEF r
<1>2. DOMAIN r = DOMAIN q \cup {Len(q) + 1} /\ Len(q) + 1 \notin DOMAIN q
      /\ \A i \in DOMAIN q : r[i] = q[i]
  BY <1>1
<1>3. \A i \in DOMAIN q : i \in Int
  BY <1>1
<1>4. Silent(q) => Silent(r)
  BY <1>1, <1>2 DEF Silent
<1>5. ASSUME NEW k PROVE Carries(q, k) => Carries(r, k)
  BY <1>1, <1>2 DEF Carries
<1>6. ASSUME NEW k, NEW l PROVE CarriesTwo(q, k, l) => CarriesTwo(r, k, l)
  BY <1>1, <1>2 DEF CarriesTwo
<1>7. ASSUME NEW k, k \notin Noise PROVE Has(r, k) <=> Has(q, k)
  BY <1>1, <1>2, <1>7 DEF Has
<1>8. ReadyStream(q) => ReadyStream(r)
  BY <1>1, <1>2 DEF ReadyStream
<1> QED BY <1>4, <1>5, <1>6, <1>7, <1>8 DEF r, Alike

\* A message of the conversation is sent.
LEMMA AppendCore ==
    ASSUME NEW q \in Stream, NEW m \in MessageType, Kind(m) \notin Noise
    PROVE  LET r == Append(q, m)
           IN  /\ Silent(q) => Carries(r, Kind(m))
               /\ \A k : Carries(q, k) => CarriesTwo(r, k, Kind(m))
               /\ \A k : Has(r, k) <=> Has(q, k) \/ k = Kind(m)
               /\ ReadyStream(q) /\ ~Has(q, Kind(m)) /\ Kind(m) \in {"host", "host_response"}
                     => ReadyStream(r)
<1> DEFINE r == Append(q, m)
<1>1. /\ DOMAIN q = 1 .. Len(q) /\ Len(q) \in Nat /\ DOMAIN r = 1 .. (Len(q) + 1)
      /\ \A i \in 1 .. Len(q) : r[i] = q[i]
      /\ r[Len(q) + 1] = m
  BY DEF Stream
<1> HIDE DEF r
<1>2. DOMAIN r = DOMAIN q \cup {Len(q) + 1} /\ Len(q) + 1 \notin DOMAIN q
      /\ \A i \in DOMAIN q : r[i] = q[i]
  BY <1>1
<1>3. \A i \in DOMAIN q : i < Len(q) + 1
  BY <1>1
<1>4. Silent(q) => Carries(r, Kind(m))
  BY <1>1, <1>2 DEF Silent, Carries
<1>5. ASSUME NEW k PROVE Carries(q, k) => CarriesTwo(r, k, Kind(m))
  <2>1. SUFFICES ASSUME Carries(q, k) PROVE CarriesTwo(r, k, Kind(m))
    OBVIOUS
  <2>2. PICK i \in DOMAIN q : Kind(q[i]) = k /\ \A n \in DOMAIN q : n # i => Kind(q[n]) \in Noise
    BY <2>1 DEF Carries
  <2>3. i \in DOMAIN r /\ Len(q) + 1 \in DOMAIN r /\ i < Len(q) + 1 /\ Kind(r[i]) = k
        /\ Kind(r[Len(q) + 1]) = Kind(m)
    BY <1>1, <1>2, <1>3, <2>2
  <2>4. \A n \in DOMAIN r : n # i /\ n # Len(q) + 1 => Kind(r[n]) \in Noise
    BY <1>2, <2>2
  <2> QED BY <2>3, <2>4 DEF CarriesTwo
<1>6. ASSUME NEW k PROVE Has(r, k) <=> Has(q, k) \/ k = Kind(m)
  BY <1>1, <1>2 DEF Has
<1>7. ReadyStream(q) /\ ~Has(q, Kind(m)) /\ Kind(m) \in {"host", "host_response"}
         => ReadyStream(r)
  BY <1>1, <1>2 DEF ReadyStream, Has
<1> QED BY <1>4, <1>5, <1>6, <1>7 DEF r

LEMMA TailIs ==
    ASSUME NEW q \in Stream, q # <<>>
    PROVE  /\ Tail(q) \in Stream /\ Head(q) \in MessageType /\ Head(q) = q[1]
           /\ DOMAIN q = 1 .. Len(q) /\ Len(q) \in Nat /\ Len(q) > 0
           /\ DOMAIN Tail(q) = 1 .. (Len(q) - 1)
           /\ \A i \in 1 .. (Len(q) - 1) : Tail(q)[i] = q[i + 1]
  BY DEF Stream

\* A message that no state minds is received.
LEMMA TailNoise ==
    ASSUME NEW q \in Stream, q # <<>>, Kind(Head(q)) \in Noise
    PROVE  Alike(q, Tail(q))
<1> DEFINE r == Tail(q)
<1>1. /\ DOMAIN q = 1 .. Len(q) /\ Len(q) \in Nat /\ Len(q) > 0 /\ DOMAIN r = 1 .. (Len(q) - 1)
      /\ \A i \in 1 .. (Len(q) - 1) : r[i] = q[i + 1]
      /\ Kind(q[1]) \in Noise
  BY TailIs
<1> HIDE DEF r
<1>2. \A i \in DOMAIN r : i + 1 \in DOMAIN q /\ r[i] = q[i + 1] /\ i \in Int
  BY <1>1
<1>3. \A i \in DOMAIN q : i # 1 => i - 1 \in DOMAIN r /\ r[i - 1] = q[i] /\ i \in Int
  BY <1>1
<1>4. Silent(q) => Silent(r)
  BY <1>2 DEF Silent
<1>5. ASSUME NEW k, k \notin Noise, Carries(q, k) PROVE Carries(r, k)
  <2>1. PICK i \in DOMAIN q : Kind(q[i]) = k /\ \A n \in DOMAIN q : n # i => Kind(q[n]) \in Noise
    BY <1>5 DEF Carries
  <2>2. i - 1 \in DOMAIN r /\ Kind(r[i - 1]) = k /\ i \in Int
    BY <1>1, <1>3, <1>5, <2>1
  <2>3. \A n \in DOMAIN r : n # i - 1 => Kind(r[n]) \in Noise
    BY <1>2, <2>1, <2>2
  <2> QED BY <2>2, <2>3 DEF Carries
<1>6. ASSUME NEW k, NEW l, k \notin Noise, l \notin Noise, CarriesTwo(q, k, l)
      PROVE  CarriesTwo(r, k, l)
  <2>1. PICK i \in DOMAIN q, j \in DOMAIN q :
           /\ i < j /\ Kind(q[i]) = k /\ Kind(q[j]) = l
           /\ \A n \in DOMAIN q : n # i /\ n # j => Kind(q[n]) \in Noise
    BY <1>6 DEF CarriesTwo
  <2>2. i - 1 \in DOMAIN r /\ Kind(r[i - 1]) = k /\ i \in Int
    BY <1>1, <1>3, <1>6, <2>1
  <2>3. j - 1 \in DOMAIN r /\ Kind(r[j - 1]) = l /\ j \in Int
    BY <1>1, <1>3, <1>6, <2>1
  <2>4. \A n \in DOMAIN r : n # i - 1 /\ n # j - 1 => Kind(r[n]) \in Noise
    BY <1>2, <2>1, <2>2, <2>3
  <2>5. i - 1 < j - 1
    BY <2>1, <2>2, <2>3
  <2> QED BY <2>2, <2>3, <2>4, <2>5 DEF CarriesTwo
<1>7. ASSUME NEW k, k \notin Noise PROVE Has(r, k) <=> Has(q, k)
  <2>1. Has(r, k) => Has(q, k)
    BY <1>2 DEF Has
  <2>2. Has(q, k) => Has(r, k)
    BY <1>1, <1>3, <1>7 DEF Has
  <2> QED BY <2>1, <2>2
<1>8. ReadyStream(q) => ReadyStream(r)
  BY <1>2 DEF ReadyStream
<1> QED BY <1>4, <1>5, <1>6, <1>7, <1>8 DEF r, Alike

\* A message of the conversation is received.
LEMMA TailCore ==
    ASSUME NEW q \in Stream, q # <<>>, Kind(Head(q)) \notin Noise
    PROVE  LET r == Tail(q)
               h == Kind(Head(q))
           IN  /\ ~Silent(q) /\ Has(q, h)
               /\ \A k : Carries(q, k) => k = h /\ Silent(r)
               /\ \A k, l : CarriesTwo(q, k, l) => k = h /\ Carries(r, l)
               /\ \A k : k # h => (Has(r, k) <=> Has(q, k))
               /\ ReadyStream(q) => /\ ReadyStream(r) /\ ~Has(r, h)
                                    /\ h \in {"host", "host_response"}
<1> DEFINE r == Tail(q)
           h == Kind(Head(q))
<1>1. /\ DOMAIN q = 1 .. Len(q) /\ Len(q) \in Nat /\ Len(q) > 0 /\ DOMAIN r = 1 .. (Len(q) - 1)
      /\ \A i \in 1 .. (Len(q) - 1) : r[i] = q[i + 1]
      /\ Kind(q[1]) = h /\ h \notin Noise /\ 1 \in DOMAIN q
  BY TailIs
<1> HIDE DEF r, h
<1>2. \A i \in DOMAIN r : i + 1 \in DOMAIN q /\ r[i] = q[i + 1] /\ i \in Int /\ i + 1 # 1
  BY <1>1
<1>3. \A i \in DOMAIN q : i # 1 => i - 1 \in DOMAIN r /\ r[i - 1] = q[i] /\ i \in Int /\ 1 < i
  BY <1>1
<1>4. ~Silent(q) /\ Has(q, h)
  BY <1>1 DEF Silent, Has
<1>5. ASSUME NEW k, Carries(q, k) PROVE k = h /\ Silent(r)
  <2>1. PICK i \in DOMAIN q : Kind(q[i]) = k /\ \A n \in DOMAIN q : n # i => Kind(q[n]) \in Noise
    BY <1>5 DEF Carries
  <2>2. i = 1
    BY <1>1, <2>1
  <2> QED BY <1>1, <1>2, <2>1, <2>2 DEF Silent
<1>6. ASSUME NEW k, NEW l, CarriesTwo(q, k, l) PROVE k = h /\ Carries(r, l)
  <2>1. PICK i \in DOMAIN q, j \in DOMAIN q :
           /\ i < j /\ Kind(q[i]) = k /\ Kind(q[j]) = l
           /\ \A n \in DOMAIN q : n # i /\ n # j => Kind(q[n]) \in Noise
    BY <1>6 DEF CarriesTwo
  <2>2. i = 1 /\ j # 1
    BY <1>1, <2>1
  <2>3. j - 1 \in DOMAIN r /\ Kind(r[j - 1]) = l /\ j \in Int
    BY <1>3, <2>1, <2>2
  <2>4. \A n \in DOMAIN r : n # j - 1 => Kind(r[n]) \in Noise
    BY <1>2, <2>1, <2>2, <2>3
  <2> QED BY <1>1, <2>1, <2>2, <2>3, <2>4 DEF Carries
<1>7. ASSUME NEW k, k # h PROVE Has(r, k) <=> Has(q, k)
  <2>1. Has(r, k) => Has(q, k)
    BY <1>2 DEF Has
  <2>2. Has(q, k) => Has(r, k)
    BY <1>1, <1>3, <1>7 DEF Has
  <2> QED BY <2>1, <2>2
<1>8. ASSUME ReadyStream(q) PROVE ReadyStream(r) /\ ~Has(r, h) /\ h \in {"host", "host_response"}
  <2>1. ReadyStream(r)
    BY <1>2, <1>8 DEF ReadyStream
  <2>2. ~Has(r, h)
    BY <1>1, <1>2, <1>8 DEF ReadyStream, Has
  <2>3. h \in {"host", "host_response"}
    BY <1>1, <1>8 DEF ReadyStream
  <2> QED BY <2>1, <2>2, <2>3
<1> QED BY <1>4, <1>5, <1>6, <1>7, <1>8 DEF r, h

\* What a stream carries, it has, and nothing else.
LEMMA StreamFacts ==
    ASSUME NEW q
    PROVE  /\ Silent(q) => ReadyStream(q) /\ \A k : k \notin Noise => ~Has(q, k)
           /\ \A k : Carries(q, k) /\ k \notin Noise =>
                /\ ~Silent(q) /\ Has(q, k)
                /\ \A l : l \notin Noise /\ l # k => ~Has(q, l)
                /\ k \in {"host", "host_response"} => ReadyStream(q)
<1>1. Silent(q) => ReadyStream(q)
  BY DEF Silent, ReadyStream
<1>2. Silent(q) => \A k : k \notin Noise => ~Has(q, k)
  BY DEF Silent, Has
<1>3. ASSUME NEW k, Carries(q, k), k \notin Noise
      PROVE  /\ ~Silent(q) /\ Has(q, k)
             /\ \A l : l \notin Noise /\ l # k => ~Has(q, l)
             /\ k \in {"host", "host_response"} => ReadyStream(q)
  <2>1. PICK i \in DOMAIN q : Kind(q[i]) = k /\ \A n \in DOMAIN q : n # i => Kind(q[n]) \in Noise
    BY <1>3 DEF Carries
  <2>2. ~Silent(q) /\ Has(q, k)
    BY <1>3, <2>1 DEF Silent, Has
  <2>3. \A l : l \notin Noise /\ l # k => ~Has(q, l)
    BY <2>1 DEF Has
  <2>4. k \in {"host", "host_response"} => ReadyStream(q)
    BY <2>1 DEF ReadyStream
  <2> QED BY <2>2, <2>3, <2>4
<1> QED BY <1>1, <1>2, <1>3

LEMMA EmptyStream == Silent(<<>>)
  BY DEF Silent

-----------------------------------------------------------------------------
(* The moves of an end, as they change its view of the session.            *)

LEMMA PeerFacts ==
    ASSUME NEW e \in E
    PROVE  /\ Peer(e) \in E /\ Peer(e) # e /\ Peer(Peer(e)) = e
           /\ e = "cl" => Peer(e) = "sv"
           /\ e = "sv" => Peer(e) = "cl"
  BY DEF E, Peer

\* What is written to a broken connection goes nowhere.
Sent(k, q, m) == IF k THEN Append(q, m) ELSE q

\* The flags of the conversation are the same.
SameFlags(b, c) == b.outstanding = c.outstanding /\ b.answered = c.answered

\* The kinds of messages of the conversation.
CoreKinds ==
    {"send_candidates", "send_candidates_response", "candidate", "candidate_response",
     "accepted", "host", "host_response"}

LEMMA AlikeFacts ==
    ASSUME NEW q, NEW r, Alike(q, r)
    PROVE  /\ Silent(q) => Silent(r)
           /\ \A k \in CoreKinds : Carries(q, k) => Carries(r, k)
           /\ \A k, l \in CoreKinds : CarriesTwo(q, k, l) => CarriesTwo(r, k, l)
           /\ \A k \in CoreKinds : Has(r, k) <=> Has(q, k)
           /\ ReadyStream(q) => ReadyStream(r)
<1>1. \A k \in CoreKinds : k \notin Noise
  BY DEF CoreKinds, Noise
<1> QED BY <1>1 DEF Alike

LEMMA AlikeStreamOK ==
    ASSUME NEW e, NEW c, NEW q, NEW r, Alike(q, r), StreamOK(e, c, q), c.state \notin Down
    PROVE  StreamOK(e, c, r)
  BY AlikeFacts DEF StreamOK, CoreKinds

LEMMA AlikeFlow ==
    ASSUME NEW c, NEW d, NEW x, NEW y, Flow(c, d, x, y),
           NEW z, Alike(x, z), NEW w, Alike(y, w)
    PROVE  Flow(c, d, z, w)
  BY AlikeFacts DEF Flow, CoreKinds

LEMMA AlikeTogether ==
    ASSUME NEW e, NEW c, NEW d, NEW x, NEW y, Together(e, c, d, x, y),
           NEW z, Alike(x, z), NEW w, Alike(y, w)
    PROVE  Together(e, c, d, z, w)
<1>1. Asking(c, d, x, y) => Asking(c, d, z, w)
  BY AlikeFacts DEF Asking, CoreKinds
<1>2. Asking(d, c, y, x) => Asking(d, c, w, z)
  BY AlikeFacts DEF Asking, CoreKinds
<1>3. Ready(c, d, x, y) => Ready(c, d, z, w)
  BY AlikeFacts, AlikeFlow DEF Ready
<1>4. Turning(c, d, x, y) => Turning(c, d, z, w)
  BY AlikeFacts DEF Turning, CoreKinds
<1>5. Turning(d, c, y, x) => Turning(d, c, w, z)
  BY AlikeFacts DEF Turning, CoreKinds
<1>6. Finishing(c, d, x, y) => Finishing(c, d, z, w)
  BY AlikeFacts DEF Finishing, CoreKinds
<1>7. Finishing(d, c, y, x) => Finishing(d, c, w, z)
  BY AlikeFacts DEF Finishing, CoreKinds
<1> QED BY <1>1, <1>2, <1>3, <1>4, <1>5, <1>6, <1>7 DEF Together

LEMMA AlikeSelf == \A q : Alike(q, q)
  BY DEF Alike

\* An end closes, for whatever reason; the accepting end may ask its peer to wait.
LEMMA Closes ==
    ASSUME NEW e \in E, NEW k, NEW c, NEW d, NEW x, NEW y \in Stream, View(e, k, c, d, x, y),
           NEW b, b.state \in Closing, NEW z, NEW w, w = y \/ (k /\ Alike(y, w))
    PROVE  View(e, k, b, d, z, w)
<1>1. SlotOK(e, b) /\ StreamOK(e, b, z) /\ b.state \notin Down
  BY DEF SlotOK, StreamOK, Closing, Down, Offering, Answering, Applying, Awaiting, ReadyStates
<1>2. CASE w = y
  BY <1>1, <1>2 DEF View
<1>3. CASE k /\ Alike(y, w)
  BY <1>1, <1>3, AlikeStreamOK DEF View
<1> QED BY <1>2, <1>3

\* An end is down, and with it the connection.
LEMMA GoesDown ==
    ASSUME NEW e \in E, NEW k, NEW c, NEW d, NEW x, NEW y, View(e, k, c, d, x, y),
           NEW b, b.state \in Down
    PROVE  View(e, FALSE, b, d, <<>>, y)
<1>1. SlotOK(e, b) /\ StreamOK(e, b, <<>>)
  BY EmptyStream DEF SlotOK, StreamOK, Closing, Down, Offering, Answering, Applying, Awaiting, ReadyStates
<1> QED BY <1>1 DEF View

\* The connection is lost with what was in flight.
LEMMA NothingInFlight ==
    ASSUME NEW e \in E, NEW k, NEW c, NEW d, NEW x, NEW y, View(e, k, c, d, x, y)
    PROVE  View(e, FALSE, c, d, <<>>, <<>>)
<1>1. ReadyStream(<<>>) /\ ~Has(<<>>, "host_response")
  BY EmptyStream, StreamFacts DEF Noise
<1>2. StreamOK(e, c, <<>>) /\ StreamOK(Peer(e), d, <<>>)
  BY <1>1, EmptyStream DEF StreamOK
<1> QED BY <1>2 DEF View

\* Noise is received.
LEMMA HearsNoise ==
    ASSUME NEW e \in E, NEW k, NEW c, NEW d, NEW x, NEW y, View(e, k, c, d, x, y),
           c.state \notin Down, NEW z, Alike(x, z)
    PROVE  View(e, k, c, d, z, y)
<1>1. StreamOK(e, c, z)
  BY AlikeStreamOK DEF View
<1>2. k /\ c.state \notin Closing /\ d.state \notin Closing => Together(e, c, d, z, y)
  BY AlikeTogether, AlikeSelf DEF View
<1> QED BY <1>1, <1>2 DEF View


\* An end goes on by itself: within the application of a candidate, within the list of
\* its own candidates, or within the ready phase.
LEMMA GoesOn ==
    ASSUME NEW e \in E, NEW k, NEW c, NEW d, NEW x, NEW y, View(e, k, c, d, x, y),
           NEW b, SameFlags(b, c), SlotOK(e, b),
           \/ b.state = c.state
           \/ c.state \in Applying /\ b.state \in Applying
           \/ c.state \in Offering \cup {"candidate_host_send"} /\ b.state \in Offering
           \/ c.state \in ReadyStates /\ b.state \in ReadyStates
    PROVE  View(e, k, b, d, x, y)
<1> USE DEF SameFlags
<1>1. CASE b.state = c.state
  <2>1. StreamOK(e, b, x)
    BY <1>1 DEF View, StreamOK
  <2>2. ASSUME Together(e, c, d, x, y) PROVE Together(e, b, d, x, y)
    BY <1>1, <2>2 DEF Together, Asking, Turning, Finishing, Ready, Flow
  <2> QED BY <1>1, <2>1, <2>2 DEF View
<1>2. CASE c.state \in Applying /\ b.state \in Applying
  <2>1. StreamOK(e, b, x)
    BY <1>2 DEF View, StreamOK, Down, Applying, Offering, Awaiting, ReadyStates
  <2>2. ASSUME Together(e, c, d, x, y) PROVE Together(e, b, d, x, y)
    <3>1. Asking(c, d, x, y) /\ Silent(x) /\ Silent(y) /\ d.state = "candidate_host_response_wait"
      BY <1>2, <2>2 DEF Together, Asking, Turning, Finishing, Ready, Applying, Offering, Awaiting, ReadyStates
    <3> QED BY <1>2, <3>1 DEF Together, Asking
  <2> QED BY <1>2, <2>1, <2>2 DEF View, Down, Closing, Applying
<1>3. CASE c.state \in Offering \cup {"candidate_host_send"} /\ b.state \in Offering
  <2>1. StreamOK(e, b, x)
    BY <1>3 DEF View, StreamOK, Down, Applying, Offering, Awaiting, ReadyStates
  <2>2. ASSUME Together(e, c, d, x, y) PROVE Together(e, b, d, x, y)
    <3>1. Silent(x) /\ Silent(y) /\ d.state \in Awaiting
      BY <1>3, <2>2 DEF Together, Asking, Turning, Finishing, Ready, Applying, Offering, Awaiting, ReadyStates
    <3> QED BY <1>3, <3>1 DEF Together, Asking
  <2> QED BY <1>3, <2>1, <2>2 DEF View, Down, Closing, Offering
<1>4. CASE c.state \in ReadyStates /\ b.state \in ReadyStates
  <2>1. StreamOK(e, b, x)
    BY <1>4 DEF View, StreamOK, Down, Applying, Offering, Awaiting, ReadyStates
  <2>2. ASSUME Together(e, c, d, x, y) PROVE Together(e, b, d, x, y)
    <3>1. Ready(c, d, x, y) \/ (e = "cl" /\ Finishing(c, d, x, y))
      BY <1>4, <2>2 DEF Together, Asking, Turning, Finishing, Applying, Offering, Awaiting, ReadyStates
    <3>2. Ready(c, d, x, y) => Ready(b, d, x, y)
      BY <1>4 DEF Ready, Flow
    <3>3. Finishing(c, d, x, y) => Finishing(b, d, x, y)
      BY <1>4 DEF Finishing
    <3> QED BY <3>1, <3>2, <3>3 DEF Together
  <2> QED BY <1>4, <2>1, <2>2 DEF View, Down, Closing, ReadyStates
<1> QED BY <1>1, <1>2, <1>3, <1>4

\* An end that is up sends: the peer is up and finds what it takes, or is closing and
\* takes anything.
LEMMA Speaks ==
    ASSUME NEW e \in E, NEW k, NEW c, NEW d, NEW x, NEW y, View(e, k, c, d, x, y),
           c.state \notin Closing, NEW b, b.state \notin Down, SlotOK(e, b), StreamOK(e, b, x),
           NEW w, ~k => w = y,
           k /\ Together(e, c, d, x, y) => StreamOK(Peer(e), d, w) /\ Together(e, b, d, x, w)
    PROVE  View(e, k, b, d, x, w)
<1>1. CASE ~k
  BY <1>1 DEF View
<1>2. CASE k /\ d.state \notin Closing
  BY <1>2 DEF View
<1>3. CASE k /\ d.state \in Closing
  <2>1. StreamOK(Peer(e), d, w)
    BY <1>3 DEF StreamOK, Closing, Down, Offering, Applying, Awaiting, ReadyStates
  <2> QED BY <1>3, <2>1 DEF View
<1> QED BY <1>1, <1>2, <1>3

\* An end that is up receives a message of the conversation.
LEMMA Hears ==
    ASSUME NEW e \in E, NEW k, NEW c, NEW d, NEW x, NEW y, View(e, k, c, d, x, y),
           c.state \notin Closing, NEW b, b.state \notin Down, NEW z, SlotOK(e, b), StreamOK(e, b, z),
           Together(e, c, d, x, y) => Together(e, b, d, z, y)
    PROVE  View(e, k, b, d, z, y)
  BY DEF View

\* "send candidates": the connecting end opens the conversation, the accepting end asks
\* in its turn.
LEMMA Asks ==
    ASSUME NEW e \in E, NEW k, NEW c, NEW d, NEW x, NEW y \in Stream, View(e, k, c, d, x, y),
           c.state = "send_candidates_send",
           NEW b, b.state = "send_candidates_wait", b.answered = c.answered,
           NEW m \in MessageType, Kind(m) = "send_candidates"
    PROVE  View(e, k, b, d, x, Sent(k, y, m))
<1> DEFINE w == Sent(k, y, m)
<1>1. SlotOK(e, b)
  BY DEF View, SlotOK, Offering, Answering, Applying, Awaiting, ReadyStates
<1>2. StreamOK(e, b, x) /\ Silent(x)
  BY DEF View, StreamOK, Down, Offering, Applying, Awaiting, ReadyStates
<1>3. ASSUME k, Together(e, c, d, x, y)
      PROVE  StreamOK(Peer(e), d, w) /\ Together(e, b, d, x, w)
  <2>1. /\ Silent(y) => Carries(w, "send_candidates")
        /\ Carries(y, "send_candidates_response")
             => CarriesTwo(w, "send_candidates_response", "send_candidates")
    BY <1>3, AppendCore DEF Noise, Sent
  <2> HIDE DEF w
  <2>2. \/ Silent(y) /\ d.state = "send_candidates_message_wait"
        \/ /\ e = "sv" /\ d.state \in Awaiting /\ Silent(x)
           /\ Carries(y, "send_candidates_response")
    BY <1>3 DEF Together, Asking, Turning, Finishing, Ready, Offering, Applying, Awaiting, ReadyStates
  <2>3. CASE Silent(y) /\ d.state = "send_candidates_message_wait"
    <3>1. StreamOK(Peer(e), d, w)
      BY <2>1, <2>3 DEF StreamOK, Down, Offering, Applying, Awaiting, ReadyStates
    <3> QED BY <1>2, <2>1, <2>3, <3>1 DEF Together, Asking
  <2>4. CASE /\ e = "sv" /\ d.state \in Awaiting /\ Silent(x)
             /\ Carries(y, "send_candidates_response")
    <3>1. StreamOK(Peer(e), d, w)
      BY <2>1, <2>4, PeerFacts DEF StreamOK, Down, Offering, Applying, Awaiting, ReadyStates
    <3> QED BY <2>1, <2>4, <3>1 DEF Together, Turning
  <2> QED BY <2>2, <2>3, <2>4
<1>4. ~k => w = y
  BY DEF Sent
<1>5. c.state \notin Closing /\ b.state \notin Down
  BY DEF Closing, Down
<1> HIDE DEF w
<1>6. View(e, k, b, d, x, w)
  BY <1>1, <1>2, <1>3, <1>4, <1>5, Speaks
<1> QED BY <1>6 DEF w

\* A candidate is refused.
LEMMA Refuses ==
    ASSUME NEW e \in E, NEW k, NEW c, NEW d, NEW x, NEW y \in Stream, View(e, k, c, d, x, y),
           c.state = "candidate_check",
           NEW b, b.state = "send_candidates_wait", b.answered,
           NEW m \in MessageType, Kind(m) = "candidate_response"
    PROVE  View(e, k, b, d, x, Sent(k, y, m))
<1> DEFINE w == Sent(k, y, m)
<1>1. SlotOK(e, b)
  BY DEF View, SlotOK, Offering, Answering, Applying, Awaiting, ReadyStates
<1>2. StreamOK(e, b, x) /\ Silent(x)
  BY DEF View, StreamOK, Down, Offering, Applying, Awaiting, ReadyStates
<1>3. ASSUME k, Together(e, c, d, x, y)
      PROVE  StreamOK(Peer(e), d, w) /\ Together(e, b, d, x, w)
  <2>1. Silent(y) => Carries(w, "candidate_response")
    BY <1>3, AppendCore DEF Noise, Sent
  <2> HIDE DEF w
  <2>2. Silent(y) /\ d.state = "next_candidate_send_wait"
    BY <1>3 DEF Together, Asking, Turning, Finishing, Ready, Offering, Applying, Awaiting, ReadyStates
  <2>3. StreamOK(Peer(e), d, w)
    BY <2>1, <2>2 DEF StreamOK, Down, Offering, Applying, Awaiting, ReadyStates
  <2> QED BY <1>2, <2>1, <2>2, <2>3 DEF Together, Asking, Awaiting
<1>4. ~k => w = y
  BY DEF Sent
<1>5. c.state \notin Closing /\ b.state \notin Down
  BY DEF Closing, Down, Offering, Applying, Awaiting, ReadyStates
<1> HIDE DEF w
<1>6. View(e, k, b, d, x, w)
  BY <1>1, <1>2, <1>3, <1>4, <1>5, Speaks
<1> QED BY <1>6 DEF w

\* A candidate is accepted.
LEMMA Wants ==
    ASSUME NEW e \in E, NEW k, NEW c, NEW d, NEW x, NEW y \in Stream, View(e, k, c, d, x, y),
           c.state = "candidate_check",
           NEW b, b.state = "candidate_host_wait", b.answered,
           NEW m \in MessageType, Kind(m) = "accepted"
    PROVE  View(e, k, b, d, x, Sent(k, y, m))
<1> DEFINE w == Sent(k, y, m)
<1>1. SlotOK(e, b)
  BY DEF View, SlotOK, Offering, Answering, Applying, Awaiting, ReadyStates
<1>2. StreamOK(e, b, x) /\ Silent(x)
  BY DEF View, StreamOK, Down, Offering, Applying, Awaiting, ReadyStates
<1>3. ASSUME k, Together(e, c, d, x, y)
      PROVE  StreamOK(Peer(e), d, w) /\ Together(e, b, d, x, w)
  <2>1. Silent(y) => Carries(w, "accepted")
    BY <1>3, AppendCore DEF Noise, Sent
  <2> HIDE DEF w
  <2>2. Silent(y) /\ d.state = "next_candidate_send_wait"
    BY <1>3 DEF Together, Asking, Turning, Finishing, Ready, Offering, Applying, Awaiting, ReadyStates
  <2>3. StreamOK(Peer(e), d, w)
    BY <2>1, <2>2 DEF StreamOK, Down, Offering, Applying, Awaiting, ReadyStates
  <2> QED BY <1>2, <2>1, <2>2, <2>3 DEF Together, Asking, Awaiting
<1>4. ~k => w = y
  BY DEF Sent
<1>5. c.state \notin Closing /\ b.state \notin Down
  BY DEF Closing, Down, Offering, Applying, Awaiting, ReadyStates
<1> HIDE DEF w
<1>6. View(e, k, b, d, x, w)
  BY <1>1, <1>2, <1>3, <1>4, <1>5, Speaks
<1> QED BY <1>6 DEF w

\* A host of the peer has been applied, or will not be.
LEMMA Acknowledges ==
    ASSUME NEW e \in E, NEW k, NEW c, NEW d, NEW x, NEW y \in Stream, View(e, k, c, d, x, y),
           c.state \in Applying,
           NEW b, b.state = "send_candidates_wait", b.answered,
           NEW m \in MessageType, Kind(m) = "host_response"
    PROVE  View(e, k, b, d, x, Sent(k, y, m))
<1> DEFINE w == Sent(k, y, m)
<1>1. SlotOK(e, b)
  BY DEF View, SlotOK, Offering, Answering, Applying, Awaiting, ReadyStates
<1>2. StreamOK(e, b, x) /\ Silent(x)
  BY DEF View, StreamOK, Down, Offering, Applying, Awaiting, ReadyStates
<1>3. ASSUME k, Together(e, c, d, x, y)
      PROVE  StreamOK(Peer(e), d, w) /\ Together(e, b, d, x, w)
  <2>1. Silent(y) => Carries(w, "host_response")
    BY <1>3, AppendCore DEF Noise, Sent
  <2> HIDE DEF w
  <2>2. Silent(y) /\ d.state = "candidate_host_response_wait"
    BY <1>3 DEF Together, Asking, Turning, Finishing, Ready, Offering, Applying, Awaiting, ReadyStates
  <2>3. StreamOK(Peer(e), d, w)
    BY <2>1, <2>2 DEF StreamOK, Down, Offering, Applying, Awaiting, ReadyStates
  <2> QED BY <1>2, <2>1, <2>2, <2>3 DEF Together, Asking, Awaiting
<1>4. ~k => w = y
  BY DEF Sent
<1>5. c.state \notin Closing /\ b.state \notin Down
  BY DEF Closing, Down, Offering, Applying, Awaiting, ReadyStates
<1> HIDE DEF w
<1>6. View(e, k, b, d, x, w)
  BY <1>1, <1>2, <1>3, <1>4, <1>5, Speaks
<1> QED BY <1>6 DEF w

\* The next candidate is offered.
LEMMA Offers ==
    ASSUME NEW e \in E, NEW k, NEW c, NEW d, NEW x, NEW y \in Stream, View(e, k, c, d, x, y),
           c.state = "next_candidate_send",
           NEW b, b.state = "next_candidate_send_wait", b.answered = c.answered,
           NEW m \in MessageType, Kind(m) = "candidate"
    PROVE  View(e, k, b, d, x, Sent(k, y, m))
<1> DEFINE w == Sent(k, y, m)
<1>1. SlotOK(e, b)
  BY DEF View, SlotOK, Offering, Answering, Applying, Awaiting, ReadyStates
<1>2. StreamOK(e, b, x) /\ Silent(x)
  BY DEF View, StreamOK, Down, Offering, Applying, Awaiting, ReadyStates
<1>3. ASSUME k, Together(e, c, d, x, y)
      PROVE  StreamOK(Peer(e), d, w) /\ Together(e, b, d, x, w)
  <2>1. Silent(y) => Carries(w, "candidate")
    BY <1>3, AppendCore DEF Noise, Sent
  <2> HIDE DEF w
  <2>2. Silent(y) /\ d.state \in Awaiting
    BY <1>3 DEF Together, Asking, Turning, Finishing, Ready, Offering, Applying, Awaiting, ReadyStates
  <2>3. StreamOK(Peer(e), d, w)
    BY <2>1, <2>2 DEF StreamOK, Down, Offering, Applying, Awaiting, ReadyStates
  <2> QED BY <1>2, <2>1, <2>2, <2>3 DEF Together, Asking, Awaiting
<1>4. ~k => w = y
  BY DEF Sent
<1>5. c.state \notin Closing /\ b.state \notin Down
  BY DEF Closing, Down, Offering, Applying, Awaiting, ReadyStates
<1> HIDE DEF w
<1>6. View(e, k, b, d, x, w)
  BY <1>1, <1>2, <1>3, <1>4, <1>5, Speaks
<1> QED BY <1>6 DEF w

\* The host of an accepted candidate is sent.
LEMMA Gives ==
    ASSUME NEW e \in E, NEW k, NEW c, NEW d, NEW x, NEW y \in Stream, View(e, k, c, d, x, y),
           c.state = "candidate_host_send",
           NEW b, b.state = "candidate_host_response_wait", b.answered = c.answered,
           NEW m \in MessageType, Kind(m) = "host"
    PROVE  View(e, k, b, d, x, Sent(k, y, m))
<1> DEFINE w == Sent(k, y, m)
<1>1. SlotOK(e, b)
  BY DEF View, SlotOK, Offering, Answering, Applying, Awaiting, ReadyStates
<1>2. StreamOK(e, b, x) /\ Silent(x)
  BY DEF View, StreamOK, Down, Offering, Applying, Awaiting, ReadyStates
<1>3. ASSUME k, Together(e, c, d, x, y)
      PROVE  StreamOK(Peer(e), d, w) /\ Together(e, b, d, x, w)
  <2>1. Silent(y) => Carries(w, "host")
    BY <1>3, AppendCore DEF Noise, Sent
  <2> HIDE DEF w
  <2>2. Silent(y) /\ d.state = "candidate_host_wait"
    BY <1>3 DEF Together, Asking, Turning, Finishing, Ready, Offering, Applying, Awaiting, ReadyStates
  <2>3. StreamOK(Peer(e), d, w)
    BY <2>1, <2>2 DEF StreamOK, Down, Offering, Applying, Awaiting, ReadyStates
  <2> QED BY <1>2, <2>1, <2>2, <2>3 DEF Together, Asking, Awaiting
<1>4. ~k => w = y
  BY DEF Sent
<1>5. c.state \notin Closing /\ b.state \notin Down
  BY DEF Closing, Down, Offering, Applying, Awaiting, ReadyStates
<1> HIDE DEF w
<1>6. View(e, k, b, d, x, w)
  BY <1>1, <1>2, <1>3, <1>4, <1>5, Speaks
<1> QED BY <1>6 DEF w

\* The accepting end has no more candidates and will ask in its turn.
LEMMA Turns ==
    ASSUME NEW k, NEW c, NEW d, NEW x, NEW y \in Stream, View("sv", k, c, d, x, y),
           c.state = "send_candidates_response_send",
           NEW b, b.state = "send_candidates_send", b.answered, b.outstanding = c.outstanding,
           NEW m \in MessageType, Kind(m) = "send_candidates_response"
    PROVE  View("sv", k, b, d, x, Sent(k, y, m))
<1> DEFINE w == Sent(k, y, m)
<1>1. SlotOK("sv", b)
  BY DEF View, SlotOK, Offering, Answering, Applying, Awaiting, ReadyStates
<1>2. StreamOK("sv", b, x) /\ Silent(x)
  BY DEF View, StreamOK, Down, Offering, Applying, Awaiting, ReadyStates
<1>3. ASSUME k, Together("sv", c, d, x, y)
      PROVE  StreamOK(Peer("sv"), d, w) /\ Together("sv", b, d, x, w)
  <2>1. Silent(y) => Carries(w, "send_candidates_response")
    BY <1>3, AppendCore DEF Noise, Sent
  <2> HIDE DEF w
  <2>2. Silent(y) /\ d.state \in Awaiting
    BY <1>3 DEF Together, Asking, Turning, Finishing, Ready, Offering, Applying, Awaiting, ReadyStates
  <2>3. StreamOK(Peer("sv"), d, w)
    BY <2>1, <2>2 DEF StreamOK, Down, Offering, Applying, Awaiting, ReadyStates
  <2> QED BY <1>2, <2>1, <2>2, <2>3 DEF Together, Turning
<1>4. ~k => w = y
  BY DEF Sent
<1>5. c.state \notin Closing /\ b.state \notin Down /\ "sv" \in E
  BY DEF Closing, Down, E
<1> HIDE DEF w
<1>6. View("sv", k, b, d, x, w)
  BY <1>1, <1>2, <1>3, <1>4, <1>5, Speaks
<1> QED BY <1>6 DEF w

\* The connecting end has no more candidates and is ready.
LEMMA Finishes ==
    ASSUME NEW k, NEW c, NEW d, NEW x, NEW y \in Stream, View("cl", k, c, d, x, y),
           c.state = "send_candidates_response_send",
           NEW b, b.state \in ReadyStates, SlotOK("cl", b), b.answered, ~b.outstanding,
           NEW m \in MessageType, Kind(m) = "send_candidates_response"
    PROVE  View("cl", k, b, d, x, Sent(k, y, m))
<1> DEFINE w == Sent(k, y, m)
<1>1. Silent(x)
  BY DEF View, StreamOK, Offering
<1>2. StreamOK("cl", b, x)
  BY <1>1, StreamFacts DEF StreamOK, Down, Offering, Applying, Awaiting, ReadyStates, Noise
<1>3. ASSUME k, Together("cl", c, d, x, y)
      PROVE  StreamOK(Peer("cl"), d, w) /\ Together("cl", b, d, x, w)
  <2>1. Silent(y) => Carries(w, "send_candidates_response")
    BY <1>3, AppendCore DEF Noise, Sent
  <2> HIDE DEF w
  <2>2. Silent(y) /\ d.state \in Awaiting
    BY <1>3 DEF Together, Asking, Turning, Finishing, Ready, Offering, Applying, Awaiting, ReadyStates
  <2>3. StreamOK(Peer("cl"), d, w)
    BY <2>1, <2>2 DEF StreamOK, Down, Offering, Applying, Awaiting, ReadyStates
  <2> QED BY <1>1, <2>1, <2>2, <2>3 DEF Together, Finishing
<1>4. ~k => w = y
  BY DEF Sent
<1>5. c.state \notin Closing /\ b.state \notin Down /\ "cl" \in E
  BY DEF Closing, Down, E, ReadyStates
<1> HIDE DEF w
<1>6. View("cl", k, b, d, x, w)
  BY <1>2, <1>3, <1>4, <1>5, Speaks
<1> QED BY <1>6 DEF w

\* An end in the ready phase is so with its peer, or the accepting end has still to learn
\* that the candidates are through.
LEMMA InReady ==
    ASSUME NEW e, NEW c, NEW d, NEW x, NEW y, Together(e, c, d, x, y), c.state \in ReadyStates
    PROVE  Ready(c, d, x, y) \/ (e = "cl" /\ Finishing(c, d, x, y))
  BY DEF Together, Asking, Turning, Finishing, Applying, Offering, Awaiting, ReadyStates

\* In the ready phase an update of the peer is acknowledged.
LEMMA AcknowledgesUpdate ==
    ASSUME NEW e \in E, NEW k, NEW c, NEW d, NEW x, NEW y \in Stream, View(e, k, c, d, x, y),
           c.state \in ReadyStates, ~c.answered,
           NEW b, b.state \in ReadyStates, SlotOK(e, b), b.answered, b.outstanding = c.outstanding,
           NEW m \in MessageType, Kind(m) = "host_response"
    PROVE  View(e, k, b, d, x, Sent(k, y, m))
<1> DEFINE w == Sent(k, y, m)
<1>1. StreamOK(e, b, x)
  BY DEF View, StreamOK, Down, Offering, Applying, Awaiting, ReadyStates
<1>2. ASSUME k, Together(e, c, d, x, y)
      PROVE  StreamOK(Peer(e), d, w) /\ Together(e, b, d, x, w)
  <2>1. /\ Has(w, "host_response") /\ (Has(w, "host") <=> Has(y, "host"))
        /\ ReadyStream(y) /\ ~Has(y, "host_response") => ReadyStream(w)
    BY <1>2, AppendCore DEF Noise, Sent
  <2> HIDE DEF w
  <2>2. Ready(c, d, x, y)
    BY <1>2, InReady DEF Finishing
  <2>3. d.outstanding /\ ~Has(x, "host") /\ ~Has(y, "host_response") /\ ReadyStream(w)
    BY <2>1, <2>2 DEF Ready, Flow
  <2>4. StreamOK(Peer(e), d, w)
    BY <2>2, <2>3 DEF Ready, StreamOK, Down, Offering, Applying, Awaiting, ReadyStates
  <2>5. Flow(b, d, x, w)
    BY <2>1, <2>2 DEF Ready, Flow
  <2>6. Flow(d, b, w, x)
    BY <2>1, <2>3 DEF Flow
  <2> QED BY <2>2, <2>3, <2>4, <2>5, <2>6 DEF Together, Ready
<1>3. ~k => w = y
  BY DEF Sent
<1>4. c.state \notin Closing /\ b.state \notin Down
  BY DEF Closing, Down, ReadyStates
<1> HIDE DEF w
<1>5. View(e, k, b, d, x, w)
  BY <1>1, <1>2, <1>3, <1>4, Speaks
<1> QED BY <1>5 DEF w

\* In the ready phase the end answers a request that has been answered.
LEMMA AnswersAgain ==
    ASSUME NEW e \in E, NEW k, NEW c, NEW d, NEW x, NEW y \in Stream, View(e, k, c, d, x, y),
           c.state \in ReadyStates,
           NEW b, b.state \in ReadyStates, SlotOK(e, b), SameFlags(b, c),
           NEW m \in MessageType, Kind(m) \in Noise
    PROVE  View(e, k, b, d, x, Sent(k, y, m))
<1> DEFINE w == Sent(k, y, m)
<1>1. View(e, k, b, d, x, y)
  BY GoesOn
<1>2. b.state \notin Closing /\ b.state \notin Down
  BY DEF Closing, Down, ReadyStates
<1>3. k => Alike(y, w)
  BY AppendNoise DEF Sent
<1>4. ~k => w = y
  BY DEF Sent
<1> HIDE DEF w
<1>5. k => StreamOK(Peer(e), d, w)
  BY <1>1, <1>3, AlikeStreamOK DEF View
<1>6. k /\ Together(e, b, d, x, y) => Together(e, b, d, x, w)
  BY <1>3, AlikeTogether, AlikeSelf
<1>7. SlotOK(e, b) /\ StreamOK(e, b, x)
  BY <1>1 DEF View
<1>8. View(e, k, b, d, x, w)
  BY <1>1, <1>2, <1>4, <1>5, <1>6, <1>7, Speaks
<1> QED BY <1>8 DEF w

\* In the ready phase an update goes out.
LEMMA Updates ==
    ASSUME NEW e \in E, NEW k, NEW c, NEW d, NEW x, NEW y \in Stream, View(e, k, c, d, x, y),
           c.state \in ReadyStates, ~c.outstanding,
           NEW b, b.state \in ReadyStates, SlotOK(e, b), b.answered = c.answered, b.outstanding,
           NEW m \in MessageType, Kind(m) = "host"
    PROVE  View(e, k, b, d, x, Sent(k, y, m))
<1> DEFINE w == Sent(k, y, m)
<1>1. StreamOK(e, b, x)
  BY DEF View, StreamOK, Down, Offering, Applying, Awaiting, ReadyStates
<1>2. ASSUME k, Together(e, c, d, x, y)
      PROVE  StreamOK(Peer(e), d, w) /\ Together(e, b, d, x, w)
  <2>1. /\ Has(w, "host") /\ (Has(w, "host_response") <=> Has(y, "host_response"))
        /\ ReadyStream(y) /\ ~Has(y, "host") => ReadyStream(w)
        /\ Carries(y, "send_candidates_response")
             => CarriesTwo(w, "send_candidates_response", "host")
    BY <1>2, AppendCore DEF Noise, Sent
  <2> HIDE DEF w
  <2>2. CASE Ready(c, d, x, y)
    <3>1. ReadyStream(w)
      BY <2>1, <2>2 DEF Ready, Flow
    <3>2. StreamOK(Peer(e), d, w)
      <4>1. Has(w, "host_response") => d.outstanding
        BY <2>1, <2>2 DEF Ready, Flow
      <4> QED BY <2>2, <3>1, <4>1 DEF Ready, StreamOK, Down, Offering, Applying, Awaiting, ReadyStates
    <3>3. Flow(b, d, x, w)
      BY <2>1, <2>2 DEF Ready, Flow
    <3>4. Flow(d, b, w, x)
      BY <2>1, <2>2 DEF Ready, Flow
    <3> QED BY <2>2, <3>1, <3>2, <3>3, <3>4 DEF Together, Ready
  <2>3. CASE e = "cl" /\ Finishing(c, d, x, y)
    <3>1. CarriesTwo(w, "send_candidates_response", "host")
      BY <2>1, <2>3 DEF Finishing
    <3>2. StreamOK(Peer(e), d, w)
      BY <2>3, <3>1, PeerFacts DEF Finishing, StreamOK, Down, Offering, Applying, Awaiting, ReadyStates
    <3> QED BY <2>3, <3>1, <3>2 DEF Together, Finishing
  <2> QED BY <1>2, <2>2, <2>3, InReady
<1>3. ~k => w = y
  BY DEF Sent
<1>4. c.state \notin Closing /\ b.state \notin Down
  BY DEF Closing, Down, ReadyStates
<1> HIDE DEF w
<1>5. View(e, k, b, d, x, w)
  BY <1>1, <1>2, <1>3, <1>4, Speaks
<1> QED BY <1>5 DEF w

\* "send candidates" is received.
LEMMA IsAsked ==
    ASSUME NEW e \in E, NEW k, NEW c, NEW d, NEW x \in Stream, NEW y, View(e, k, c, d, x, y),
           x # <<>>, Kind(Head(x)) = "send_candidates",
           c.state = "send_candidates_message_wait",
           NEW b, b.state = "send_candidates_received", ~b.answered, b.outstanding = c.outstanding
    PROVE  View(e, k, b, d, Tail(x), y)
<1> DEFINE z == Tail(x)
<1>1. /\ ~Silent(x) /\ \A j : Carries(x, j) => j = "send_candidates" /\ Silent(z)
      /\ \A i, j : CarriesTwo(x, i, j) => i = "send_candidates"
  BY TailCore DEF Noise
<1> HIDE DEF z
<1>2. SlotOK(e, b)
  BY DEF View, SlotOK, Offering, Answering, Applying, Awaiting, ReadyStates
<1>3. Silent(z)
  BY <1>1 DEF View, StreamOK, Awaiting
<1>4. StreamOK(e, b, z)
  BY <1>3 DEF StreamOK, Down, Offering, Applying, Awaiting, ReadyStates
<1>5. ASSUME Together(e, c, d, x, y) PROVE Together(e, b, d, z, y)
  <2>1. Silent(y) /\ d.state = "send_candidates_wait"
    <3>1. ASSUME Ready(c, d, x, y) PROVE FALSE
      BY <3>1 DEF Ready, Awaiting, ReadyStates
    <3>2. ASSUME Turning(c, d, x, y) \/ Finishing(c, d, x, y) \/ Turning(d, c, y, x)
                 \/ Finishing(d, c, y, x)
          PROVE  FALSE
      BY <1>1, <3>2 DEF Turning, Finishing, Awaiting, ReadyStates
    <3>3. ASSUME Asking(c, d, x, y) PROVE Silent(y) /\ d.state = "send_candidates_wait"
      BY <1>1, <3>3 DEF Asking, Offering, Applying, Awaiting
    <3>4. ASSUME Asking(d, c, y, x) PROVE Silent(y) /\ d.state = "send_candidates_wait"
      BY <1>1, <3>4 DEF Asking, Offering, Applying, Awaiting
    <3> QED BY <1>5, <3>1, <3>2, <3>3, <3>4 DEF Together
  <2> QED BY <1>3, <2>1 DEF Together, Asking, Offering, Applying, Awaiting
<1>6. c.state \notin Closing /\ b.state \notin Down
  BY DEF Closing, Down, Offering, Applying, Awaiting, ReadyStates
<1>7. View(e, k, b, d, z, y)
  BY <1>2, <1>4, <1>5, <1>6, Hears
<1> QED BY <1>7 DEF z

\* A candidate is received.
LEMMA IsOffered ==
    ASSUME NEW e \in E, NEW k, NEW c, NEW d, NEW x \in Stream, NEW y, View(e, k, c, d, x, y),
           x # <<>>, Kind(Head(x)) = "candidate",
           c.state \in Awaiting, NEW b, b.state = "candidate_check", ~b.answered
    PROVE  View(e, k, b, d, Tail(x), y)
<1> DEFINE z == Tail(x)
<1>1. /\ ~Silent(x) /\ \A j : Carries(x, j) => j = "candidate" /\ Silent(z)
      /\ \A i, j : CarriesTwo(x, i, j) => i = "candidate"
  BY TailCore DEF Noise
<1> HIDE DEF z
<1>2. SlotOK(e, b)
  BY DEF View, SlotOK, Offering, Answering, Applying, Awaiting, ReadyStates
<1>3. Silent(z)
  BY <1>1 DEF View, StreamOK, Awaiting
<1>4. StreamOK(e, b, z)
  BY <1>3 DEF StreamOK, Down, Offering, Applying, Awaiting, ReadyStates
<1>5. ASSUME Together(e, c, d, x, y) PROVE Together(e, b, d, z, y)
  <2>1. Silent(y) /\ d.state = "next_candidate_send_wait"
    <3>1. ASSUME Ready(c, d, x, y) PROVE FALSE
      BY <3>1 DEF Ready, Awaiting, ReadyStates
    <3>2. ASSUME Turning(c, d, x, y) \/ Finishing(c, d, x, y) \/ Turning(d, c, y, x)
                 \/ Finishing(d, c, y, x)
          PROVE  FALSE
      BY <1>1, <3>2 DEF Turning, Finishing, Awaiting, ReadyStates
    <3>3. ASSUME Asking(c, d, x, y) PROVE Silent(y) /\ d.state = "next_candidate_send_wait"
      BY <1>1, <3>3 DEF Asking, Offering, Applying, Awaiting
    <3>4. ASSUME Asking(d, c, y, x) PROVE Silent(y) /\ d.state = "next_candidate_send_wait"
      BY <1>1, <3>4 DEF Asking, Offering, Applying, Awaiting
    <3> QED BY <1>5, <3>1, <3>2, <3>3, <3>4 DEF Together
  <2> QED BY <1>3, <2>1 DEF Together, Asking, Offering, Applying, Awaiting
<1>6. c.state \notin Closing /\ b.state \notin Down
  BY DEF Closing, Down, Offering, Applying, Awaiting, ReadyStates
<1>7. View(e, k, b, d, z, y)
  BY <1>2, <1>4, <1>5, <1>6, Hears
<1> QED BY <1>7 DEF z

\* The host of an accepted candidate is received.
LEMMA IsGiven ==
    ASSUME NEW e \in E, NEW k, NEW c, NEW d, NEW x \in Stream, NEW y, View(e, k, c, d, x, y),
           x # <<>>, Kind(Head(x)) = "host",
           c.state = "candidate_host_wait",
           NEW b, b.state = "candidate_host_prepare", ~b.answered
    PROVE  View(e, k, b, d, Tail(x), y)
<1> DEFINE z == Tail(x)
<1>1. /\ ~Silent(x) /\ \A j : Carries(x, j) => j = "host" /\ Silent(z)
      /\ \A i, j : CarriesTwo(x, i, j) => i = "host"
  BY TailCore DEF Noise
<1> HIDE DEF z
<1>2. SlotOK(e, b)
  BY DEF View, SlotOK, Offering, Answering, Applying, Awaiting, ReadyStates
<1>3. Silent(z)
  BY <1>1 DEF View, StreamOK, Awaiting
<1>4. StreamOK(e, b, z)
  BY <1>3 DEF StreamOK, Down, Offering, Applying, Awaiting, ReadyStates
<1>5. ASSUME Together(e, c, d, x, y) PROVE Together(e, b, d, z, y)
  <2>1. Silent(y) /\ d.state = "candidate_host_response_wait"
    <3>1. ASSUME Ready(c, d, x, y) PROVE FALSE
      BY <3>1 DEF Ready, Awaiting, ReadyStates
    <3>2. ASSUME Turning(c, d, x, y) \/ Finishing(c, d, x, y) \/ Turning(d, c, y, x)
                 \/ Finishing(d, c, y, x)
          PROVE  FALSE
      BY <1>1, <3>2 DEF Turning, Finishing, Awaiting, ReadyStates
    <3>3. ASSUME Asking(c, d, x, y) PROVE Silent(y) /\ d.state = "candidate_host_response_wait"
      BY <1>1, <3>3 DEF Asking, Offering, Applying, Awaiting
    <3>4. ASSUME Asking(d, c, y, x) PROVE Silent(y) /\ d.state = "candidate_host_response_wait"
      BY <1>1, <3>4 DEF Asking, Offering, Applying, Awaiting
    <3> QED BY <1>5, <3>1, <3>2, <3>3, <3>4 DEF Together
  <2> QED BY <1>3, <2>1 DEF Together, Asking, Offering, Applying, Awaiting
<1>6. c.state \notin Closing /\ b.state \notin Down
  BY DEF Closing, Down, Offering, Applying, Awaiting, ReadyStates
<1>7. View(e, k, b, d, z, y)
  BY <1>2, <1>4, <1>5, <1>6, Hears
<1> QED BY <1>7 DEF z

\* A candidate of this end was refused.
LEMMA IsRefused ==
    ASSUME NEW e \in E, NEW k, NEW c, NEW d, NEW x \in Stream, NEW y, View(e, k, c, d, x, y),
           x # <<>>, Kind(Head(x)) = "candidate_response",
           c.state = "next_candidate_send_wait",
           NEW b, b.state = "send_candidates_remaining_check", b.answered = c.answered, ~b.outstanding
    PROVE  View(e, k, b, d, Tail(x), y)
<1> DEFINE z == Tail(x)
<1>1. /\ ~Silent(x) /\ \A j : Carries(x, j) => j = "candidate_response" /\ Silent(z)
      /\ \A i, j : CarriesTwo(x, i, j) => i = "candidate_response"
  BY TailCore DEF Noise
<1> HIDE DEF z
<1>2. SlotOK(e, b)
  BY DEF View, SlotOK, Offering, Answering, Applying, Awaiting, ReadyStates
<1>3. Silent(z)
  BY <1>1 DEF View, StreamOK, Awaiting
<1>4. StreamOK(e, b, z)
  BY <1>3 DEF StreamOK, Down, Offering, Applying, Awaiting, ReadyStates
<1>5. ASSUME Together(e, c, d, x, y) PROVE Together(e, b, d, z, y)
  <2>1. Silent(y) /\ d.state = "send_candidates_wait"
    <3>1. ASSUME Ready(c, d, x, y) PROVE FALSE
      BY <3>1 DEF Ready, Awaiting, ReadyStates
    <3>2. ASSUME Turning(c, d, x, y) \/ Finishing(c, d, x, y) \/ Turning(d, c, y, x)
                 \/ Finishing(d, c, y, x)
          PROVE  FALSE
      BY <1>1, <3>2 DEF Turning, Finishing, Awaiting, ReadyStates
    <3>3. ASSUME Asking(c, d, x, y) PROVE Silent(y) /\ d.state = "send_candidates_wait"
      BY <1>1, <3>3 DEF Asking, Offering, Applying, Awaiting
    <3>4. ASSUME Asking(d, c, y, x) PROVE Silent(y) /\ d.state = "send_candidates_wait"
      BY <1>1, <3>4 DEF Asking, Offering, Applying, Awaiting
    <3> QED BY <1>5, <3>1, <3>2, <3>3, <3>4 DEF Together
  <2> QED BY <1>3, <2>1 DEF Together, Asking, Offering, Applying, Awaiting
<1>6. c.state \notin Closing /\ b.state \notin Down
  BY DEF Closing, Down, Offering, Applying, Awaiting, ReadyStates
<1>7. View(e, k, b, d, z, y)
  BY <1>2, <1>4, <1>5, <1>6, Hears
<1> QED BY <1>7 DEF z

\* A candidate of this end was accepted.
LEMMA IsWanted ==
    ASSUME NEW e \in E, NEW k, NEW c, NEW d, NEW x \in Stream, NEW y, View(e, k, c, d, x, y),
           x # <<>>, Kind(Head(x)) = "accepted",
           c.state = "next_candidate_send_wait",
           NEW b, b.state = "candidate_host_send", b.answered = c.answered, ~b.outstanding
    PROVE  View(e, k, b, d, Tail(x), y)
<1> DEFINE z == Tail(x)
<1>1. /\ ~Silent(x) /\ \A j : Carries(x, j) => j = "accepted" /\ Silent(z)
      /\ \A i, j : CarriesTwo(x, i, j) => i = "accepted"
  BY TailCore DEF Noise
<1> HIDE DEF z
<1>2. SlotOK(e, b)
  BY DEF View, SlotOK, Offering, Answering, Applying, Awaiting, ReadyStates
<1>3. Silent(z)
  BY <1>1 DEF View, StreamOK, Awaiting
<1>4. StreamOK(e, b, z)
  BY <1>3 DEF StreamOK, Down, Offering, Applying, Awaiting, ReadyStates
<1>5. ASSUME Together(e, c, d, x, y) PROVE Together(e, b, d, z, y)
  <2>1. Silent(y) /\ d.state = "candidate_host_wait"
    <3>1. ASSUME Ready(c, d, x, y) PROVE FALSE
      BY <3>1 DEF Ready, Awaiting, ReadyStates
    <3>2. ASSUME Turning(c, d, x, y) \/ Finishing(c, d, x, y) \/ Turning(d, c, y, x)
                 \/ Finishing(d, c, y, x)
          PROVE  FALSE
      BY <1>1, <3>2 DEF Turning, Finishing, Awaiting, ReadyStates
    <3>3. ASSUME Asking(c, d, x, y) PROVE Silent(y) /\ d.state = "candidate_host_wait"
      BY <1>1, <3>3 DEF Asking, Offering, Applying, Awaiting
    <3>4. ASSUME Asking(d, c, y, x) PROVE Silent(y) /\ d.state = "candidate_host_wait"
      BY <1>1, <3>4 DEF Asking, Offering, Applying, Awaiting
    <3> QED BY <1>5, <3>1, <3>2, <3>3, <3>4 DEF Together
  <2> QED BY <1>3, <2>1 DEF Together, Asking, Offering, Applying, Awaiting
<1>6. c.state \notin Closing /\ b.state \notin Down
  BY DEF Closing, Down, Offering, Applying, Awaiting, ReadyStates
<1>7. View(e, k, b, d, z, y)
  BY <1>2, <1>4, <1>5, <1>6, Hears
<1> QED BY <1>7 DEF z

\* The host of a candidate of this end was acknowledged.
LEMMA IsAcknowledged ==
    ASSUME NEW e \in E, NEW k, NEW c, NEW d, NEW x \in Stream, NEW y, View(e, k, c, d, x, y),
           x # <<>>, Kind(Head(x)) = "host_response",
           c.state = "candidate_host_response_wait",
           NEW b, b.state = "send_candidates_remaining_check", b.answered = c.answered, ~b.outstanding
    PROVE  View(e, k, b, d, Tail(x), y)
<1> DEFINE z == Tail(x)
<1>1. /\ ~Silent(x) /\ \A j : Carries(x, j) => j = "host_response" /\ Silent(z)
      /\ \A i, j : CarriesTwo(x, i, j) => i = "host_response"
  BY TailCore DEF Noise
<1> HIDE DEF z
<1>2. SlotOK(e, b)
  BY DEF View, SlotOK, Offering, Answering, Applying, Awaiting, ReadyStates
<1>3. Silent(z)
  BY <1>1 DEF View, StreamOK, Awaiting
<1>4. StreamOK(e, b, z)
  BY <1>3 DEF StreamOK, Down, Offering, Applying, Awaiting, ReadyStates
<1>5. ASSUME Together(e, c, d, x, y) PROVE Together(e, b, d, z, y)
  <2>1. Silent(y) /\ d.state = "send_candidates_wait"
    <3>1. ASSUME Ready(c, d, x, y) PROVE FALSE
      BY <3>1 DEF Ready, Awaiting, ReadyStates
    <3>2. ASSUME Turning(c, d, x, y) \/ Finishing(c, d, x, y) \/ Turning(d, c, y, x)
                 \/ Finishing(d, c, y, x)
          PROVE  FALSE
      BY <1>1, <3>2 DEF Turning, Finishing, Awaiting, ReadyStates
    <3>3. ASSUME Asking(c, d, x, y) PROVE Silent(y) /\ d.state = "send_candidates_wait"
      BY <1>1, <3>3 DEF Asking, Offering, Applying, Awaiting
    <3>4. ASSUME Asking(d, c, y, x) PROVE Silent(y) /\ d.state = "send_candidates_wait"
      BY <1>1, <3>4 DEF Asking, Offering, Applying, Awaiting
    <3> QED BY <1>5, <3>1, <3>2, <3>3, <3>4 DEF Together
  <2> QED BY <1>3, <2>1 DEF Together, Asking, Offering, Applying, Awaiting
<1>6. c.state \notin Closing /\ b.state \notin Down
  BY DEF Closing, Down, Offering, Applying, Awaiting, ReadyStates
<1>7. View(e, k, b, d, z, y)
  BY <1>2, <1>4, <1>5, <1>6, Hears
<1> QED BY <1>7 DEF z

\* The connecting end learns that the candidates of the accepting end are through.
LEMMA IsTurned ==
    ASSUME NEW k, NEW c, NEW d, NEW x \in Stream, NEW y, View("cl", k, c, d, x, y),
           x # <<>>, Kind(Head(x)) = "send_candidates_response",
           c.state \in Awaiting,
           NEW b, b.state = "send_candidates_message_wait", ~b.outstanding
    PROVE  View("cl", k, b, d, Tail(x), y)
<1> DEFINE z == Tail(x)
<1>1. /\ ~Silent(x) /\ \A j : Carries(x, j) => j = "send_candidates_response" /\ Silent(z)
      /\ \A i, j : CarriesTwo(x, i, j) => i = "send_candidates_response" /\ Carries(z, j)
  BY TailCore DEF Noise
<1> HIDE DEF z
<1>2. SlotOK("cl", b)
  BY DEF View, SlotOK, Offering, Answering, Applying, Awaiting, ReadyStates
<1>3. Silent(z) \/ Carries(z, "send_candidates")
  BY <1>1 DEF View, StreamOK, Awaiting
<1>4. StreamOK("cl", b, z)
  BY <1>3 DEF StreamOK, Down, Offering, Applying, Awaiting, ReadyStates
<1>5. ASSUME Together("cl", c, d, x, y) PROVE Together("cl", b, d, z, y)
  <2>1. Turning(c, d, x, y)
    <3>1. ~Ready(c, d, x, y) /\ ~Finishing(c, d, x, y)
      BY DEF Ready, Finishing, Awaiting, ReadyStates
    <3>2. ~Asking(c, d, x, y) /\ ~Asking(d, c, y, x)
      BY <1>1 DEF Asking, Offering, Applying, Awaiting
    <3> QED BY <1>5, <3>1, <3>2 DEF Together
  <2>2. Silent(y) /\ \/ d.state = "send_candidates_send" /\ Silent(z)
                     \/ d.state = "send_candidates_wait" /\ Carries(z, "send_candidates")
    BY <1>1, <2>1 DEF Turning
  <2> QED BY <2>2 DEF Together, Asking
<1>6. c.state \notin Closing /\ b.state \notin Down /\ "cl" \in E
  BY DEF Closing, Down, Awaiting, E
<1>7. View("cl", k, b, d, z, y)
  BY <1>2, <1>4, <1>5, <1>6, Hears
<1> QED BY <1>7 DEF z

\* The accepting end learns that the candidates of the connecting end are through, and is
\* ready; an update may already be under way.
LEMMA IsFinished ==
    ASSUME NEW k, NEW c, NEW d, NEW x \in Stream, NEW y, View("sv", k, c, d, x, y),
           x # <<>>, Kind(Head(x)) = "send_candidates_response",
           c.state \in Awaiting,
           NEW b, b.state \in ReadyStates, SlotOK("sv", b), ~b.outstanding, b.answered = c.answered
    PROVE  View("sv", k, b, d, Tail(x), y)
<1> DEFINE z == Tail(x)
<1>1. /\ ~Silent(x) /\ \A j : Carries(x, j) => j = "send_candidates_response" /\ Silent(z)
      /\ \A i, j : CarriesTwo(x, i, j) => i = "send_candidates_response" /\ Carries(z, j)
  BY TailCore DEF Noise
<1> HIDE DEF z
<1>2. Silent(z) \/ Carries(z, "host")
  BY <1>1 DEF View, StreamOK, Awaiting
<1>3. /\ Silent(z) => ReadyStream(z) /\ ~Has(z, "host") /\ ~Has(z, "host_response")
      /\ Carries(z, "host") => ReadyStream(z) /\ Has(z, "host") /\ ~Has(z, "host_response")
  BY StreamFacts DEF Noise
<1>4. StreamOK("sv", b, z)
  BY <1>2, <1>3 DEF StreamOK, Down, Offering, Applying, Awaiting, ReadyStates
<1>5. ASSUME Together("sv", c, d, x, y) PROVE Together("sv", b, d, z, y)
  <2>1. Finishing(d, c, y, x)
    <3>1. ~Ready(c, d, x, y)
      BY DEF Ready, Awaiting, ReadyStates
    <3>2. ~Asking(c, d, x, y) /\ ~Asking(d, c, y, x)
      BY <1>1 DEF Asking, Offering, Applying, Awaiting
    <3>3. ~Turning(d, c, y, x)
      BY <1>1 DEF Turning
    <3> QED BY <1>5, <3>1, <3>2, <3>3 DEF Together
  <2>2. /\ ReadyStream(y) /\ ~Has(y, "host") /\ ~Has(y, "host_response")
        /\ d.answered /\ d.state \in ReadyStates
    BY <2>1, StreamFacts DEF Finishing, Noise
  <2>3. b.answered
    BY DEF View, SlotOK
  <2>4. (d.outstanding => Carries(z, "host")) /\ (~d.outstanding => Silent(z))
    BY <1>1, <2>1 DEF Finishing
  <2>5. Flow(b, d, z, y)
    BY <1>2, <1>3, <2>2 DEF Flow
  <2>6. Flow(d, b, y, z)
    BY <1>3, <2>2, <2>3, <2>4 DEF Flow
  <2>7. ReadyStream(z)
    BY <1>2, <1>3
  <2> QED BY <2>2, <2>5, <2>6, <2>7 DEF Together, Ready
<1>6. c.state \notin Closing /\ b.state \notin Down /\ "sv" \in E
  BY DEF Closing, Down, Awaiting, ReadyStates, E
<1>7. View("sv", k, b, d, z, y)
  BY <1>4, <1>5, <1>6, Hears
<1> QED BY <1>7 DEF z

\* An end in the ready phase with something to receive is there with its peer.
LEMMA HearsInReady ==
    ASSUME NEW e, NEW c, NEW d, NEW x \in Stream, NEW y, Together(e, c, d, x, y),
           c.state \in ReadyStates, x # <<>>, Kind(Head(x)) \notin Noise
    PROVE  Ready(c, d, x, y)
<1>1. ~Silent(x)
  BY TailCore
<1> QED BY <1>1, InReady DEF Finishing

\* In the ready phase an update of the peer is received.
LEMMA IsUpdated ==
    ASSUME NEW e \in E, NEW k, NEW c, NEW d, NEW x \in Stream, NEW y, View(e, k, c, d, x, y),
           x # <<>>, Kind(Head(x)) = "host", c.state \in ReadyStates,
           NEW b, b.state \in ReadyStates, SlotOK(e, b), ~b.answered, b.outstanding = c.outstanding
    PROVE  View(e, k, b, d, Tail(x), y)
<1> DEFINE z == Tail(x)
<1>1. /\ Has(x, "host") /\ (Has(z, "host_response") <=> Has(x, "host_response"))
      /\ ReadyStream(x) => ReadyStream(z) /\ ~Has(z, "host")
  BY TailCore DEF Noise
<1> HIDE DEF z
<1>2. StreamOK(e, b, z)
  BY <1>1 DEF View, StreamOK, Down, Offering, Applying, Awaiting, ReadyStates
<1>3. ASSUME Together(e, c, d, x, y) PROVE Together(e, b, d, z, y)
  <2>1. Ready(c, d, x, y)
    BY <1>3, HearsInReady DEF Noise
  <2>2. Flow(b, d, z, y)
    BY <1>1, <2>1 DEF Ready, Flow
  <2>3. Flow(d, b, y, z)
    BY <1>1, <2>1 DEF Ready, Flow
  <2> QED BY <1>1, <2>1, <2>2, <2>3 DEF Together, Ready
<1>4. c.state \notin Closing /\ b.state \notin Down
  BY DEF Closing, Down, ReadyStates
<1>5. View(e, k, b, d, z, y)
  BY <1>2, <1>3, <1>4, Hears
<1> QED BY <1>5 DEF z

\* In the ready phase an acknowledgement is received: an update was outstanding, and it
\* is at the head of the queue.
LEMMA Outstanding ==
    ASSUME NEW e, NEW k, NEW c, NEW d, NEW x \in Stream, NEW y, View(e, k, c, d, x, y),
           x # <<>>, Kind(Head(x)) = "host_response", c.state \in ReadyStates
    PROVE  c.outstanding /\ c.queue # <<>> /\ Head(c.queue).sent
<1>1. Has(x, "host_response")
  BY TailCore DEF Noise
<1> QED BY <1>1 DEF View, StreamOK, SlotOK

LEMMA UpdateAcknowledged ==
    ASSUME NEW e \in E, NEW k, NEW c, NEW d, NEW x \in Stream, NEW y, View(e, k, c, d, x, y),
           x # <<>>, Kind(Head(x)) = "host_response", c.state \in ReadyStates,
           NEW b, b.state \in ReadyStates, SlotOK(e, b), b.answered = c.answered, ~b.outstanding
    PROVE  View(e, k, b, d, Tail(x), y)
<1> DEFINE z == Tail(x)
<1>1. /\ Has(x, "host_response") /\ (Has(z, "host") <=> Has(x, "host"))
      /\ ReadyStream(x) => ReadyStream(z) /\ ~Has(z, "host_response")
  BY TailCore DEF Noise
<1> HIDE DEF z
<1>2. StreamOK(e, b, z)
  BY <1>1 DEF View, StreamOK, Down, Offering, Applying, Awaiting, ReadyStates
<1>3. ASSUME Together(e, c, d, x, y) PROVE Together(e, b, d, z, y)
  <2>1. Ready(c, d, x, y)
    BY <1>3, HearsInReady DEF Noise
  <2>2. Flow(b, d, z, y)
    BY <1>1, <2>1 DEF Ready, Flow
  <2>3. Flow(d, b, y, z)
    BY <1>1, <2>1 DEF Ready, Flow
  <2> QED BY <1>1, <2>1, <2>2, <2>3 DEF Together, Ready
<1>4. c.state \notin Closing /\ b.state \notin Down
  BY DEF Closing, Down, ReadyStates
<1>5. View(e, k, b, d, z, y)
  BY <1>2, <1>3, <1>4, Hears
<1> QED BY <1>5 DEF z

-----------------------------------------------------------------------------
(* The steps.                                                              *)

LEMMA SeenByBoth ==
    ASSUME NEW e \in E, NEW k, NEW c, NEW d, NEW x, NEW y, View(e, k, c, d, x, y)
    PROVE  View(Peer(e), k, d, c, y, x)
<1>1. Ready(c, d, x, y) => Ready(d, c, y, x)
  BY DEF Ready
<1>2. Together(e, c, d, x, y) => Together(Peer(e), d, c, y, x)
  BY <1>1, PeerFacts DEF Together, E
<1> QED BY <1>2, PeerFacts DEF View

LEMMA Assembled ==
    ASSUME NEW e \in E, View(e, link', conn'[e], conn'[Peer(e)], net'[e], net'[Peer(e)])
    PROVE  Conversation'
<1>1. View(Peer(e), link', conn'[Peer(e)], conn'[e], net'[Peer(e)], net'[e])
  BY SeenByBoth
<1>2. E = {e, Peer(e)} /\ Peer(Peer(e)) = e
  BY DEF E, Peer
<1> QED BY <1>1, <1>2 DEF Conversation

\* What is known of end e before a step.
LEMMA Before ==
    ASSUME IInv, Conversation, NEW e \in E
    PROVE  /\ Fit(conn[e]) /\ AttachedTo(conn[e])
           /\ net[e] \in Stream /\ net[Peer(e)] \in Stream
           /\ View(e, link, conn[e], conn[Peer(e)], net[e], net[Peer(e)])
<1>1. ConnOK /\ NetOK
  BY DEF IInv
<1>2. Fit(conn[e]) /\ AttachedTo(conn[e])
  BY <1>1, ConnFacts DEF Good
<1>3. net[e] \in Stream /\ net[Peer(e)] \in Stream
  BY <1>1, PeerFacts DEF NetOK, Stream
<1> QED BY <1>2, <1>3 DEF Conversation

\* End e takes a step by itself, sends, or receives.
LEMMA StepsAlone ==
    ASSUME IInv, NEW e \in E, NEW b, conn' = [conn EXCEPT ![e] = b], UNCHANGED <<net, link>>,
           View(e, link, b, conn[Peer(e)], net[e], net[Peer(e)])
    PROVE  Conversation'
<1>1. conn'[e] = b /\ conn'[Peer(e)] = conn[Peer(e)]
  BY PeerFacts DEF IInv, ConnOK
<1> QED BY <1>1, Assembled

LEMMA StepsSending ==
    ASSUME IInv, NEW e \in E, NEW b, conn' = [conn EXCEPT ![e] = b], UNCHANGED link,
           NEW m, Transmit(e, m),
           View(e, link, b, conn[Peer(e)], net[e], Sent(link, net[Peer(e)], m))
    PROVE  Conversation'
<1>1. conn'[e] = b /\ conn'[Peer(e)] = conn[Peer(e)]
  BY PeerFacts DEF IInv, ConnOK
<1>2. net'[e] = net[e] /\ net'[Peer(e)] = Sent(link, net[Peer(e)], m)
  BY PeerFacts DEF IInv, NetOK, Transmit, Sent
<1> QED BY <1>1, <1>2, Assembled

LEMMA StepsReceiving ==
    ASSUME IInv, NEW e \in E, NEW b, conn' = [conn EXCEPT ![e] = b], UNCHANGED link,
           Consume(e), View(e, link, b, conn[Peer(e)], Tail(net[e]), net[Peer(e)])
    PROVE  Conversation'
<1>1. conn'[e] = b /\ conn'[Peer(e)] = conn[Peer(e)]
  BY PeerFacts DEF IInv, ConnOK
<1>2. net'[e] = Tail(net[e]) /\ net'[Peer(e)] = net[Peer(e)]
  BY PeerFacts DEF IInv, NetOK, Consume
<1> QED BY <1>1, <1>2, Assembled

\* The fields of a connection.
LEMMA ToFields ==
    ASSUME NEW c, Fit(c), NEW s
    PROVE  To(c, s).state = s /\ SameFlags(To(c, s), c) /\ To(c, s).queue = c.queue
  BY DEF To, Fit, ConnectionType, SameFlags

LEMMA ToReadyFields ==
    ASSUME NEW c, Fit(c), c.outstanding => c.queue # <<>> /\ Head(c.queue).sent, NEW e
    PROVE  /\ ToReady(c).state \in ReadyStates /\ SlotOK(e, ToReady(c))
           /\ SameFlags(ToReady(c), c) /\ ToReady(c).queue = c.queue
<1> DEFINE b == ToReady(c)
<1>1. /\ b.state \in {"ready", "srp_client_update_send"}
      /\ b.state = "srp_client_update_send" => ~Head(c.queue).sent
      /\ SameFlags(b, c) /\ b.queue = c.queue
  BY ToFields DEF ToReady
<1> HIDE DEF b
<1>2. b.state \in ReadyStates
  BY <1>1 DEF ReadyStates
<1>3. SlotOK(e, b)
  BY <1>1 DEF SlotOK, SameFlags, Offering, Answering, Applying, Awaiting, ReadyStates
<1> QED BY <1>1, <1>2, <1>3 DEF b

\* The session opens: nothing is in flight, and the connecting end is about to ask.
LEMMA EstablishTalks == ASSUME IInv, Conversation, Establish PROVE Conversation'
<1> DEFINE b == [To(conn["cl"], "send_candidates_send") EXCEPT !.outstanding = FALSE]
           d == Connection("send_candidates_message_wait")
<1>1. "cl" \in E /\ "sv" \in E /\ Peer("cl") = "sv"
  BY DEF E, Peer
<1>2. Fit(conn["cl"])
  BY <1>1, Before
<1>3. b.state = "send_candidates_send" /\ ~b.outstanding
  BY <1>2 DEF To, Fit, ConnectionType
<1>4. d.state = "send_candidates_message_wait" /\ ~d.outstanding
  BY DEF Connection
<1>5. conn'["cl"] = b /\ conn'["sv"] = d /\ net'["cl"] = <<>> /\ net'["sv"] = <<>>
  BY <1>1 DEF Establish, IInv, ConnOK
<1> HIDE DEF b, d
<1>6. SlotOK("cl", b) /\ SlotOK("sv", d)
  BY <1>3, <1>4 DEF SlotOK, Offering, Answering, Applying, Awaiting, ReadyStates
<1>7. StreamOK("cl", b, <<>>) /\ StreamOK("sv", d, <<>>)
  BY <1>3, <1>4, EmptyStream DEF StreamOK, Down, Offering, Applying, Awaiting, ReadyStates
<1>8. Together("cl", b, d, <<>>, <<>>)
  BY <1>3, <1>4, EmptyStream DEF Together, Asking
<1>9. View("cl", TRUE, b, d, <<>>, <<>>)
  BY <1>1, <1>3, <1>4, <1>6, <1>7, <1>8 DEF View, Down
<1>10. link' = TRUE
  BY DEF Establish
<1> QED BY <1>1, <1>5, <1>9, <1>10, Assembled

LEMMA LoseConnectionTalks == ASSUME IInv, Conversation, LoseConnection PROVE Conversation'
<1>1. "cl" \in E /\ "sv" \in E /\ Peer("cl") = "sv"
  BY DEF E, Peer
<1>2. View("cl", FALSE, conn["cl"], conn["sv"], <<>>, <<>>)
  BY <1>1, Before, NothingInFlight
<1>3. conn' = conn /\ net'["cl"] = <<>> /\ net'["sv"] = <<>> /\ link' = FALSE
  BY <1>1 DEF LoseConnection
<1> QED BY <1>1, <1>2, <1>3, Assembled

\* The end of a connection that is down.
LEMMA DownTalks ==
    ASSUME IInv, Conversation, NEW e \in E, NEW b, b.state \in Down,
           conn' = [conn EXCEPT ![e] = b], net' = [net EXCEPT ![e] = <<>>], link' = FALSE
    PROVE  Conversation'
<1>1. conn'[e] = b /\ conn'[Peer(e)] = conn[Peer(e)]
  BY PeerFacts DEF IInv, ConnOK
<1>2. net'[e] = <<>> /\ net'[Peer(e)] = net[Peer(e)]
  BY PeerFacts DEF IInv, NetOK
<1>3. View(e, FALSE, b, conn[Peer(e)], <<>>, net[Peer(e)])
  BY Before, GoesDown
<1> QED BY <1>1, <1>2, <1>3, Assembled

\* An end closes on a message it takes off its stream.
LEMMA ClosesTalks ==
    ASSUME IInv, Conversation, NEW e \in E, NEW b, b.state \in Closing, UNCHANGED link,
           conn' = [conn EXCEPT ![e] = b],
           \/ UNCHANGED net
           \/ Consume(e)
           \/ /\ link
              /\ net' = [net EXCEPT ![e] = Tail(@),
                                    ![Peer(e)] = Append(@, Response("retry_delay", "none"))]
           \/ net' = [net EXCEPT ![e] = Tail(@),
                                 ![Peer(e)] = IF e = "sv" /\ link
                                              THEN Append(@, Response("retry_delay", "none")) ELSE @]
    PROVE  Conversation'
<1> DEFINE m == Response("retry_delay", "none")
           y == net[Peer(e)]
<1>1. conn'[e] = b /\ conn'[Peer(e)] = conn[Peer(e)]
  BY PeerFacts DEF IInv, ConnOK
<1>2. m \in MessageType /\ Kind(m) \in Noise
  <2>1. m \in MessageType
    BY ResponseType DEF Answers
  <2>2. Kind(m) = "retry_delay"
    BY DEF Kind, Response
  <2> QED BY <2>1, <2>2 DEF Noise
<1>3. y \in Stream
  BY Before
<1>4. Alike(y, Append(y, m))
  BY <1>2, <1>3, AppendNoise
<1>5. net'[Peer(e)] = y \/ (link /\ Alike(y, net'[Peer(e)]))
  <2>1. CASE UNCHANGED net
    BY <2>1
  <2>2. CASE Consume(e)
    BY <2>2, PeerFacts DEF Consume, IInv, NetOK
  <2>3. CASE net' = [net EXCEPT ![e] = Tail(@),
                                ![Peer(e)] = IF e = "sv" /\ link THEN Append(@, m) ELSE @]
    <3>1. net'[Peer(e)] = IF e = "sv" /\ link THEN Append(y, m) ELSE y
      BY <2>3, PeerFacts DEF IInv, NetOK
    <3> QED BY <1>4, <3>1
  <2>4. CASE link /\ net' = [net EXCEPT ![e] = Tail(@), ![Peer(e)] = Append(@, m)]
    <3>1. net'[Peer(e)] = Append(y, m)
      BY <2>4, PeerFacts DEF IInv, NetOK
    <3> QED BY <1>4, <2>4, <3>1
  <2> QED BY <2>1, <2>2, <2>3, <2>4
<1>6. View(e, link, conn[e], conn[Peer(e)], net[e], y)
  BY Before
<1> HIDE DEF y, m
<1>7. View(e, link, b, conn[Peer(e)], net'[e], net'[Peer(e)])
  BY <1>3, <1>5, <1>6, Closes
<1> QED BY <1>1, <1>7, Assembled

\* A session that ends, by either end.
LEMMA LossTalks ==
    ASSUME IInv, Conversation, NEW e \in E,
           \/ NoticeLoss(e) \/ srpl_disconnect_action(e) \/ srpl_disconnect_wait_action(e)
           \/ srpl_disconnect(e) \/ srpl_dso_retry_delay(e)
    PROVE  Conversation'
<1> DEFINE c == conn[e]
<1>1. Fit(c) /\ net \in [E -> Seq(MessageType)]
  BY Before DEF IInv, NetOK
<1>2. srpl_disconnected_callback(e, c).state \in Down
  <2>1. CASE e = "sv"
    BY <2>1 DEF srpl_disconnected_callback, Connection, Down
  <2>2. CASE e # "sv"
    BY <1>1, <2>2, ToFields DEF srpl_disconnected_callback, Down
  <2> QED BY <2>1, <2>2
<1>3. /\ To(srpl_connection_attachments_free(c), "disconnect_wait").state \in Closing
      /\ srpl_connection_discontinue(c).state \in Closing
  <2>1. Fit(srpl_connection_attachments_free(c))
    BY <1>1, FreeFit
  <2> DEFINE f == srpl_connection_attachments_free(c)
             g == [f EXCEPT !.not_generated = TRUE]
  <2>2. Fit(g)
    BY <2>1, FlagsFit
  <2> HIDE DEF f
  <2>3. To(f, "disconnect_wait").state = "disconnect_wait"
    BY <2>1, ToFields DEF f
  <2> HIDE DEF g
  <2>4. To(g, "disconnect").state = "disconnect"
    BY <2>2, ToFields
  <2>5. srpl_connection_discontinue(c) = To(g, "disconnect")
    BY DEF srpl_connection_discontinue, g, f
  <2> QED BY <2>3, <2>4, <2>5 DEF Closing, f
<1>4. CASE NoticeLoss(e)
  <2>1. net[e] = <<>> /\ net' = net /\ ~link /\ link' = link
    BY <1>4 DEF NoticeLoss
  <2>2. net' = [net EXCEPT ![e] = <<>>] /\ link' = FALSE
    BY <1>1, <2>1 DEF IInv, RestOK
  <2>3. conn' = [conn EXCEPT ![e] = srpl_disconnected_callback(e, c)]
    BY <1>4 DEF NoticeLoss
  <2> QED BY <1>2, <2>2, <2>3, DownTalks
<1>5. CASE srpl_disconnect_action(e)
  BY <1>3, <1>5, ClosesTalks DEF srpl_disconnect_action
<1>6. CASE srpl_disconnect_wait_action(e)
  BY <1>2, <1>6, DownTalks DEF srpl_disconnect_wait_action
<1>7. CASE srpl_disconnect(e)
  BY <1>3, <1>7, ClosesTalks DEF srpl_disconnect, Consume
<1>8. CASE srpl_dso_retry_delay(e)
  BY <1>3, <1>8, ClosesTalks DEF srpl_dso_retry_delay
<1> QED BY <1>4, <1>5, <1>6, <1>7, <1>8

\* The kinds of the messages.
LEMMA Kinds ==
    /\ \A type, h, msg, age, key :
          type # "candidate_response" => Kind(Request(type, h, msg, age, key)) = type
    /\ \A type, answer :
          type # "candidate_response" => Kind(Response(type, answer)) = type
    /\ \A answer : Kind(Response("candidate_response", answer))
                     = IF answer = "yes" THEN "accepted" ELSE "candidate_response"
  BY DEF Kind, Request, Response

\* The connection after a request, or after a response, was sent from state s.
LEMMA FlagFields ==
    ASSUME NEW c, Fit(c), NEW s, NEW v
    PROVE  /\ LET b == [To(c, s) EXCEPT !.outstanding = v]
              IN  /\ b.state = s /\ b.queue = c.queue
                  /\ b.outstanding = v /\ b.answered = c.answered
           /\ LET b == [To(c, s) EXCEPT !.answered = v]
              IN  /\ b.state = s /\ b.queue = c.queue
                  /\ b.outstanding = c.outstanding /\ b.answered = v
  BY DEF To, Fit, ConnectionType

\* The end that asks.
LEMMA AskingTalks ==
    ASSUME IInv, Conversation, NEW e \in E, srpl_send_candidates_send_action(e)
    PROVE  Conversation'
<1> DEFINE c == conn[e]
           m == Request("send_candidates", NoHost, 0, 0, 0)
           b == [To(c, "send_candidates_wait") EXCEPT !.outstanding = TRUE]
<1>1. m \in MessageType
  BY DEF Request, MessageType
<1>2. Kind(m) = "send_candidates"
  BY Kinds
<1>3. b.state = "send_candidates_wait" /\ b.answered = c.answered
  BY Before, FlagFields
<1>4. c.state = "send_candidates_send" /\ Transmit(e, m) /\ conn' = [conn EXCEPT ![e] = b]
      /\ UNCHANGED link
  BY DEF srpl_send_candidates_send_action, SendRequest
<1> HIDE DEF m, b
<1>5. View(e, link, b, conn[Peer(e)], net[e], Sent(link, net[Peer(e)], m))
  BY <1>1, <1>2, <1>3, <1>4, Before, Asks
<1> QED BY <1>4, <1>5, StepsSending

\* The candidate is wanted or not.
LEMMA CheckTalks ==
    ASSUME IInv, Conversation, NEW e \in E, srpl_candidate_check_action(e)
    PROVE  Conversation'
<1> DEFINE c == conn[e]
           a == srpl_candidate_host_check(host[e][c.candidate.name], c.candidate)
           s == IF a = "yes" THEN "candidate_host_wait" ELSE "send_candidates_wait"
           m == Response("candidate_response", a)
           b == [To(c, s) EXCEPT !.answered = TRUE]
<1>1. /\ Fit(c) /\ net[Peer(e)] \in Stream
      /\ View(e, link, conn[e], conn[Peer(e)], net[e], net[Peer(e)])
  BY Before
<1>2. c.state = "candidate_check"
  BY DEF srpl_candidate_check_action
<1>3. ~c.answered
  BY <1>1, <1>2 DEF View, SlotOK
<1>4. ~To(c, s).answered
  BY <1>1, <1>3, ToFields DEF SameFlags
<1>5. Transmit(e, m) /\ conn' = [conn EXCEPT ![e] = b] /\ UNCHANGED link
  BY <1>4 DEF srpl_candidate_check_action, SendResponse
<1>6. m \in MessageType
  BY CheckAnswers, ResponseType
<1>7. b.state = s /\ b.answered
  BY <1>1, FlagFields
<1>8. Kind(m) = IF a = "yes" THEN "accepted" ELSE "candidate_response"
  BY Kinds
<1> HIDE DEF m, b, a
<1>9. View(e, link, b, conn[Peer(e)], net[e], Sent(link, net[Peer(e)], m))
  <2>1. CASE a = "yes"
    BY <1>1, <1>2, <1>6, <1>7, <1>8, <2>1, Wants
  <2>2. CASE a # "yes"
    BY <1>1, <1>2, <1>6, <1>7, <1>8, <2>2, Refuses
  <2> QED BY <2>1, <2>2
<1> QED BY <1>5, <1>9, StepsSending

\* A host that was asked for has been dealt with: the response goes out and the next
\* candidate is awaited.
LEMMA AcknowledgeTalks ==
    ASSUME IInv, Conversation, NEW e \in E, conn[e].state \in Applying,
           NEW answer \in Rcodes, NEW c, SameFlags(c, conn[e]), Fit(c), UNCHANGED link,
           SendResponse(e, "host_response", answer, To(c, "send_candidates_wait"))
    PROVE  Conversation'
<1> DEFINE m == Response("host_response", answer)
           b == [To(c, "send_candidates_wait") EXCEPT !.answered = TRUE]
<1>1. /\ net[Peer(e)] \in Stream
      /\ View(e, link, conn[e], conn[Peer(e)], net[e], net[Peer(e)])
  BY Before
<1>2. ~conn[e].answered
  BY <1>1 DEF View, SlotOK
<1>3. ~To(c, "send_candidates_wait").answered
  BY <1>2, ToFields DEF SameFlags
<1>4. Transmit(e, m) /\ conn' = [conn EXCEPT ![e] = b]
  BY <1>3 DEF SendResponse
<1>5. m \in MessageType /\ Kind(m) = "host_response"
  BY ResponseType, Kinds DEF Answers
<1>6. b.state = "send_candidates_wait" /\ b.answered
  BY FlagFields
<1> HIDE DEF m, b
<1>7. View(e, link, b, conn[Peer(e)], net[e], Sent(link, net[Peer(e)], m))
  BY <1>1, <1>5, <1>6, Acknowledges
<1> QED BY <1>4, <1>7, StepsSending

\* The next candidate, and the host of one that is wanted.
LEMMA OfferTalks ==
    ASSUME IInv, Conversation, NEW e \in E, srpl_next_candidate_send_action(e)
    PROVE  Conversation'
<1> DEFINE c == conn[e]
           h == c.current.host
           m == Request("candidate", h, 0, clock - host[e][h].time, host[e][h].key)
           b == [To(c, "next_candidate_send_wait") EXCEPT !.outstanding = TRUE]
<1>1. /\ Fit(c) /\ net[Peer(e)] \in Stream /\ AttachedTo(c)
      /\ View(e, link, conn[e], conn[Peer(e)], net[e], net[Peer(e)])
  BY Before
<1>2. c.state = "next_candidate_send" /\ Transmit(e, m) /\ conn' = [conn EXCEPT ![e] = b]
      /\ UNCHANGED link
  BY DEF srpl_next_candidate_send_action, SendRequest
<1>3. h \in Hosts
  BY <1>1, <1>2 DEF AttachedTo, NeedsCurrent, Fit, ConnectionType, Refs
<1>4. m \in MessageType
  BY <1>3, HostMessageType DEF IInv
<1>5. Kind(m) = "candidate"
  BY Kinds
<1>6. b.state = "next_candidate_send_wait" /\ b.answered = c.answered
  BY <1>1, FlagFields
<1> HIDE DEF m, b
<1>7. View(e, link, b, conn[Peer(e)], net[e], Sent(link, net[Peer(e)], m))
  BY <1>1, <1>2, <1>4, <1>5, <1>6, Offers
<1> QED BY <1>2, <1>7, StepsSending

LEMMA GiveTalks ==
    ASSUME IInv, Conversation, NEW e \in E, srpl_candidate_host_send_action(e)
    PROVE  Conversation'
<1> DEFINE c == conn[e]
           h == c.current.host
           m == HostMessage(e, h)
           b == [To(c, "candidate_host_response_wait") EXCEPT !.outstanding = TRUE]
           n == To(c, "send_candidates_remaining_check")
<1>1. /\ Fit(c) /\ net[Peer(e)] \in Stream /\ AttachedTo(c)
      /\ View(e, link, conn[e], conn[Peer(e)], net[e], net[Peer(e)])
  BY Before
<1>2. c.state = "candidate_host_send" /\ UNCHANGED link
  BY DEF srpl_candidate_host_send_action
<1>3. CASE CanSendHost(e, c.current)
  <2>1. Transmit(e, m) /\ conn' = [conn EXCEPT ![e] = b]
    BY <1>3 DEF srpl_candidate_host_send_action, SendRequest
  <2>2. h \in Hosts
    BY <1>1, <1>2 DEF AttachedTo, NeedsCurrent, Fit, ConnectionType, Refs
  <2>3. m \in MessageType
    BY <2>2, HostMessageType DEF IInv
  <2>4. Kind(m) = "host"
    BY Kinds DEF HostMessage
  <2>5. b.state = "candidate_host_response_wait" /\ b.answered = c.answered
    BY <1>1, FlagFields
  <2> HIDE DEF m, b
  <2>6. View(e, link, b, conn[Peer(e)], net[e], Sent(link, net[Peer(e)], m))
    BY <1>1, <1>2, <2>3, <2>4, <2>5, Gives
  <2> QED BY <1>2, <2>1, <2>6, StepsSending
<1>4. CASE ~CanSendHost(e, c.current)
  <2>1. conn' = [conn EXCEPT ![e] = n] /\ UNCHANGED net
    BY <1>4 DEF srpl_candidate_host_send_action
  <2>2. n.state = "send_candidates_remaining_check" /\ SameFlags(n, c)
    BY <1>1, ToFields
  <2> HIDE DEF n
  <2>3. SlotOK(e, n) /\ n.state \in Offering
    BY <1>1, <1>2, <2>2 DEF View, SlotOK, SameFlags, Offering, Answering, Applying, Awaiting, ReadyStates
  <2>4. View(e, link, n, conn[Peer(e)], net[e], net[Peer(e)])
    BY <1>1, <1>2, <2>2, <2>3, GoesOn
  <2> QED BY <1>2, <2>1, <2>4, StepsAlone
<1> QED BY <1>3, <1>4

\* The candidates of this end are through.
LEMMA ThroughTalks ==
    ASSUME IInv, Conversation, NEW e \in E, srpl_send_candidates_response_send_action(e)
    PROVE  Conversation'
<1> DEFINE c == conn[e]
           f == IF e = "sv" THEN To(c, "send_candidates_send")
                ELSE ToReady([c EXCEPT !.synchronized = TRUE])
           m == Response("send_candidates_response", "noerror")
           b == [f EXCEPT !.answered = TRUE]
<1>1. /\ Fit(c) /\ net[Peer(e)] \in Stream
      /\ View(e, link, conn[e], conn[Peer(e)], net[e], net[Peer(e)])
  BY Before
<1>2. c.state = "send_candidates_response_send" /\ UNCHANGED link
      /\ SendResponse(e, "send_candidates_response", "noerror", f)
  BY DEF srpl_send_candidates_response_send_action
<1>3. ~c.answered /\ ~c.outstanding
  BY <1>1, <1>2 DEF View, SlotOK, Offering, Answering
<1>4. m \in MessageType
  BY ResponseType DEF Answers, Rcodes
<1>5. Kind(m) = "send_candidates_response"
  BY Kinds
<1> HIDE DEF m
<1>6. CASE e = "sv"
  <2>1. f = To(c, "send_candidates_send")
    BY <1>6
  <2>2. f.answered = c.answered
    BY <1>1, <2>1, ToFields DEF SameFlags
  <2>3. b.state = "send_candidates_send" /\ b.answered /\ b.outstanding = c.outstanding
    BY <1>1, <2>1, FlagFields
  <2>4. Transmit(e, m) /\ conn' = [conn EXCEPT ![e] = b]
    BY <1>2, <1>3, <2>2 DEF SendResponse, m
  <2> HIDE DEF b, f
  <2>5. View("sv", link, b, conn[Peer(e)], net[e], Sent(link, net[Peer(e)], m))
    BY <1>1, <1>2, <1>4, <1>5, <1>6, <2>3, Turns
  <2> QED BY <1>2, <1>6, <2>4, <2>5, StepsSending
<1>7. CASE e # "sv"
  <2> DEFINE g == [c EXCEPT !.synchronized = TRUE]
  <2>1. e = "cl"
    BY <1>7 DEF E
  <2>2. Fit(g)
    BY <1>1, FlagsFit
  <2>3. g.outstanding = c.outstanding /\ g.answered = c.answered
    BY <1>1 DEF Fit, ConnectionType
  <2>4. f = ToReady(g)
    BY <1>7
  <2> HIDE DEF g
  <2>5. f.state \in ReadyStates /\ SlotOK(e, f) /\ SameFlags(f, g)
    BY <1>3, <2>2, <2>3, <2>4, ToReadyFields
  <2>6. Fit(f)
    BY <2>2, <2>4, ToReadyGood DEF Good
  <2> HIDE DEF f
  <2>7. b.state = f.state /\ b.answered /\ b.outstanding = f.outstanding /\ b.queue = f.queue
    BY <2>6 DEF Fit, ConnectionType
  <2>8. ~f.answered /\ ~f.outstanding
    BY <1>3, <2>3, <2>5 DEF SameFlags
  <2>9. Transmit(e, m) /\ conn' = [conn EXCEPT ![e] = b]
    BY <1>2, <2>8 DEF SendResponse, m
  <2> HIDE DEF b
  <2>10. SlotOK("cl", b)
    BY <2>1, <2>5, <2>7 DEF SlotOK, Offering, Answering, Applying, Awaiting, ReadyStates
  <2>11. View("cl", link, b, conn[Peer(e)], net[e], Sent(link, net[Peer(e)], m))
    BY <1>1, <1>2, <1>4, <1>5, <2>1, <2>5, <2>7, <2>8, <2>10, Finishes
  <2> QED BY <1>2, <2>1, <2>9, <2>11, StepsSending
<1> QED BY <1>6, <1>7

\* Going through the list of candidates.
LEMMA ListTalks ==
    ASSUME IInv, Conversation, NEW e \in E,
           srpl_send_candidates_received_action(e) \/ srpl_candidates_remaining_check_action(e)
    PROVE  Conversation'
<1> DEFINE c == conn[e]
<1>1. Fit(c) /\ View(e, link, conn[e], conn[Peer(e)], net[e], net[Peer(e)])
  BY Before
<1>2. ASSUME NEW b, b.state \in Offering, SameFlags(b, c), conn' = [conn EXCEPT ![e] = b],
             UNCHANGED <<net, link>>, c.state \in Offering
      PROVE  Conversation'
  <2>1. SlotOK(e, b)
    BY <1>1, <1>2 DEF View, SlotOK, SameFlags, Offering, Answering, Applying, Awaiting, ReadyStates
  <2>2. View(e, link, b, conn[Peer(e)], net[e], net[Peer(e)])
    BY <1>1, <1>2, <2>1, GoesOn
  <2> QED BY <1>2, <2>2, StepsAlone
<1>3. CASE srpl_send_candidates_received_action(e)
  <2>1. PICK l, g :
           /\ conn' = [conn EXCEPT ![e] =
                [To(c, "send_candidates_remaining_check") EXCEPT
                    !.candidates = l, !.current = NoRef, !.not_generated = g]]
           /\ UNCHANGED <<net, link>> /\ c.state = "send_candidates_received"
    BY <1>3, Zenon DEF srpl_send_candidates_received_action
  <2> DEFINE b == [To(c, "send_candidates_remaining_check") EXCEPT
                      !.candidates = l, !.current = NoRef, !.not_generated = g]
  <2>2. b.state = "send_candidates_remaining_check" /\ SameFlags(b, c)
    BY <1>1 DEF To, Fit, ConnectionType, SameFlags
  <2> HIDE DEF b
  <2>3. b.state \in Offering /\ c.state \in Offering
    BY <2>1, <2>2 DEF Offering
  <2> QED BY <1>2, <2>1, <2>2, <2>3 DEF b
<1>4. CASE srpl_candidates_remaining_check_action(e)
  <2>1. c.state \in Offering /\ UNCHANGED <<net, link>>
    BY <1>4 DEF srpl_candidates_remaining_check_action, Offering
  <2>2. \/ \E p \in c.candidates :
             conn' = [conn EXCEPT ![e] =
                [To(c, "next_candidate_send") EXCEPT !.candidates = @ \ {p}, !.current = p]]
        \/ conn' = [conn EXCEPT ![e] = To(c, "send_candidates_response_send")]
    BY <1>4 DEF srpl_candidates_remaining_check_action
  <2>3. ASSUME NEW p,
               conn' = [conn EXCEPT ![e] =
                  [To(c, "next_candidate_send") EXCEPT !.candidates = @ \ {p}, !.current = p]]
        PROVE  Conversation'
    <3> DEFINE b == [To(c, "next_candidate_send") EXCEPT !.candidates = @ \ {p}, !.current = p]
    <3>1. b.state = "next_candidate_send" /\ SameFlags(b, c)
      BY <1>1 DEF To, Fit, ConnectionType, SameFlags
    <3> HIDE DEF b
    <3>2. b.state \in Offering
      BY <3>1 DEF Offering
    <3> QED BY <1>2, <2>1, <2>3, <3>1, <3>2 DEF b
  <2>4. ASSUME conn' = [conn EXCEPT ![e] = To(c, "send_candidates_response_send")]
        PROVE  Conversation'
    <3>1. /\ To(c, "send_candidates_response_send").state \in Offering
          /\ SameFlags(To(c, "send_candidates_response_send"), c)
      BY <1>1, ToFields DEF Offering
    <3> QED BY <1>2, <2>1, <2>4, <3>1
  <2> QED BY <2>2, <2>3, <2>4
<1> QED BY <1>3, <1>4

\* Requests that arrive while the candidates are exchanged.
LEMMA RequestTalks ==
    ASSUME IInv, Conversation, NEW e \in E,
           SendCandidatesReceived(e) \/ CandidateReceived(e) \/ CandidateHostReceived(e)
    PROVE  Conversation'
<1> DEFINE c == conn[e]
           x == net[e]
<1>1. Fit(c) /\ x \in Stream /\ View(e, link, conn[e], conn[Peer(e)], x, net[Peer(e)])
  BY Before
<1>2. CASE SendCandidatesReceived(e)
  <2> DEFINE b == [To(c, "send_candidates_received") EXCEPT !.answered = FALSE]
  <2>1. b.state = "send_candidates_received" /\ ~b.answered /\ b.outstanding = c.outstanding
    BY <1>1, FlagFields
  <2>2. /\ x # <<>> /\ Head(x).type = "send_candidates" /\ Consume(e) /\ UNCHANGED link
        /\ c.state = "send_candidates_message_wait" /\ conn' = [conn EXCEPT ![e] = b]
    BY <1>2 DEF SendCandidatesReceived, Receives
  <2>3. Kind(Head(x)) = "send_candidates"
    BY <2>2 DEF Kind
  <2> HIDE DEF b
  <2>4. View(e, link, b, conn[Peer(e)], Tail(x), net[Peer(e)])
    BY <1>1, <2>1, <2>2, <2>3, IsAsked
  <2> QED BY <2>2, <2>4, StepsReceiving
<1>3. CASE CandidateReceived(e)
  <2>1. PICK d : conn' = [conn EXCEPT ![e] =
                    To([c EXCEPT !.answered = FALSE, !.candidate = d], "candidate_check")]
    BY <1>3, Zenon DEF CandidateReceived
  <2> DEFINE b == To([c EXCEPT !.answered = FALSE, !.candidate = d], "candidate_check")
  <2>2. b.state = "candidate_check" /\ ~b.answered
    BY <1>1 DEF To, Fit, ConnectionType
  <2>3. /\ x # <<>> /\ Head(x).type = "candidate" /\ Consume(e) /\ UNCHANGED link
        /\ c.state \in Awaiting
    BY <1>3 DEF CandidateReceived, Receives, Awaiting
  <2>4. Kind(Head(x)) = "candidate"
    BY <2>3 DEF Kind
  <2> HIDE DEF b
  <2>5. View(e, link, b, conn[Peer(e)], Tail(x), net[Peer(e)])
    BY <1>1, <2>2, <2>3, <2>4, IsOffered
  <2> QED BY <2>1, <2>3, <2>5, StepsReceiving DEF b
<1>4. CASE CandidateHostReceived(e)
  <2> DEFINE b == [To(c, "candidate_host_prepare") EXCEPT
                      !.stash = Stash(Head(net[e])), !.answered = FALSE]
  <2>1. b.state = "candidate_host_prepare" /\ ~b.answered
    BY <1>1 DEF To, Fit, ConnectionType
  <2>2. /\ x # <<>> /\ Head(x).type = "host" /\ Consume(e) /\ UNCHANGED link
        /\ c.state = "candidate_host_wait" /\ conn' = [conn EXCEPT ![e] = b]
    BY <1>4 DEF CandidateHostReceived, Receives
  <2>3. Kind(Head(x)) = "host"
    BY <2>2 DEF Kind
  <2> HIDE DEF b
  <2>4. View(e, link, b, conn[Peer(e)], Tail(x), net[Peer(e)])
    BY <1>1, <2>1, <2>2, <2>3, IsGiven
  <2> QED BY <2>2, <2>4, StepsReceiving
<1> QED BY <1>2, <1>3, <1>4

\* Responses that arrive while the candidates are exchanged.
LEMMA ResponseTalks ==
    ASSUME IInv, Conversation, NEW e \in E,
           \/ SendCandidatesResponse(e) \/ srpl_next_candidate_send_wait_action(e)
           \/ srpl_candidate_host_response_wait_action(e)
    PROVE  Conversation'
<1> DEFINE c == conn[e]
           x == net[e]
<1>1. Fit(c) /\ x \in Stream /\ View(e, link, conn[e], conn[Peer(e)], x, net[Peer(e)])
  BY Before
<1>2. CASE SendCandidatesResponse(e)
  <2> DEFINE f == [c EXCEPT !.outstanding = FALSE]
             g == [f EXCEPT !.synchronized = TRUE]
             b == IF e = "sv" THEN ToReady(g) ELSE To(f, "send_candidates_message_wait")
  <2>1. /\ x # <<>> /\ Head(x).type = "send_candidates_response" /\ Consume(e)
        /\ UNCHANGED link /\ c.state \in Awaiting /\ conn' = [conn EXCEPT ![e] = b]
    BY <1>2 DEF SendCandidatesResponse, Receives, Awaiting
  <2>2. Kind(Head(x)) = "send_candidates_response"
    BY <2>1 DEF Kind
  <2>3. Fit(f) /\ Fit(g)
    BY <1>1, FlagsFit
  <2>4. ~f.outstanding /\ f.answered = c.answered /\ ~g.outstanding /\ g.answered = c.answered
    BY <1>1 DEF Fit, ConnectionType
  <2> HIDE DEF f, g
  <2>5. View(e, link, b, conn[Peer(e)], Tail(x), net[Peer(e)])
    <3>1. CASE e = "sv"
      <4>1. /\ b.state \in ReadyStates /\ SlotOK("sv", b)
            /\ ~b.outstanding /\ b.answered = c.answered
        BY <2>3, <2>4, <3>1, ToReadyFields DEF SameFlags
      <4> HIDE DEF b
      <4> QED BY <1>1, <2>1, <2>2, <3>1, <4>1, IsFinished
    <3>2. CASE e # "sv"
      <4>1. b.state = "send_candidates_message_wait" /\ ~b.outstanding
        BY <2>3, <2>4, <3>2, ToFields DEF SameFlags
      <4>2. e = "cl"
        BY <3>2 DEF E
      <4> HIDE DEF b
      <4> QED BY <1>1, <2>1, <2>2, <4>1, <4>2, IsTurned
    <3> QED BY <3>1, <3>2
  <2> HIDE DEF b
  <2> QED BY <2>1, <2>5, StepsReceiving
<1>3. CASE srpl_next_candidate_send_wait_action(e)
  <2> DEFINE s == IF Head(x).answer = "yes" THEN "candidate_host_send"
                  ELSE "send_candidates_remaining_check"
             b == [To(c, s) EXCEPT !.outstanding = FALSE]
  <2>1. /\ x # <<>> /\ Head(x).type = "candidate_response" /\ Consume(e) /\ UNCHANGED link
        /\ c.state = "next_candidate_send_wait" /\ conn' = [conn EXCEPT ![e] = b]
    BY <1>3 DEF srpl_next_candidate_send_wait_action, Receives
  <2>2. b.state = s /\ ~b.outstanding /\ b.answered = c.answered
    BY <1>1, FlagFields
  <2> HIDE DEF b
  <2>3. View(e, link, b, conn[Peer(e)], Tail(x), net[Peer(e)])
    <3>1. CASE Head(x).answer = "yes"
      <4>1. Kind(Head(x)) = "accepted"
        BY <2>1, <3>1 DEF Kind
      <4> QED BY <1>1, <2>1, <2>2, <3>1, <4>1, IsWanted
    <3>2. CASE Head(x).answer # "yes"
      <4>1. Kind(Head(x)) = "candidate_response"
        BY <2>1, <3>2 DEF Kind
      <4> QED BY <1>1, <2>1, <2>2, <3>2, <4>1, IsRefused
    <3> QED BY <3>1, <3>2
  <2> QED BY <2>1, <2>3, StepsReceiving
<1>4. CASE srpl_candidate_host_response_wait_action(e)
  <2> DEFINE b == [To(c, "send_candidates_remaining_check") EXCEPT !.outstanding = FALSE]
  <2>1. /\ x # <<>> /\ Head(x).type = "host_response" /\ Consume(e) /\ UNCHANGED link
        /\ c.state = "candidate_host_response_wait" /\ conn' = [conn EXCEPT ![e] = b]
    BY <1>4 DEF srpl_candidate_host_response_wait_action, Receives
  <2>2. /\ b.state = "send_candidates_remaining_check" /\ ~b.outstanding
        /\ b.answered = c.answered
    BY <1>1, FlagFields
  <2>3. Kind(Head(x)) = "host_response"
    BY <2>1 DEF Kind
  <2> HIDE DEF b
  <2>4. View(e, link, b, conn[Peer(e)], Tail(x), net[Peer(e)])
    BY <1>1, <2>1, <2>2, <2>3, IsAcknowledged
  <2> QED BY <2>1, <2>4, StepsReceiving
<1> QED BY <1>2, <1>3, <1>4

\* The application of a host goes on by itself.
LEMMA ApplyingGoesOn ==
    ASSUME IInv, Conversation, NEW e \in E, conn[e].state \in Applying, NEW s \in Applying,
           NEW c, Fit(c), SameFlags(c, conn[e]),
           conn' = [conn EXCEPT ![e] = To(c, s)], UNCHANGED <<net, link>>
    PROVE  Conversation'
<1> DEFINE b == To(c, s)
<1>1. View(e, link, conn[e], conn[Peer(e)], net[e], net[Peer(e)])
  BY Before
<1>2. b.state = s /\ SameFlags(b, conn[e])
  BY ToFields DEF SameFlags
<1> HIDE DEF b
<1>3. SlotOK(e, b)
  BY <1>1, <1>2 DEF View, SlotOK, SameFlags, Offering, Answering, Applying, Awaiting, ReadyStates
<1>4. View(e, link, b, conn[Peer(e)], net[e], net[Peer(e)])
  BY <1>1, <1>2, <1>3, GoesOn
<1> QED BY <1>4, StepsAlone DEF b

LEMMA PrepareTalks ==
    ASSUME IInv, Conversation, NEW e \in E,
           srpl_candidate_host_prepare_action(e) \/ srpl_candidate_host_re_evaluate_action(e)
    PROVE  Conversation'
<1> DEFINE c == conn[e]
<1>1. Fit(c) /\ SameFlags(c, conn[e])
  BY Before DEF SameFlags
<1>2. CASE srpl_candidate_host_prepare_action(e)
  <2>1. PICK s \in {"candidate_host_apply", "candidate_host_contention_wait",
                    "candidate_host_re_evaluate"} : conn' = [conn EXCEPT ![e] = To(c, s)]
    BY <1>2 DEF srpl_candidate_host_prepare_action
  <2>2. c.state \in Applying /\ s \in Applying /\ UNCHANGED <<net, link>>
    BY <1>2, <2>1 DEF srpl_candidate_host_prepare_action, Applying
  <2> QED BY <1>1, <2>1, <2>2, ApplyingGoesOn
<1>3. CASE srpl_candidate_host_re_evaluate_action(e)
  <2> DEFINE a == srpl_candidate_host_check(host[e][c.candidate.name], c.candidate)
  <2>1. c.state \in Applying /\ "candidate_host_apply" \in Applying /\ UNCHANGED link
    BY <1>3 DEF srpl_candidate_host_re_evaluate_action, Applying
  <2>2. CASE a = "yes"
    <3>1. conn' = [conn EXCEPT ![e] = To(c, "candidate_host_apply")] /\ UNCHANGED net
      BY <1>3, <2>2 DEF srpl_candidate_host_re_evaluate_action
    <3> QED BY <1>1, <2>1, <3>1, ApplyingGoesOn
  <2>3. CASE a # "yes"
    <3>1. PICK r \in Rcodes : r = IF a = "no" THEN "noerror" ELSE "yxdomain"
      BY DEF Rcodes
    <3>2. SendResponse(e, "host_response", r, To(c, "send_candidates_wait"))
      BY <1>3, <2>3, <3>1 DEF srpl_candidate_host_re_evaluate_action
    <3> QED BY <1>1, <2>1, <3>2, AcknowledgeTalks
  <2> QED BY <2>2, <2>3
<1> QED BY <1>2, <1>3

\* In the ready phase an end goes on by itself.
LEMMA ReadyGoesOn ==
    ASSUME IInv, Conversation, NEW e \in E, conn[e].state \in ReadyStates,
           NEW b, b.state \in ReadyStates, SameFlags(b, conn[e]), SlotOK(e, b),
           conn' = [conn EXCEPT ![e] = b], UNCHANGED <<net, link>>
    PROVE  Conversation'
<1>1. View(e, link, b, conn[Peer(e)], net[e], net[Peer(e)])
  BY Before, GoesOn
<1> QED BY <1>1, StepsAlone

\* In the ready phase an end answers: an update, or once more what was answered.
LEMMA ReadyAnswers ==
    ASSUME IInv, Conversation, NEW e \in E, conn[e].state \in ReadyStates,
           NEW c, Fit(c), c.state \in ReadyStates, SameFlags(c, conn[e]), SlotOK(e, c),
           NEW answer \in Rcodes, SendResponse(e, "host_response", answer, c), UNCHANGED link
    PROVE  Conversation'
<1> DEFINE m == Response(IF c.answered THEN "unmatched_response" ELSE "host_response", answer)
           b == [c EXCEPT !.answered = TRUE]
<1>1. Transmit(e, m) /\ conn' = [conn EXCEPT ![e] = b]
  BY DEF SendResponse
<1>2. /\ b.state = c.state /\ b.answered = TRUE /\ b.outstanding = c.outstanding
      /\ b.queue = c.queue
  BY DEF Fit, ConnectionType
<1>3. /\ net[Peer(e)] \in Stream /\ Fit(conn[e])
      /\ View(e, link, conn[e], conn[Peer(e)], net[e], net[Peer(e)])
  BY Before
<1>4. m \in MessageType
  BY ResponseType DEF Answers
<1>5. Kind(m) = IF c.answered THEN "unmatched_response" ELSE "host_response"
  BY Kinds
<1> HIDE DEF m, b
<1>6. SlotOK(e, b)
  BY <1>2 DEF SlotOK, Offering, Answering, Applying, Awaiting, ReadyStates
<1>7. CASE c.answered
  <2>1. c.answered = TRUE
    BY <1>7 DEF Fit, ConnectionType
  <2>2. SameFlags(b, conn[e]) /\ b.state \in ReadyStates /\ Kind(m) \in Noise
    BY <1>2, <1>5, <1>7, <2>1 DEF SameFlags, Noise
  <2>3. View(e, link, b, conn[Peer(e)], net[e], Sent(link, net[Peer(e)], m))
    BY <1>3, <1>4, <1>6, <2>2, AnswersAgain
  <2> QED BY <1>1, <2>3, StepsSending
<1>8. CASE ~c.answered
  <2>1. ~conn[e].answered /\ b.outstanding = conn[e].outstanding /\ b.answered
        /\ b.state \in ReadyStates /\ Kind(m) = "host_response"
    BY <1>2, <1>5, <1>8 DEF SameFlags
  <2>2. View(e, link, b, conn[Peer(e)], net[e], Sent(link, net[Peer(e)], m))
    BY <1>3, <1>4, <1>6, <2>1, AcknowledgesUpdate
  <2> QED BY <1>1, <2>2, StepsSending
<1> QED BY <1>7, <1>8

\* Nothing of the conversation changes.
LEMMA UntouchedTalks ==
    ASSUME Conversation, UNCHANGED <<conn, net, link>> PROVE Conversation'
  BY DEF Conversation

\* Each outcome of srp_dns_evaluate.
LEMMA ApplyTalks ==
    ASSUME IInv, Conversation, NEW e \in E,
           srpl_candidate_host_apply_action(e) \/ srpl_stashed_host_apply_action(e)
    PROVE  Conversation'
<1> DEFINE c == conn[e]
<1>1. /\ Fit(c) /\ SameFlags(c, conn[e])
      /\ View(e, link, conn[e], conn[Peer(e)], net[e], net[Peer(e)])
  BY Before DEF SameFlags
<1>2. ASSUME NEW s, \/ ApplyStarts(e, s) \/ ApplyRetransmission(e, s)
                    \/ ApplyFinishesAtOnce(e, s) \/ ApplyIgnored(e, s)
      PROVE  conn' = [conn EXCEPT ![e] = To(c, s)] /\ UNCHANGED <<net, link>>
  BY <1>2, Zenon DEF ApplyStarts, ApplyRetransmission, ApplyFinishesAtOnce, ApplyIgnored
<1>3. ASSUME NEW s, ApplyRejected(e, s)
      PROVE  SendResponse(e, "host_response", "formerr", To(c, s)) /\ UNCHANGED link
  BY <1>3 DEF ApplyRejected
<1>4. "formerr" \in Rcodes
  BY DEF Rcodes
<1>5. CASE ApplyConflict(e)
  <2>1. PICK s \in Down : conn' = [conn EXCEPT ![e] = Connection(s)]
    BY <1>5 DEF ApplyConflict, Down
  <2>2. Connection(s).state \in Down
    BY <2>1 DEF Connection
  <2>3. net' = [net EXCEPT ![e] = <<>>] /\ link' = FALSE
    BY <1>5 DEF ApplyConflict
  <2> QED BY <2>1, <2>2, <2>3, DownTalks
<1>6. CASE srpl_candidate_host_apply_action(e) /\ ~ApplyConflict(e)
  <2>1. c.state \in Applying /\ "candidate_host_apply_wait" \in Applying
    BY <1>6 DEF srpl_candidate_host_apply_action, Applying
  <2>2. CASE ApplyRejected(e, "send_candidates_wait")
    BY <1>1, <1>3, <1>4, <2>1, <2>2, AcknowledgeTalks
  <2>3. CASE ~ApplyRejected(e, "send_candidates_wait")
    <3>1. /\ conn' = [conn EXCEPT ![e] = To(c, "candidate_host_apply_wait")]
          /\ UNCHANGED <<net, link>>
      BY <1>2, <1>6, <2>3 DEF srpl_candidate_host_apply_action
    <3> QED BY <1>1, <2>1, <3>1, ApplyingGoesOn
  <2> QED BY <2>2, <2>3
<1>7. CASE srpl_stashed_host_apply_action(e) /\ ~ApplyConflict(e)
  <2>1. c.state = "stashed_host_apply" /\ c.state \in ReadyStates
    BY <1>7 DEF srpl_stashed_host_apply_action, ReadyStates
  <2>2. c.outstanding => c.queue # <<>> /\ Head(c.queue).sent
    BY <1>1, <2>1 DEF View, SlotOK
  <2>3. CASE ApplyRejected(e, "stashed_host_finished")
    <3> DEFINE f == To(c, "stashed_host_finished")
    <3>1. f.state = "stashed_host_finished" /\ SameFlags(f, c) /\ f.queue = c.queue
      BY <1>1, ToFields
    <3>2. Fit(f)
      BY <1>1, ToPlain, PlainStates DEF Good
    <3>3. SendResponse(e, "host_response", "formerr", f) /\ UNCHANGED link
      BY <1>3, <2>3
    <3> HIDE DEF f
    <3>4. SlotOK(e, f) /\ f.state \in ReadyStates
      BY <2>2, <3>1 DEF SlotOK, SameFlags, Offering, Answering, Applying, Awaiting, ReadyStates
    <3> QED BY <1>4, <2>1, <3>1, <3>2, <3>3, <3>4, ReadyAnswers
  <2>4. CASE ~ApplyRejected(e, "stashed_host_finished")
    <3>1. /\ conn' = [conn EXCEPT ![e] = To(c, AfterStashedApply(e))]
          /\ UNCHANGED <<net, link>>
      BY <1>2, <1>7, <2>4 DEF srpl_stashed_host_apply_action
    <3>2. To(c, AfterStashedApply(e)) = ToReady(c)
      BY <1>1 DEF AfterStashedApply, ToReady, To, Fit, ConnectionType
    <3> QED BY <1>1, <2>1, <2>2, <3>1, <3>2, ToReadyFields, ReadyGoesOn
  <2> QED BY <2>3, <2>4
<1> QED BY <1>5, <1>6, <1>7

\* What arrives in the ready phase.
LEMMA ReadyHears ==
    ASSUME IInv, Conversation, NEW e \in E,
           ReadyHostReceived(e) \/ UnmatchedResponse(e) \/ ReadyHostResponse(e)
    PROVE  Conversation'
<1> DEFINE c == conn[e]
           x == net[e]
<1>1. Fit(c) /\ x \in Stream /\ View(e, link, conn[e], conn[Peer(e)], x, net[Peer(e)])
  BY Before
<1>2. CASE ReadyHostReceived(e)
  <2>1. /\ x # <<>> /\ Head(x).type = "host" /\ c.state = "ready" /\ UNCHANGED link
        /\ c.state \in ReadyStates
    BY <1>2 DEF ReadyHostReceived, Receives, ReadyStates
  <2>2. CASE DropState(e)
    <3>1. To(c, "disconnect").state \in Closing
      BY <1>1, ToFields DEF Closing
    <3> QED BY <2>1, <2>2, <3>1, ClosesTalks DEF DropState
  <2>3. CASE ~DropState(e)
    <3> DEFINE b == [To(c, "stashed_host_check") EXCEPT
                        !.stash = Stash(Head(x)), !.answered = FALSE]
    <3>1. /\ b.state = "stashed_host_check" /\ ~b.answered
          /\ b.outstanding = c.outstanding /\ b.queue = c.queue
      BY <1>1 DEF To, Fit, ConnectionType
    <3>2. Consume(e) /\ conn' = [conn EXCEPT ![e] = b]
      BY <1>2, <2>3 DEF ReadyHostReceived
    <3> HIDE DEF b
    <3>3. Kind(Head(x)) = "host"
      BY <2>1 DEF Kind
    <3>4. c.outstanding => c.queue # <<>> /\ Head(c.queue).sent
      BY <1>1, <2>1 DEF View, SlotOK
    <3>5. SlotOK(e, b) /\ b.state \in ReadyStates
      BY <3>1, <3>4 DEF SlotOK, Offering, Answering, Applying, Awaiting, ReadyStates
    <3>6. View(e, link, b, conn[Peer(e)], Tail(x), net[Peer(e)])
      BY <1>1, <2>1, <3>1, <3>3, <3>5, IsUpdated
    <3> QED BY <2>1, <3>2, <3>6, StepsReceiving
  <2> QED BY <2>2, <2>3
<1>3. CASE UnmatchedResponse(e)
  <2>1. /\ x # <<>> /\ Head(x).type = "unmatched_response" /\ Consume(e)
        /\ conn' = conn /\ link' = link
    BY <1>3 DEF UnmatchedResponse, Receives
  <2>2. Kind(Head(x)) \in Noise
    BY <2>1 DEF Kind, Noise
  <2>3. Alike(x, Tail(x))
    BY <1>1, <2>1, <2>2, TailNoise
  <2>4. c.state \notin Down
    BY <1>1, <2>1 DEF View, StreamOK
  <2>5. View(e, link, c, conn[Peer(e)], Tail(x), net[Peer(e)])
    BY <1>1, <2>3, <2>4, HearsNoise
  <2>6. net'[e] = Tail(x) /\ net'[Peer(e)] = net[Peer(e)]
    BY <2>1, PeerFacts DEF IInv, NetOK, Consume
  <2> QED BY <2>1, <2>5, <2>6, Assembled
<1>4. CASE ReadyHostResponse(e)
  <2> DEFINE b == [To(c, "srp_client_ack_evaluate") EXCEPT !.outstanding = FALSE]
  <2>1. /\ x # <<>> /\ Head(x).type = "host_response" /\ c.state = "ready" /\ UNCHANGED link
        /\ c.state \in ReadyStates /\ Consume(e) /\ conn' = [conn EXCEPT ![e] = b]
    BY <1>4 DEF ReadyHostResponse, Receives, ReadyStates
  <2>2. /\ b.state = "srp_client_ack_evaluate" /\ b.answered = c.answered
        /\ ~b.outstanding /\ b.queue = c.queue
    BY <1>1, FlagFields
  <2> HIDE DEF b
  <2>3. Kind(Head(x)) = "host_response"
    BY <2>1 DEF Kind
  <2>4. c.queue # <<>> /\ Head(c.queue).sent
    BY <1>1, <2>1, <2>3, Outstanding
  <2>5. SlotOK(e, b) /\ b.state \in ReadyStates
    BY <2>2, <2>4 DEF SlotOK, Offering, Answering, Applying, Awaiting, ReadyStates
  <2>6. View(e, link, b, conn[Peer(e)], Tail(x), net[Peer(e)])
    BY <1>1, <2>1, <2>2, <2>3, <2>5, UpdateAcknowledged
  <2> QED BY <2>1, <2>6, StepsReceiving
<1> QED BY <1>2, <1>3, <1>4

\* What an end does by itself in the ready phase.
LEMMA ReadyTalks ==
    ASSUME IInv, Conversation, NEW e \in E,
           \/ srpl_stashed_host_check_action(e) \/ srpl_stashed_host_finished_action(e)
           \/ srpl_srp_client_ack_evaluate_action(e) \/ srpl_srp_client_update_send_action(e)
    PROVE  Conversation'
<1> DEFINE c == conn[e]
<1>1. /\ Fit(c) /\ net[Peer(e)] \in Stream /\ AttachedTo(c)
      /\ View(e, link, conn[e], conn[Peer(e)], net[e], net[Peer(e)])
  BY Before
<1>2. c.state \in ReadyStates /\ UNCHANGED link
  BY DEF srpl_stashed_host_check_action, srpl_stashed_host_finished_action,
         srpl_srp_client_ack_evaluate_action, srpl_srp_client_update_send_action, ReadyStates
<1>3. c.outstanding => c.queue # <<>> /\ Head(c.queue).sent
  BY <1>1, <1>2 DEF View, SlotOK
<1>4. CASE srpl_stashed_host_check_action(e)
  <2>1. UNCHANGED net /\ \/ conn' = [conn EXCEPT ![e] = ToReady(c)]
                         \/ conn' = [conn EXCEPT ![e] = To(c, "stashed_host_apply")]
    BY <1>4 DEF srpl_stashed_host_check_action
  <2>2. CASE conn' = [conn EXCEPT ![e] = ToReady(c)]
    BY <1>1, <1>2, <1>3, <2>1, <2>2, ToReadyFields, ReadyGoesOn
  <2>3. CASE conn' = [conn EXCEPT ![e] = To(c, "stashed_host_apply")]
    <3> DEFINE b == To(c, "stashed_host_apply")
    <3>1. b.state = "stashed_host_apply" /\ SameFlags(b, c) /\ b.queue = c.queue
      BY <1>1, ToFields
    <3> HIDE DEF b
    <3>2. SlotOK(e, b) /\ b.state \in ReadyStates
      BY <1>3, <3>1 DEF SlotOK, SameFlags, Offering, Answering, Applying, Awaiting, ReadyStates
    <3> QED BY <1>2, <2>1, <2>3, <3>1, <3>2, ReadyGoesOn DEF b
  <2> QED BY <2>1, <2>2, <2>3
<1>5. CASE srpl_stashed_host_finished_action(e)
  <2> DEFINE g == [c EXCEPT !.stash = NoStash]
             f == ToReady(g)
  <2>1. SendResponse(e, "host_response", c.stash.rcode, f)
    BY <1>5 DEF srpl_stashed_host_finished_action
  <2>2. c.stash.rcode \in Rcodes
    BY <1>1 DEF Fit, ConnectionType
  <2>3. Fit(g)
    BY <1>1, <2>2, StashCleared
  <2>4. SameFlags(g, c) /\ g.queue = c.queue
    BY <1>1 DEF Fit, ConnectionType, SameFlags
  <2> HIDE DEF g
  <2>5. f.state \in ReadyStates /\ SlotOK(e, f) /\ SameFlags(f, g)
    BY <1>3, <2>3, <2>4, ToReadyFields DEF SameFlags
  <2>6. Fit(f)
    BY <2>3, ToReadyGood DEF Good
  <2> HIDE DEF f
  <2>7. SameFlags(f, c)
    BY <2>4, <2>5 DEF SameFlags
  <2> QED BY <1>2, <2>1, <2>2, <2>5, <2>6, <2>7, ReadyAnswers
<1>6. ASSUME c.queue # <<>>, ~c.outstanding, UNCHANGED net,
             conn' = [conn EXCEPT ![e] = ToReady([c EXCEPT !.queue = Tail(@)])]
      PROVE  Conversation'
  <2> DEFINE g == [c EXCEPT !.queue = Tail(@)]
  <2>1. Fit(g)
    BY <1>1, <1>6, QueueFit
  <2>2. SameFlags(g, c)
    BY <1>1 DEF Fit, ConnectionType, SameFlags
  <2> HIDE DEF g
  <2>3. ToReady(g).state \in ReadyStates /\ SlotOK(e, ToReady(g)) /\ SameFlags(ToReady(g), g)
    BY <1>6, <2>1, <2>2, ToReadyFields DEF SameFlags
  <2>4. SameFlags(ToReady(g), c)
    BY <2>2, <2>3 DEF SameFlags
  <2> QED BY <1>2, <1>6, <2>3, <2>4, ReadyGoesOn DEF g
<1>7. CASE srpl_srp_client_ack_evaluate_action(e)
  <2>1. ~c.outstanding
    BY <1>1, <1>7 DEF View, SlotOK, srpl_srp_client_ack_evaluate_action
  <2> QED BY <1>6, <1>7, <2>1 DEF srpl_srp_client_ack_evaluate_action
<1>8. CASE srpl_srp_client_update_send_action(e)
  <2> DEFINE p == Head(c.queue).ref
             q == <<[ref |-> p, sent |-> TRUE]>> \o Tail(c.queue)
             g == [c EXCEPT !.queue = q]
             m == HostMessage(e, p.host)
             b == [To(g, "ready") EXCEPT !.outstanding = TRUE]
  <2>1. c.state = "srp_client_update_send" /\ c.queue # <<>> /\ ~Head(c.queue).sent
        /\ ~c.outstanding
    BY <1>1, <1>3, <1>8 DEF View, SlotOK, AttachedTo, srpl_srp_client_update_send_action
  <2>2. CASE ~CanSendHost(e, p)
    BY <1>6, <1>8, <2>1, <2>2 DEF srpl_srp_client_update_send_action
  <2>3. CASE CanSendHost(e, p)
    <3>1. Transmit(e, m) /\ conn' = [conn EXCEPT ![e] = b]
      BY <1>8, <2>3 DEF srpl_srp_client_update_send_action, SendRequest
    <3>2. p \in Refs /\ Fit(g)
      BY <1>1, <2>1, SentFit
    <3>3. m \in MessageType
      BY <3>2, HostMessageType DEF IInv, Refs
    <3>4. Kind(m) = "host"
      BY Kinds DEF HostMessage
    <3>5. q # <<>> /\ Head(q).sent
      <4>1. Tail(c.queue) \in Seq([ref : Refs, sent : BOOLEAN])
        BY <1>1, <2>1 DEF Fit, ConnectionType
      <4> DEFINE t == Tail(c.queue)
                 n == [ref |-> p, sent |-> TRUE]
      <4>2. n \in [ref : Refs, sent : BOOLEAN] /\ n.sent
        BY <3>2
      <4> HIDE DEF t, n
      <4>3. <<n>> \o t # <<>> /\ Head(<<n>> \o t) = n
        BY <4>1, <4>2 DEF t
      <4> QED BY <4>2, <4>3 DEF t, n
    <3>6. g.queue = q /\ SameFlags(g, c)
      BY <1>1 DEF Fit, ConnectionType, SameFlags
    <3> HIDE DEF q, g, m
    <3>7. /\ b.state = "ready" /\ b.queue = q /\ b.outstanding /\ b.answered = c.answered
      BY <3>2, <3>6, FlagFields DEF SameFlags
    <3> HIDE DEF b
    <3>8. SlotOK(e, b) /\ b.state \in ReadyStates
      BY <3>5, <3>7 DEF SlotOK, Offering, Answering, Applying, Awaiting, ReadyStates
    <3>9. View(e, link, b, conn[Peer(e)], net[e], Sent(link, net[Peer(e)], m))
      BY <1>1, <1>2, <2>1, <3>3, <3>4, <3>7, <3>8, Updates
    <3> QED BY <1>2, <3>1, <3>9, StepsSending
  <2> QED BY <2>2, <2>3
<1> QED BY <1>4, <1>5, <1>7, <1>8

\* An update joins the queue: what is at its head stays there.
LEMMA QueuedFields ==
    ASSUME NEW c, Fit(c), NEW p \in Refs
    PROVE  LET q == srpl_queue_srp_client_update(c, p)
           IN  /\ SameFlags(q, c) /\ q.state = c.state
               /\ c.queue # <<>> => q.queue # <<>> /\ Head(q.queue) = Head(c.queue)
<1> DEFINE new == [ref |-> p, sent |-> FALSE]
           d == [c EXCEPT !.queue = Append(@, new)]
           q == srpl_queue_srp_client_update(c, p)
<1>1. q \in {c, d}
  BY DEF srpl_queue_srp_client_update
<1>2. d.queue = Append(c.queue, new) /\ SameFlags(d, c) /\ d.state = c.state
  BY DEF Fit, ConnectionType, SameFlags
<1>3. c.queue \in Seq([ref : Refs, sent : BOOLEAN]) /\ new \in [ref : Refs, sent : BOOLEAN]
  BY DEF Fit, ConnectionType
<1> HIDE DEF new
<1>4. c.queue # <<>> => Append(c.queue, new) # <<>> /\ Head(Append(c.queue, new)) = Head(c.queue)
  BY <1>3
<1> HIDE DEF d, q
<1>5. SameFlags(c, c)
  BY DEF SameFlags
<1> QED BY <1>1, <1>2, <1>4, <1>5 DEF q

\* The event of an update that was replicated.
LEMMA AdvertiseTalks ==
    ASSUME IInv, Conversation, NEW e \in E, NEW h, NEW rcode \in Rcodes,
           AdvertiseFinished(e, h, rcode), UNCHANGED link
    PROVE  Conversation'
<1> DEFINE c == conn[e]
<1>1. /\ Fit(c) /\ SameFlags(c, conn[e])
      /\ Fit([c EXCEPT !.stash = NoStash]) /\ Fit([c EXCEPT !.stash.rcode = rcode])
      /\ View(e, link, conn[e], conn[Peer(e)], net[e], net[Peer(e)])
  BY Before, StashCleared DEF SameFlags
<1>2. CASE /\ c.state = "candidate_host_contention_wait"
           /\ conn' = [conn EXCEPT ![e] = To(c, "candidate_host_re_evaluate")]
           /\ UNCHANGED net
  <2>1. c.state \in Applying /\ "candidate_host_re_evaluate" \in Applying
    BY <1>2 DEF Applying
  <2> QED BY <1>1, <1>2, <2>1, ApplyingGoesOn
<1>3. CASE /\ c.state = "candidate_host_apply_wait"
           /\ SendResponse(e, "host_response", rcode,
                           To([c EXCEPT !.stash = NoStash], "send_candidates_wait"))
  <2>1. c.state \in Applying
    BY <1>3 DEF Applying
  <2>2. SameFlags([c EXCEPT !.stash = NoStash], conn[e])
    BY <1>1 DEF SameFlags, Fit, ConnectionType
  <2> QED BY <1>1, <1>3, <2>1, <2>2, AcknowledgeTalks
<1>4. CASE /\ c.state = "ready" /\ UNCHANGED net
           /\ conn' = [conn EXCEPT ![e] =
                 To([c EXCEPT !.stash.rcode = rcode], "stashed_host_finished")]
  <2> DEFINE g == [c EXCEPT !.stash.rcode = rcode]
             b == To(g, "stashed_host_finished")
  <2>1. SameFlags(g, c) /\ g.queue = c.queue /\ Fit(g)
    <3>1. Fit(g)
      BY <1>1
    <3>2. SameFlags(g, c) /\ g.queue = c.queue
      BY <1>1 DEF SameFlags, Fit, ConnectionType
    <3> QED BY <3>1, <3>2
  <2>2. c.state \in ReadyStates
    BY <1>4 DEF ReadyStates
  <2>3. c.outstanding => c.queue # <<>> /\ Head(c.queue).sent
    BY <1>1, <2>2 DEF View, SlotOK
  <2> HIDE DEF g
  <2>4. b.state = "stashed_host_finished" /\ SameFlags(b, c) /\ b.queue = c.queue
    BY <2>1, ToFields DEF SameFlags
  <2> HIDE DEF b
  <2>5. SlotOK(e, b) /\ b.state \in ReadyStates
    BY <2>3, <2>4 DEF SlotOK, SameFlags, Offering, Answering, Applying, Awaiting, ReadyStates
  <2> QED BY <1>4, <2>2, <2>4, <2>5, ReadyGoesOn DEF b, g
<1>5. CASE UNCHANGED <<conn, net>>
  BY <1>5, UntouchedTalks
<1> QED BY <1>2, <1>3, <1>4, <1>5, Zenon DEF AdvertiseFinished, EndsContention

\* The event of a client update.
LEMMA ClientResultTalks ==
    ASSUME IInv, Conversation, NEW e \in E, NEW h \in Hosts, NEW rcode,
           ClientUpdateFinished(e, h, rcode), UNCHANGED <<net, link>>
    PROVE  Conversation'
<1> DEFINE c == conn[e]
           p == Here(e, h)
           q == IF rcode = "noerror" /\ ~srpl_reschedule_candidate(c, p)
                THEN srpl_queue_srp_client_update(c, p) ELSE c
<1>1. /\ Fit(c) /\ AttachedTo(c)
      /\ View(e, link, conn[e], conn[Peer(e)], net[e], net[Peer(e)])
  BY Before
<1>2. p \in Refs
  BY DEF IInv, HostOK, HostType, Here, Ref, Refs
<1>3. Fit(q)
  BY <1>1, <1>2, QueueUpdateFit
<1>4. /\ SameFlags(q, c) /\ q.state = c.state
      /\ c.queue # <<>> => q.queue # <<>> /\ Head(q.queue) = Head(c.queue)
  BY <1>1, <1>2, QueuedFields DEF SameFlags
<1>5. \/ conn' = [conn EXCEPT ![e] = c]
      \/ /\ c.state = "candidate_host_contention_wait"
         /\ conn' = [conn EXCEPT ![e] = To(q, "candidate_host_re_evaluate")]
      \/ c.state = "ready" /\ conn' = [conn EXCEPT ![e] = ToReady(q)]
      \/ conn' = [conn EXCEPT ![e] = q]
  <2>1. conn' = [conn EXCEPT ![e] =
           IF c.state = "none" THEN c
           ELSE IF EndsContention(c, h) /\ rcode = "noerror"
                THEN To(q, "candidate_host_re_evaluate")
           ELSE IF c.state = "ready" THEN ToReady(q) ELSE q]
    BY DEF ClientUpdateFinished
  <2> HIDE DEF q
  <2> QED BY <2>1 DEF EndsContention
<1> HIDE DEF q
<1>6. CASE conn' = [conn EXCEPT ![e] = c]
  BY <1>1, <1>6, StepsAlone
<1>7. CASE /\ c.state = "candidate_host_contention_wait"
           /\ conn' = [conn EXCEPT ![e] = To(q, "candidate_host_re_evaluate")]
  <2>1. c.state \in Applying /\ "candidate_host_re_evaluate" \in Applying
    BY <1>7 DEF Applying
  <2> QED BY <1>3, <1>4, <1>7, <2>1, ApplyingGoesOn
<1>8. CASE c.state = "ready" /\ conn' = [conn EXCEPT ![e] = ToReady(q)]
  <2>1. c.state \in ReadyStates
    BY <1>8 DEF ReadyStates
  <2>2. q.outstanding => q.queue # <<>> /\ Head(q.queue).sent
    BY <1>1, <1>4, <2>1 DEF View, SlotOK, SameFlags
  <2>3. ToReady(q).state \in ReadyStates /\ SlotOK(e, ToReady(q)) /\ SameFlags(ToReady(q), q)
    BY <1>3, <2>2, ToReadyFields
  <2>4. SameFlags(ToReady(q), c)
    BY <1>4, <2>3 DEF SameFlags
  <2> QED BY <1>8, <2>1, <2>3, <2>4, ReadyGoesOn
<1>9. CASE conn' = [conn EXCEPT ![e] = q]
  <2>1. SlotOK(e, q)
    BY <1>1, <1>4 DEF View, SlotOK, SameFlags, AttachedTo
  <2>2. View(e, link, q, conn[Peer(e)], net[e], net[Peer(e)])
    BY <1>1, <1>4, <2>1, GoesOn
  <2> QED BY <1>9, <2>2, StepsAlone
<1> QED BY <1>5, <1>6, <1>7, <1>8, <1>9

LEMMA ResultTalks ==
    ASSUME IInv, Conversation, NEW e \in E, NEW h \in Hosts,
           update_finished(e, h) \/ update_failed(e, h)
    PROVE  Conversation'
<1>1. PICK rcode \in Rcodes : DeliverResult(e, h, rcode)
  BY DEF update_finished, update_failed, Rcodes
<1>2. UNCHANGED link
  BY DEF update_finished, update_failed
<1>3. CASE ClientUpdateFinished(e, h, rcode) /\ UNCHANGED net
  BY <1>2, <1>3, ClientResultTalks
<1>4. CASE AdvertiseFinished(e, h, rcode)
  BY <1>2, <1>4, AdvertiseTalks
<1>5. CASE UNCHANGED <<conn, net>>
  BY <1>2, <1>5, UntouchedTalks
<1> QED BY <1>1, <1>3, <1>4, <1>5, Zenon DEF DeliverResult

\* The rest of the event loop and of the environment: hosts, callbacks, the clock.
LEMMA OthersTalk ==
    ASSUME IInv, Conversation, NEW e \in E,
           \/ Settle(e) \/ RunNextUpdate(e) \/ RunDeferred(e)
           \/ \E h \in Hosts : \/ ClientUpdate(e, h) \/ ClientRemove(e, h)
                               \/ lease_callback(e, h) \/ OtherUpdate(e, h)
    PROVE  Conversation'
<1>1. CASE RunDeferred(e)
  <2>1. Head(async[e]).rcode \in Rcodes
    BY <1>1, CallbackFacts DEF RunDeferred, IInv, CallbackType
  <2>2. AdvertiseFinished(e, Head(async[e]).host, Head(async[e]).rcode) /\ UNCHANGED link
    BY <1>1 DEF RunDeferred
  <2> QED BY <2>1, <2>2, AdvertiseTalks
<1>2. CASE ~RunDeferred(e)
  <2>1. UNCHANGED <<conn, net, link>>
    BY <1>2, Zenon DEF Settle, RunNextUpdate, ClientUpdate, ClientRemove, lease_callback, OtherUpdate
  <2> QED BY <2>1, UntouchedTalks
<1> QED BY <1>1, <1>2

-----------------------------------------------------------------------------
LEMMA InitTalks == Init => Conversation
<1>1. SUFFICES ASSUME Init PROVE Conversation
  OBVIOUS
<1>2. SUFFICES ASSUME NEW e \in E
               PROVE  View(e, link, conn[e], conn[Peer(e)], net[e], net[Peer(e)])
  BY DEF Conversation
<1>3. /\ conn[e].state \in Down /\ conn[Peer(e)].state \in Down
      /\ net[e] = <<>> /\ net[Peer(e)] = <<>> /\ ~link
  BY <1>1, PeerFacts DEF Init, Connection, Down
<1>4. ASSUME NEW f, NEW c, c.state \in Down PROVE SlotOK(f, c) /\ StreamOK(f, c, <<>>)
  BY <1>4 DEF SlotOK, StreamOK, Down, Offering, Answering, Applying, Awaiting, ReadyStates
<1> QED BY <1>3, <1>4 DEF View

LEMMA RunTalks ==
    ASSUME IInv, Conversation, NEW e \in E, Run(e)
    PROVE  Conversation'
<1>1. CASE \/ NoticeLoss(e) \/ srpl_disconnect_action(e) \/ srpl_disconnect_wait_action(e)
           \/ srpl_dso_retry_delay(e)
  BY <1>1, LossTalks
<1>2. CASE srpl_send_candidates_send_action(e)
  BY <1>2, AskingTalks
<1>3. CASE srpl_candidate_check_action(e)
  BY <1>3, CheckTalks
<1>4. CASE srpl_next_candidate_send_action(e)
  BY <1>4, OfferTalks
<1>5. CASE srpl_candidate_host_send_action(e)
  BY <1>5, GiveTalks
<1>6. CASE srpl_send_candidates_response_send_action(e)
  BY <1>6, ThroughTalks
<1>7. CASE srpl_send_candidates_received_action(e) \/ srpl_candidates_remaining_check_action(e)
  BY <1>7, ListTalks
<1>8. CASE SendCandidatesReceived(e) \/ CandidateReceived(e) \/ CandidateHostReceived(e)
  BY <1>8, RequestTalks
<1>9. CASE \/ SendCandidatesResponse(e) \/ srpl_next_candidate_send_wait_action(e)
           \/ srpl_candidate_host_response_wait_action(e)
  BY <1>9, ResponseTalks
<1>10. CASE srpl_candidate_host_prepare_action(e) \/ srpl_candidate_host_re_evaluate_action(e)
  BY <1>10, PrepareTalks
<1>11. CASE srpl_candidate_host_apply_action(e) \/ srpl_stashed_host_apply_action(e)
  BY <1>11, ApplyTalks
<1>12. CASE ReadyHostReceived(e) \/ UnmatchedResponse(e) \/ ReadyHostResponse(e)
  BY <1>12, ReadyHears
<1>13. CASE \/ srpl_stashed_host_check_action(e) \/ srpl_stashed_host_finished_action(e)
            \/ srpl_srp_client_ack_evaluate_action(e) \/ srpl_srp_client_update_send_action(e)
  BY <1>13, ReadyTalks
<1>14. CASE \E h \in Hosts : update_finished(e, h)
  BY <1>14, ResultTalks
<1>15. CASE Settle(e) \/ RunNextUpdate(e) \/ RunDeferred(e)
  BY <1>15, OthersTalk
<1> QED BY <1>1, <1>2, <1>3, <1>4, <1>5, <1>6, <1>7, <1>8, <1>9, <1>10, <1>11, <1>12,
           <1>13, <1>14, <1>15, Zenon DEF Run

LEMMA NextTalks == IInv /\ Conversation /\ [Next]_vars => Conversation'
<1> SUFFICES ASSUME IInv, Conversation, [Next]_vars PROVE Conversation'
  OBVIOUS
<1>1. CASE UNCHANGED vars
  BY <1>1, UntouchedTalks DEF vars
<1>2. CASE Establish
  BY <1>2, EstablishTalks
<1>3. CASE \E e \in E : Run(e)
  BY <1>3, RunTalks
<1>4. CASE LoseConnection
  BY <1>4, LoseConnectionTalks
<1>5. CASE \E e \in E : srpl_disconnect(e)
  BY <1>5, LossTalks
<1>6. ASSUME NEW e \in E, NEW h \in Hosts,
             \/ ClientUpdate(e, h) \/ ClientRemove(e, h) \/ lease_callback(e, h)
             \/ OtherUpdate(e, h) \/ update_failed(e, h)
      PROVE  Conversation'
  <2>1. CASE update_failed(e, h)
    BY <2>1, ResultTalks
  <2>2. CASE ~update_failed(e, h)
    BY <1>6, <2>2, OthersTalk
  <2> QED BY <2>1, <2>2
<1> QED BY <1>1, <1>2, <1>3, <1>4, <1>5, <1>6, Zenon DEF Next, Environment

LEMMA ConversationHolds == Spec => []Conversation
  BY InitTalks, NextTalks, Inductive, PTL DEF Spec

-----------------------------------------------------------------------------
(* The theorems.                                                           *)

LEMMA HeadIsTaken ==
    ASSUME IInv, Conversation, NEW e \in E, AllQuiet, net[e] # <<>>,
           conn[e].state # "disconnect_wait"
    PROVE  Head(net[e]).type \in Accepts(conn[e].state)
<1> DEFINE c == conn[e]
           x == net[e]
           t == Head(x).type
<1>1. x \in Stream /\ Fit(c) /\ StreamOK(e, c, x)
  BY Before DEF View
<1>2. /\ Kind(Head(x)) = t \/ (Kind(Head(x)) = "accepted" /\ t = "candidate_response")
      /\ Noise \subseteq Accepts(c.state)
  BY DEF Kind, Noise, Accepts
<1>3. c.state \in Waiting \ {"none", "idle", "disconnect_wait"}
  <2>1. c.state \in Transient \cup Waiting /\ c.state \notin Transient
    BY <1>1 DEF Fit, ConnectionType, AllQuiet, Quiet
  <2>2. c.state \notin Down
    BY <1>1 DEF StreamOK
  <2> QED BY <2>1, <2>2 DEF Down
<1>4. CASE Kind(Head(x)) \in Noise
  BY <1>2, <1>4 DEF Noise
<1>5. CASE Kind(Head(x)) \notin Noise
  <2>1. /\ ~Silent(x)
        /\ \A k : Carries(x, k) => k = Kind(Head(x))
        /\ \A k, l : CarriesTwo(x, k, l) => k = Kind(Head(x))
        /\ ReadyStream(x) => Kind(Head(x)) \in {"host", "host_response"}
    BY <1>1, <1>5, TailCore
  <2>2. c.state \notin Applying
    BY <1>1, <2>1 DEF StreamOK
  <2>3. CASE c.state = "send_candidates_message_wait"
    <3>1. t = "send_candidates"
      BY <1>1, <1>2, <2>1, <2>3 DEF StreamOK
    <3> QED BY <2>3, <3>1 DEF Accepts
  <2>4. CASE c.state = "next_candidate_send_wait"
    <3>1. t # "accepted"
      BY <1>1, TailIs DEF MessageType
    <3>2. t = "candidate_response"
      BY <1>1, <1>2, <2>1, <2>4, <3>1 DEF StreamOK
    <3> QED BY <2>4, <3>2 DEF Accepts
  <2>5. CASE c.state = "candidate_host_response_wait"
    <3>1. t = "host_response"
      BY <1>1, <1>2, <2>1, <2>5 DEF StreamOK
    <3> QED BY <2>5, <3>1 DEF Accepts
  <2>6. CASE c.state = "send_candidates_wait"
    <3>1. t \in {"send_candidates_response", "candidate"}
      BY <1>1, <1>2, <2>1, <2>6 DEF StreamOK, Awaiting
    <3> QED BY <2>6, <3>1 DEF Accepts
  <2>7. CASE c.state = "candidate_host_wait"
    <3>1. t \in {"send_candidates_response", "candidate", "host"}
      BY <1>1, <1>2, <2>1, <2>7 DEF StreamOK, Awaiting
    <3> QED BY <2>7, <3>1 DEF Accepts
  <2>8. CASE c.state = "ready"
    <3>1. t \in {"host", "host_response"}
      BY <1>1, <1>2, <2>1, <2>8 DEF StreamOK, ReadyStates
    <3> QED BY <2>8, <3>1 DEF Accepts
  <2> QED BY <1>3, <2>2, <2>3, <2>4, <2>5, <2>6, <2>7, <2>8 DEF Waiting, Applying
<1> QED BY <1>4, <1>5

\* No message is lost in the UNEXPECTED_EVENT of a state action of srp-replication.c:
\* whatever arrives on an established session arrives in a state that takes it, for any
\* number of hosts, updates, failures, connection losses and reconnections, and with any
\* number of messages in flight.
THEOREM EveryMessageIsTaken == Spec => []NoUnexpectedMessage
<1>1. IInv /\ Conversation => NoUnexpectedMessage
  BY HeadIsTaken DEF NoUnexpectedMessage
<1> QED BY <1>1, Inductive, ConversationHolds, PTL

\* The two FAULTs of srpl_srp_client_ack_evaluate_action never happen: an
\* acknowledgement that arrives in the ready phase is one for the update at the head of
\* the client update queue, which has been sent.
THEOREM AcknowledgementsMatch == Spec => []AckMatchesQueue
<1>1. IInv /\ Conversation => AckMatchesQueue
  <2> SUFFICES ASSUME IInv, Conversation, NEW e \in E,
                      conn[e].state = "srp_client_ack_evaluate"
               PROVE  conn[e].queue # <<>> /\ Head(conn[e].queue).sent
    BY DEF AckMatchesQueue
  <2>1. SlotOK(e, conn[e])
    BY Before DEF View
  <2> QED BY <2>1 DEF SlotOK
<1> QED BY <1>1, Inductive, ConversationHolds, PTL

\* A request never finds the one outstanding-query slot of the DSO session taken, so the
\* failure of dso_make_message that srpl_dso_message_setup ignores does not happen.
THEOREM SlotIsFree == Spec => []OneOutstandingRequest
<1>1. IInv /\ Conversation => OneOutstandingRequest
  <2> SUFFICES ASSUME IInv, Conversation, NEW e \in E,
                      conn[e].state \in {"send_candidates_send", "next_candidate_send",
                                         "candidate_host_send", "srp_client_update_send"}
               PROVE  ~conn[e].outstanding
    BY DEF OneOutstandingRequest
  <2>1. SlotOK(e, conn[e])
    BY Before DEF View
  <2> QED BY <2>1 DEF SlotOK, Offering, ReadyStates
<1> QED BY <1>1, Inductive, ConversationHolds, PTL

-----------------------------------------------------------------------------
(* What the ends have in progress for each other: the assumptions.         *)

\* Two servers, whose messages can be used, and clients that talk to one of them.
Undisturbed ==
    /\ MaxOther = 0 /\ MaxBad = 0
    /\ \A h \in Hosts : \E e \in E : Home[h] = {e}

\* The connection, once it is there, is not lost.
Unbroken == [][link => link']_vars

-----------------------------------------------------------------------------
(* One end.  Its connection is c, its hosts are H, the update_finished     *)
(* call on its stack is f and its callbacks are a.                         *)

\* Neither end gives the session up.
Up == \A e \in E : conn[e].state \notin Closing

\* States in which a host of the peer has been stashed and not yet been applied.
Handling ==
    {"candidate_host_prepare", "candidate_host_contention_wait", "candidate_host_re_evaluate",
     "candidate_host_apply", "stashed_host_check", "stashed_host_apply"}

\* States of the ready phase that leave the stashed host alone.
Resting == {"ready", "srp_client_update_send", "srp_client_ack_evaluate"}

\* A host of the peer is being applied; the connection waits to hear that it has been.
Expecting(c) ==
    \/ c.state = "candidate_host_apply_wait"
    \/ c.state \in Resting /\ ~c.answered

HeadSent(c) == c.queue # <<>> /\ Head(c.queue).sent

\* An update that has been sent is outstanding; ready does not leave one unsent; and the
\* updates queued for the peer are those of our own clients.
QueueOK(e, c) ==
    /\ HeadSent(c) => c.state \in ReadyStates
    /\ HeadSent(c) /\ c.state # "srp_client_ack_evaluate" => c.outstanding
    /\ c.state = "ready" /\ c.queue # <<>> => HeadSent(c)
    /\ \A i \in DOMAIN c.queue : e \in Home[c.queue[i].ref.host]

\* In the ready phase the peer has sent a host of a client of its own; and a host is not
\* looked at while an update of another of the peer's is being finished.
StashOK(e, c, f) ==
    /\ c.state \in ReadyStates /\ ~c.answered
         => c.stash.name \in Hosts /\ e \notin Home[c.stash.name]
    /\ c.state \in {"stashed_host_check", "stashed_host_apply"} => ~c.answered
    /\ c.state \in Handling /\ f # NoFin => e \in Home[f.host]

\* What is in progress of the hosts of the peer: an update, one behind others, or an
\* event to be delivered.
Started(h, r, f) == r.update.src # "client" /\ ~(f.host = h /\ ~f.failed)
Foreign(q) == {i \in DOMAIN q : q[i].src # "client"}
Queued(r) == Foreign(r.clients)
Deferrals(a) == {i \in DOMAIN a : a[i].kind = "advertise_finished"}

Untouching(h, r, f) == ~Started(h, r, f) /\ Queued(r) = {}

Idle(H, f, a) == Deferrals(a) = {} /\ \A h \in Hosts : Untouching(h, H[h], f)

AtMostOneIn(h, r, f) ==
    /\ \A i, j \in Queued(r) : i = j
    /\ Started(h, r, f) => Queued(r) = {}

OneDeferral(s, a) ==
    /\ \A i, j \in Deferrals(a) : i = j
    /\ \A i \in Deferrals(a) : a[i].host = s

AtMostOne(s, H, f, a) ==
    /\ \A h \in Hosts : h # s => Untouching(h, H[h], f)
    /\ s \in Hosts => AtMostOneIn(s, H[s], f)
    /\ s \in Hosts /\ Deferrals(a) # {} => Untouching(s, H[s], f)
    /\ OneDeferral(s, a)

\* One thing at most is in progress, that which the connection waits for; in the ready
\* phase it is.
EventOK(c, H, f, a) ==
    /\ Expecting(c) => AtMostOne(c.stash.name, H, f, a)
    /\ ~Expecting(c) => Idle(H, f, a)
    /\ c.state \in Resting /\ ~c.answered
         => Started(c.stash.name, H[c.stash.name], f) \/ Deferrals(a) # {}

\* A host whose clients talk to the peer has no update but the one of the peer, and it
\* is marked as long as it has one.
RecordOK(e, h, r, f) ==
    /\ r.st # "valid" => r.update = NoUpdate /\ r.clients = <<>> /\ r.srpl = "none"
    /\ e \notin Home[h] =>
         /\ r.clients = <<>>
         /\ r.update # NoUpdate => r.update.src # "client" /\ r.srpl # "none"
         /\ r.srpl # "none" => r.update # NoUpdate \/ f.host = h
         /\ f.host = h => f.src # "client" /\ (r.update = NoUpdate <=> f.failed)

EndOK(e, c, H, f, a) ==
    /\ QueueOK(e, c) /\ StashOK(e, c, f) /\ EventOK(c, H, f, a)
    /\ \A h \in Hosts : RecordOK(e, h, H[h], f)

\* In the ready phase end e sends the hosts of its own clients.
Homed(e, s, y) ==
    s \in ReadyStates => \A i \in DOMAIN y : y[i].type = "host" => e \in Home[y[i].host]

Settling ==
    /\ ~link => conn["cl"].state = "idle" /\ conn["sv"].state = "none"
    /\ Up => \A e \in E : /\ EndOK(e, conn[e], host[e], fin[e], async[e])
                          /\ Homed(e, conn[e].state, net[Peer(e)])

-----------------------------------------------------------------------------
(* Facts.                                                                  *)

LEMMA LinkUp ==
    ASSUME IInv, Settling, NEW e \in E, conn[e].state \notin Down
    PROVE  link
  BY DEF Settling, E, Down, IInv, RestOK

\* End e takes a step and its peer does not.
LEMMA EndSteps ==
    ASSUME IInv, Settling, Up, NEW e \in E, NEW b, conn' = [conn EXCEPT ![e] = b],
           host'[Peer(e)] = host[Peer(e)], fin'[Peer(e)] = fin[Peer(e)],
           async'[Peer(e)] = async[Peer(e)], link' = link,
           b.state = conn[e].state \/ conn[e].state \notin Down,
           EndOK(e, b, host'[e], fin'[e], async'[e]),
           Homed(e, b.state, net'[Peer(e)]), Homed(Peer(e), conn[Peer(e)].state, net'[e])
    PROVE  Settling'
<1> DEFINE p == Peer(e)
<1>1. p \in E /\ E = {e, p} /\ Peer(p) = e /\ p # e
  BY DEF E, Peer
<1>2. conn'[e] = b /\ conn'[p] = conn[p]
  BY <1>1 DEF IInv, ConnOK
<1>3. EndOK(p, conn[p], host[p], fin[p], async[p])
  BY <1>1 DEF Settling
<1>4. ~link => b.state = conn[e].state
  BY LinkUp
<1>5. ~link' => conn'["cl"].state = "idle" /\ conn'["sv"].state = "none"
  BY <1>1, <1>2, <1>4 DEF Settling, E
<1> HIDE DEF p
<1>6. \A x \in E : /\ EndOK(x, conn'[x], host'[x], fin'[x], async'[x])
                   /\ Homed(x, conn'[x].state, net'[Peer(x)])
  BY <1>1, <1>2, <1>3 DEF p
<1> QED BY <1>5, <1>6 DEF Settling

\* What is left of a stream is homed, and so is what is sent of one's own.
LEMMA HomedTail ==
    ASSUME NEW e, NEW s, NEW y \in Stream, Homed(e, s, y)
    PROVE  y # <<>> => Homed(e, s, Tail(y))
<1> SUFFICES ASSUME y # <<>>, s \in ReadyStates, NEW i \in DOMAIN Tail(y), Tail(y)[i].type = "host"
             PROVE  e \in Home[Tail(y)[i].host]
  BY DEF Homed
<1>1. i + 1 \in DOMAIN y /\ Tail(y)[i] = y[i + 1]
  BY TailIs
<1> QED BY <1>1 DEF Homed

LEMMA HomedAppend ==
    ASSUME NEW e, NEW s, NEW y \in Stream, Homed(e, s, y), NEW m \in MessageType,
           m.type = "host" => e \in Home[m.host]
    PROVE  Homed(e, s, Append(y, m))
<1> SUFFICES ASSUME s \in ReadyStates, NEW i \in DOMAIN Append(y, m), Append(y, m)[i].type = "host"
             PROVE  e \in Home[Append(y, m)[i].host]
  BY DEF Homed
<1>1. Append(y, m)[i] = m \/ (i \in DOMAIN y /\ Append(y, m)[i] = y[i])
  BY DEF Stream
<1> QED BY <1>1 DEF Homed

LEMMA HomedSilent ==
    ASSUME NEW e, NEW s, NEW y, Silent(y)
    PROVE  Homed(e, s, y)
  BY DEF Homed, Silent, Kind, Noise

-----------------------------------------------------------------------------
(* What the state actions do, one by one.                                  *)

\* The data of a connection, but for the state and the flags.
SameData(b, c) ==
    /\ b.queue = c.queue /\ b.stash = c.stash /\ b.candidate = c.candidate
    /\ b.candidates = c.candidates /\ b.current = c.current /\ b.not_generated = c.not_generated

\* End e takes a step that changes its connection; it reads, writes or neither.
Acts(e) == conn' = [conn EXCEPT ![e] = conn'[e]] /\ UNCHANGED <<host, async, fin, link, clock, used>>
Reads(e) == net[e] # <<>> /\ net'[e] = Tail(net[e]) /\ net'[Peer(e)] = net[Peer(e)]
Writes(e, m) == net'[e] = net[e] /\ net'[Peer(e)] = Sent(link, net[Peer(e)], m)

LEMMA WireFacts ==
    ASSUME IInv, NEW e \in E
    PROVE  /\ Consume(e) /\ net[e] # <<>> => Reads(e)
           /\ \A m : Transmit(e, m) => Writes(e, m)
  BY PeerFacts DEF IInv, NetOK, Consume, Transmit, Sent, Reads, Writes

LEMMA ConnStep ==
    ASSUME IInv, NEW e \in E, NEW b, conn' = [conn EXCEPT ![e] = b]
    PROVE  /\ conn'[e] = b /\ conn' = [conn EXCEPT ![e] = conn'[e]]
           /\ conn'[Peer(e)] = conn[Peer(e)]
  BY PeerFacts DEF IInv, ConnOK

LEMMA ToData ==
    ASSUME NEW c \in ConnectionType, NEW s \in Transient \cup Waiting
    PROVE  /\ To(c, s) \in ConnectionType /\ To(c, s).state = s /\ SameData(To(c, s), c)
           /\ SameFlags(To(c, s), c)
  BY DEF To, ConnectionType, SameData, SameFlags

LEMMA Requests ==
    ASSUME IInv, NEW e \in E, NEW b \in ConnectionType, NEW m, SendRequest(e, m, b)
    PROVE  /\ conn' = [conn EXCEPT ![e] = conn'[e]] /\ SameData(conn'[e], b)
           /\ conn'[e].state = b.state
           /\ conn'[e].outstanding /\ conn'[e].answered = b.answered
           /\ Writes(e, m)
<1>1. conn'[e] = [b EXCEPT !.outstanding = TRUE] /\ conn' = [conn EXCEPT ![e] = conn'[e]]
  BY ConnStep DEF SendRequest
<1>2. Transmit(e, m)
  BY DEF SendRequest
<1> QED BY <1>1, <1>2, WireFacts DEF SameData, ConnectionType

LEMMA Responses ==
    ASSUME IInv, NEW e \in E, NEW b \in ConnectionType, NEW t, NEW v, SendResponse(e, t, v, b)
    PROVE  /\ conn' = [conn EXCEPT ![e] = conn'[e]] /\ SameData(conn'[e], b)
           /\ conn'[e].state = b.state
           /\ conn'[e].answered /\ conn'[e].outstanding = b.outstanding
           /\ Writes(e, Response(IF b.answered THEN "unmatched_response" ELSE t, v))
<1>1. conn'[e] = [b EXCEPT !.answered = TRUE] /\ conn' = [conn EXCEPT ![e] = conn'[e]]
  BY ConnStep DEF SendResponse
<1>2. Transmit(e, Response(IF b.answered THEN "unmatched_response" ELSE t, v))
  BY DEF SendResponse
<1> QED BY <1>1, <1>2, WireFacts DEF SameData, ConnectionType

LEMMA StateNames ==
    {"none", "idle", "disconnect", "disconnect_wait", "send_candidates_send",
     "send_candidates_wait", "candidate_host_apply_wait", "send_candidates_received",
     "send_candidates_remaining_check", "candidate_host_response_wait",
     "send_candidates_response_send", "send_candidates_message_wait", "ready",
     "srp_client_ack_evaluate", "stashed_host_finished", "candidate_host_wait", "candidate_check",
     "candidate_host_prepare", "candidate_host_re_evaluate", "candidate_host_contention_wait",
     "candidate_host_apply", "next_candidate_send", "next_candidate_send_wait",
     "candidate_host_send", "srp_client_update_send", "stashed_host_check", "stashed_host_apply"}
      \subseteq Transient \cup Waiting
  BY DEF Transient, Waiting

LEMMA SendDoes ==
    ASSUME IInv, NEW e \in E, srpl_send_candidates_send_action(e)
    PROVE  /\ conn[e].state = "send_candidates_send" /\ conn'[e].state = "send_candidates_wait"
           /\ Acts(e) /\ SameData(conn'[e], conn[e])
           /\ Writes(e, Request("send_candidates", NoHost, 0, 0, 0))
<1>1. conn[e] \in ConnectionType
  BY ConnFacts DEF IInv
<1>2. /\ To(conn[e], "send_candidates_wait") \in ConnectionType
      /\ To(conn[e], "send_candidates_wait").state = "send_candidates_wait"
      /\ SameData(To(conn[e], "send_candidates_wait"), conn[e])
  BY <1>1, ToData, StateNames
<1> QED BY <1>2, Requests DEF srpl_send_candidates_send_action, Acts, SameData

LEMMA ResponseDoes ==
    ASSUME IInv, NEW e \in E, SendCandidatesResponse(e)
    PROVE  /\ conn[e].state \in Awaiting /\ Acts(e) /\ SameData(conn'[e], conn[e])
           /\ Reads(e) /\ AllQuiet /\ Head(net[e]).type = "send_candidates_response"
           /\ conn'[e].answered = conn[e].answered
           /\ e = "cl" => conn'[e].state = "send_candidates_message_wait"
           /\ e = "sv" => conn'[e].state = ToReady(conn[e]).state
<1> DEFINE c == [conn[e] EXCEPT !.outstanding = FALSE]
           b == IF e = "sv" THEN ToReady([c EXCEPT !.synchronized = TRUE])
                ELSE To(c, "send_candidates_message_wait")
<1>1. conn[e] \in ConnectionType
  BY ConnFacts DEF IInv
<1>2. conn'[e] = b /\ conn' = [conn EXCEPT ![e] = conn'[e]]
  BY ConnStep DEF SendCandidatesResponse
<1>3. SameData(b, conn[e]) /\ b.answered = conn[e].answered
  BY <1>1 DEF ToReady, To, ConnectionType, SameData
<1>4. /\ e = "sv" => b.state = ToReady(conn[e]).state
      /\ e # "sv" => b.state = "send_candidates_message_wait"
  BY <1>1 DEF ToReady, To, ConnectionType
<1> HIDE DEF b
<1> QED BY <1>2, <1>3, <1>4, WireFacts DEF SendCandidatesResponse, Receives, Acts, Awaiting

LEMMA CandidateDoes ==
    ASSUME IInv, NEW e \in E, CandidateReceived(e)
    PROVE  LET c == conn[e]  d == conn'[e]
           IN  /\ c.state \in Awaiting /\ d.state = "candidate_check" /\ Acts(e) /\ Reads(e)
               /\ AllQuiet /\ Head(net[e]).type = "candidate"
               /\ SameData(d, [c EXCEPT !.candidate = d.candidate])
               /\ d.candidate.name = Head(net[e]).host /\ ~d.answered
<1> DEFINE c == conn[e]
           m == Head(net[e])
           k == [name |-> m.host, time |-> clock - m.age, key |-> m.key]
           b == To([c EXCEPT !.answered = FALSE, !.candidate = k], "candidate_check")
<1>1. conn[e] \in ConnectionType
  BY ConnFacts DEF IInv
<1>2. conn'[e] = b /\ conn' = [conn EXCEPT ![e] = conn'[e]]
  BY ConnStep DEF CandidateReceived
<1> HIDE DEF k
<1>3. b.state = "candidate_check" /\ SameData(b, [c EXCEPT !.candidate = k]) /\ b.candidate = k
      /\ ~b.answered
  BY <1>1 DEF To, ConnectionType, SameData
<1> HIDE DEF b
<1>4. k.name = m.host
  BY DEF k
<1> QED BY <1>2, <1>3, <1>4, WireFacts DEF CandidateReceived, Receives, Acts, Awaiting

LEMMA CheckDoes ==
    ASSUME IInv, NEW e \in E, srpl_candidate_check_action(e)
    PROVE  LET c == conn[e]  d == conn'[e]
               v == srpl_candidate_host_check(host[e][c.candidate.name], c.candidate)
           IN  /\ c.state = "candidate_check" /\ Acts(e) /\ SameData(d, c)
               /\ d.state = IF v = "yes" THEN "candidate_host_wait" ELSE "send_candidates_wait"
               /\ Writes(e, Response(IF c.answered THEN "unmatched_response"
                                     ELSE "candidate_response", v))
<1> DEFINE c == conn[e]
           v == srpl_candidate_host_check(host[e][c.candidate.name], c.candidate)
           b == To(c, IF v = "yes" THEN "candidate_host_wait" ELSE "send_candidates_wait")
<1>1. conn[e] \in ConnectionType
  BY ConnFacts DEF IInv
<1>2. /\ b \in ConnectionType /\ SameData(b, c) /\ SameFlags(b, c)
      /\ b.state = IF v = "yes" THEN "candidate_host_wait" ELSE "send_candidates_wait"
  BY <1>1, ToData, StateNames
<1>3. SendResponse(e, "candidate_response", v, b) /\ UNCHANGED <<host, async, fin, link, clock, used>>
  BY Zenon DEF srpl_candidate_check_action
<1> HIDE DEF b, v
<1>4. /\ conn' = [conn EXCEPT ![e] = conn'[e]] /\ SameData(conn'[e], b) /\ conn'[e].state = b.state
      /\ Writes(e, Response(IF b.answered THEN "unmatched_response" ELSE "candidate_response", v))
  BY <1>2, <1>3, Responses
<1>5. b.answered = c.answered
  BY <1>2 DEF SameFlags
<1>6. Acts(e) /\ SameData(conn'[e], c)
  BY <1>2, <1>3, <1>4 DEF Acts, SameData
<1> QED BY <1>2, <1>4, <1>5, <1>6 DEF srpl_candidate_check_action, v

LEMMA HostDoes ==
    ASSUME IInv, NEW e \in E, CandidateHostReceived(e)
    PROVE  LET c == conn[e]  d == conn'[e]
           IN  /\ c.state = "candidate_host_wait" /\ d.state = "candidate_host_prepare"
               /\ Acts(e) /\ Reads(e) /\ AllQuiet /\ Head(net[e]).type = "host"
               /\ SameData(d, [c EXCEPT !.stash = d.stash]) /\ d.stash = Stash(Head(net[e]))
<1> DEFINE c == conn[e]
           k == Stash(Head(net[e]))
           b == [To(c, "candidate_host_prepare") EXCEPT !.stash = k, !.answered = FALSE]
<1>1. conn[e] \in ConnectionType
  BY ConnFacts DEF IInv
<1>2. conn'[e] = b /\ conn' = [conn EXCEPT ![e] = conn'[e]]
  BY ConnStep DEF CandidateHostReceived
<1> HIDE DEF k
<1>3. b.state = "candidate_host_prepare" /\ SameData(b, [c EXCEPT !.stash = k]) /\ b.stash = k
  BY <1>1 DEF To, ConnectionType, SameData
<1> HIDE DEF b
<1> QED BY <1>2, <1>3, WireFacts DEF CandidateHostReceived, Receives, Acts, k

LEMMA PrepareDoes ==
    ASSUME IInv, NEW e \in E, srpl_candidate_host_prepare_action(e)
    PROVE  LET c == conn[e]  d == conn'[e]  r == host[e][c.candidate.name]
           IN  /\ c.state = "candidate_host_prepare" /\ Acts(e) /\ UNCHANGED net /\ SameData(d, c)
               /\ d.state = IF r.st # "valid" THEN "candidate_host_apply"
                            ELSE IF r.srpl # "none" \/ r.update # NoUpdate
                                 THEN "candidate_host_contention_wait"
                                 ELSE "candidate_host_re_evaluate"
<1> DEFINE c == conn[e]
           r == host[e][c.candidate.name]
           s == IF r.st # "valid" THEN "candidate_host_apply"
                ELSE IF r.srpl # "none" \/ r.update # NoUpdate
                     THEN "candidate_host_contention_wait"
                     ELSE "candidate_host_re_evaluate"
<1>1. conn[e] \in ConnectionType
  BY ConnFacts DEF IInv
<1>2. /\ c.state = "candidate_host_prepare" /\ conn' = [conn EXCEPT ![e] = To(c, s)]
      /\ UNCHANGED <<host, async, fin, net, link, clock, used>>
  BY DEF srpl_candidate_host_prepare_action, srp_adv_host_valid, Updating
<1>3. s \in Transient \cup Waiting
  BY StateNames
<1> HIDE DEF s
<1>4. To(c, s).state = s /\ SameData(To(c, s), c)
  BY <1>1, <1>3, ToData
<1>5. conn'[e] = To(c, s) /\ Acts(e)
  BY <1>2, ConnStep DEF Acts
<1> QED BY <1>2, <1>4, <1>5 DEF s

LEMMA ReEvaluateDoes ==
    ASSUME IInv, NEW e \in E, srpl_candidate_host_re_evaluate_action(e)
    PROVE  LET c == conn[e]  d == conn'[e]
           IN  /\ c.state = "candidate_host_re_evaluate" /\ Acts(e) /\ SameData(d, c)
               /\ \/ d.state = "candidate_host_apply" /\ UNCHANGED net
                  \/ /\ d.state = "send_candidates_wait"
                     /\ \E v : Writes(e, Response(IF c.answered THEN "unmatched_response"
                                                  ELSE "host_response", v))
<1> DEFINE c == conn[e]
           v == srpl_candidate_host_check(host[e][c.candidate.name], c.candidate)
           rc == IF v = "no" THEN "noerror" ELSE "yxdomain"
<1>1. conn[e] \in ConnectionType
  BY ConnFacts DEF IInv
<1>2. /\ To(c, "candidate_host_apply").state = "candidate_host_apply"
      /\ SameData(To(c, "candidate_host_apply"), c)
      /\ To(c, "send_candidates_wait") \in ConnectionType
      /\ To(c, "send_candidates_wait").state = "send_candidates_wait"
      /\ SameData(To(c, "send_candidates_wait"), c)
      /\ To(c, "send_candidates_wait").answered = c.answered
  BY <1>1, ToData, StateNames DEF SameFlags
<1>3. CASE v = "yes"
  <2>1. conn' = [conn EXCEPT ![e] = To(c, "candidate_host_apply")] /\ UNCHANGED net
    BY <1>3 DEF srpl_candidate_host_re_evaluate_action
  <2> QED BY <1>2, <2>1, ConnStep DEF srpl_candidate_host_re_evaluate_action, Acts
<1>4. CASE v # "yes"
  <2>1. SendResponse(e, "host_response", rc, To(c, "send_candidates_wait"))
    BY <1>4, Zenon DEF srpl_candidate_host_re_evaluate_action
  <2> HIDE DEF rc, v
  <2> QED BY <1>2, <2>1, Responses DEF srpl_candidate_host_re_evaluate_action, Acts, SameData
<1> QED BY <1>3, <1>4

LEMMA AskedDoes ==
    ASSUME IInv, NEW e \in E, SendCandidatesReceived(e)
    PROVE  /\ conn[e].state = "send_candidates_message_wait"
           /\ conn'[e].state = "send_candidates_received"
           /\ Acts(e) /\ Reads(e) /\ AllQuiet /\ Head(net[e]).type = "send_candidates"
           /\ SameData(conn'[e], conn[e])
<1> DEFINE b == [To(conn[e], "send_candidates_received") EXCEPT !.answered = FALSE]
<1>1. conn[e] \in ConnectionType
  BY ConnFacts DEF IInv
<1>2. conn'[e] = b /\ conn' = [conn EXCEPT ![e] = conn'[e]]
  BY ConnStep DEF SendCandidatesReceived
<1>3. b.state = "send_candidates_received" /\ SameData(b, conn[e])
  BY <1>1 DEF To, ConnectionType, SameData
<1> QED BY <1>2, <1>3, WireFacts DEF SendCandidatesReceived, Receives, Acts

LEMMA ListDoes ==
    ASSUME IInv, NEW e \in E, srpl_send_candidates_received_action(e)
    PROVE  LET c == conn[e]  d == conn'[e]
           IN  /\ c.state = "send_candidates_received"
               /\ d.state = "send_candidates_remaining_check"
               /\ Acts(e) /\ UNCHANGED net
               /\ d.queue = c.queue /\ d.stash = c.stash /\ d.candidate = c.candidate
               /\ d.candidates = {Here(e, h) : h \in {x \in Hosts : srp_adv_host_valid(e, x)}}
               /\ d.not_generated => c.not_generated
<1> DEFINE c == conn[e]
           valid == {Here(e, h) : h \in {x \in Hosts : srp_adv_host_valid(e, x)}}
           b == [To(c, "send_candidates_remaining_check") EXCEPT
                   !.candidates = valid, !.current = NoRef, !.not_generated = @ /\ valid = {}]
<1>1. conn[e] \in ConnectionType
  BY ConnFacts DEF IInv
<1>2. conn'[e] = b /\ conn' = [conn EXCEPT ![e] = conn'[e]]
  BY ConnStep DEF srpl_send_candidates_received_action
<1> HIDE DEF valid
<1>3. /\ b.state = "send_candidates_remaining_check"
      /\ b.queue = c.queue /\ b.stash = c.stash /\ b.candidate = c.candidate
      /\ b.candidates = valid /\ (b.not_generated => c.not_generated)
  BY <1>1 DEF To, ConnectionType
<1> HIDE DEF b
<1> QED BY <1>2, <1>3 DEF srpl_send_candidates_received_action, Acts, valid

LEMMA NextDoes ==
    ASSUME IInv, NEW e \in E, srpl_candidates_remaining_check_action(e)
    PROVE  LET c == conn[e]  d == conn'[e]
           IN  /\ c.state = "send_candidates_remaining_check" /\ Acts(e) /\ UNCHANGED net
               /\ d.queue = c.queue /\ d.stash = c.stash /\ d.candidate = c.candidate
               /\ d.not_generated = c.not_generated
               /\ \/ /\ d.state = "next_candidate_send" /\ d.current \in c.candidates
                     /\ d.candidates = c.candidates \ {d.current}
                  \/ /\ d.state = "send_candidates_response_send" /\ c.candidates = {}
                     /\ d.candidates = {}
<1> DEFINE c == conn[e]
<1>1. conn[e] \in ConnectionType
  BY ConnFacts DEF IInv
<1>2. ASSUME NEW p \in c.candidates,
             conn' = [conn EXCEPT ![e] =
                [To(c, "next_candidate_send") EXCEPT !.candidates = @ \ {p}, !.current = p]]
      PROVE  /\ conn'[e].state = "next_candidate_send" /\ conn'[e].current = p
             /\ conn'[e].candidates = c.candidates \ {p}
             /\ conn'[e].queue = c.queue /\ conn'[e].stash = c.stash
             /\ conn'[e].candidate = c.candidate /\ conn'[e].not_generated = c.not_generated
             /\ conn' = [conn EXCEPT ![e] = conn'[e]]
  <2> DEFINE b == [To(c, "next_candidate_send") EXCEPT !.candidates = @ \ {p}, !.current = p]
  <2>1. conn'[e] = b /\ conn' = [conn EXCEPT ![e] = conn'[e]]
    BY <1>2, ConnStep
  <2> QED BY <1>1, <2>1 DEF To, ConnectionType
<1>3. ASSUME conn' = [conn EXCEPT ![e] = To(c, "send_candidates_response_send")]
      PROVE  /\ conn'[e].state = "send_candidates_response_send" /\ SameData(conn'[e], c)
             /\ conn' = [conn EXCEPT ![e] = conn'[e]]
  <2>1. /\ To(c, "send_candidates_response_send").state = "send_candidates_response_send"
        /\ SameData(To(c, "send_candidates_response_send"), c)
    BY <1>1, ToData, StateNames
  <2> QED BY <1>3, <2>1, ConnStep
<1> QED BY <1>2, <1>3, Zenon DEF srpl_candidates_remaining_check_action, Acts, SameData

LEMMA OfferDoes ==
    ASSUME IInv, NEW e \in E, srpl_next_candidate_send_action(e)
    PROVE  LET c == conn[e]  d == conn'[e]
           IN  /\ c.state = "next_candidate_send" /\ d.state = "next_candidate_send_wait"
               /\ Acts(e) /\ SameData(d, c)
               /\ \E a, k : Writes(e, Request("candidate", c.current.host, 0, a, k))
<1>1. conn[e] \in ConnectionType
  BY ConnFacts DEF IInv
<1>2. /\ To(conn[e], "next_candidate_send_wait") \in ConnectionType
      /\ To(conn[e], "next_candidate_send_wait").state = "next_candidate_send_wait"
      /\ SameData(To(conn[e], "next_candidate_send_wait"), conn[e])
  BY <1>1, ToData, StateNames
<1> QED BY <1>2, Requests DEF srpl_next_candidate_send_action, Acts, SameData

LEMMA AnswerDoes ==
    ASSUME IInv, NEW e \in E, srpl_next_candidate_send_wait_action(e)
    PROVE  LET c == conn[e]  d == conn'[e]
           IN  /\ c.state = "next_candidate_send_wait" /\ Acts(e) /\ Reads(e) /\ SameData(d, c)
               /\ AllQuiet /\ Head(net[e]).type = "candidate_response"
               /\ d.state = IF Head(net[e]).answer = "yes" THEN "candidate_host_send"
                            ELSE "send_candidates_remaining_check"
<1> DEFINE s == IF Head(net[e]).answer = "yes" THEN "candidate_host_send"
                ELSE "send_candidates_remaining_check"
           b == [To(conn[e], s) EXCEPT !.outstanding = FALSE]
<1>1. conn[e] \in ConnectionType
  BY ConnFacts DEF IInv
<1>2. conn'[e] = b /\ conn' = [conn EXCEPT ![e] = conn'[e]]
  <2>1. conn' = [conn EXCEPT ![e] = b]
    BY DEF srpl_next_candidate_send_wait_action
  <2> HIDE DEF b
  <2> QED BY <2>1, ConnStep
<1> HIDE DEF s
<1>3. b.state = s /\ SameData(b, conn[e])
  BY <1>1 DEF To, ConnectionType, SameData
<1> HIDE DEF b
<1> QED BY <1>2, <1>3, WireFacts DEF srpl_next_candidate_send_wait_action, Receives, Acts, s

LEMMA GiveDoes ==
    ASSUME IInv, NEW e \in E, srpl_candidate_host_send_action(e)
    PROVE  LET c == conn[e]  d == conn'[e]
           IN  /\ c.state = "candidate_host_send" /\ Acts(e) /\ SameData(d, c)
               /\ \/ /\ CanSendHost(e, c.current) /\ d.state = "candidate_host_response_wait"
                     /\ Writes(e, HostMessage(e, c.current.host))
                  \/ /\ ~CanSendHost(e, c.current) /\ d.state = "send_candidates_remaining_check"
                     /\ UNCHANGED net
<1> DEFINE c == conn[e]
           b == To(c, "candidate_host_response_wait")
           g == To(c, "send_candidates_remaining_check")
<1>1. conn[e] \in ConnectionType
  BY ConnFacts DEF IInv
<1>2. /\ b \in ConnectionType /\ b.state = "candidate_host_response_wait" /\ SameData(b, c)
      /\ g.state = "send_candidates_remaining_check" /\ SameData(g, c)
  BY <1>1, ToData, StateNames
<1>3. CASE CanSendHost(e, c.current)
  <2>1. SendRequest(e, HostMessage(e, c.current.host), b)
    BY <1>3 DEF srpl_candidate_host_send_action
  <2> HIDE DEF b
  <2> QED BY <1>2, <1>3, <2>1, Requests DEF srpl_candidate_host_send_action, Acts, SameData
<1>4. CASE ~CanSendHost(e, c.current)
  <2>1. conn' = [conn EXCEPT ![e] = g] /\ UNCHANGED net
    BY <1>4 DEF srpl_candidate_host_send_action
  <2> HIDE DEF g
  <2> QED BY <1>2, <1>4, <2>1, ConnStep DEF srpl_candidate_host_send_action, Acts
<1> QED BY <1>3, <1>4

LEMMA GivenDoes ==
    ASSUME IInv, NEW e \in E, srpl_candidate_host_response_wait_action(e)
    PROVE  /\ conn[e].state = "candidate_host_response_wait"
           /\ conn'[e].state = "send_candidates_remaining_check"
           /\ Acts(e) /\ Reads(e) /\ SameData(conn'[e], conn[e])
           /\ AllQuiet /\ Head(net[e]).type = "host_response"
<1> DEFINE b == [To(conn[e], "send_candidates_remaining_check") EXCEPT !.outstanding = FALSE]
<1>1. conn[e] \in ConnectionType
  BY ConnFacts DEF IInv
<1>2. conn'[e] = b /\ conn' = [conn EXCEPT ![e] = conn'[e]]
  BY ConnStep DEF srpl_candidate_host_response_wait_action
<1>3. b.state = "send_candidates_remaining_check" /\ SameData(b, conn[e])
  BY <1>1 DEF To, ConnectionType, SameData
<1> QED BY <1>2, <1>3, WireFacts DEF srpl_candidate_host_response_wait_action, Receives, Acts

LEMMA ThroughDoes ==
    ASSUME IInv, NEW e \in E, srpl_send_candidates_response_send_action(e)
    PROVE  LET c == conn[e]  d == conn'[e]
           IN  /\ c.state = "send_candidates_response_send" /\ Acts(e) /\ SameData(d, c)
               /\ e = "sv" => d.state = "send_candidates_send"
               /\ e = "cl" => d.state = ToReady(c).state
               /\ d.answered
               /\ Writes(e, Response(IF c.answered THEN "unmatched_response"
                                     ELSE "send_candidates_response", "noerror"))
<1> DEFINE c == conn[e]
           b == IF e = "sv" THEN To(c, "send_candidates_send")
                ELSE ToReady([c EXCEPT !.synchronized = TRUE])
<1>1. c \in ConnectionType
  BY ConnFacts DEF IInv
<1>2. /\ b \in ConnectionType /\ SameData(b, c) /\ b.answered = c.answered
      /\ e = "sv" => b.state = "send_candidates_send"
      /\ e # "sv" => b.state = ToReady(c).state
  BY <1>1 DEF ToReady, To, ConnectionType, SameData, Transient, Waiting
<1>3. SendResponse(e, "send_candidates_response", "noerror", b)
  BY DEF srpl_send_candidates_response_send_action
<1> HIDE DEF b
<1>4. /\ conn' = [conn EXCEPT ![e] = conn'[e]] /\ SameData(conn'[e], b) /\ conn'[e].state = b.state
      /\ conn'[e].answered
      /\ Writes(e, Response(IF b.answered THEN "unmatched_response"
                            ELSE "send_candidates_response", "noerror"))
  BY <1>2, <1>3, Responses
<1>5. SameData(conn'[e], c)
  BY <1>2, <1>4 DEF SameData
<1> QED BY <1>2, <1>4, <1>5 DEF srpl_send_candidates_response_send_action, Acts

-----------------------------------------------------------------------------
(* The exchange of candidates.                                             *)

LEMMA MovesOK ==
    ASSUME NEW e, NEW c, NEW b, NEW H, NEW f, NEW a, EndOK(e, c, H, f, a),
           c.state \notin ReadyStates \cup {"candidate_host_apply_wait"},
           b.state \notin ReadyStates \cup {"candidate_host_apply_wait"},
           b.queue = c.queue, b.state \in Handling => c.state \in Handling \/ f = NoFin
    PROVE  EndOK(e, b, H, f, a)
<1>1. ~HeadSent(c) /\ ~Expecting(c) /\ ~Expecting(b)
  BY DEF EndOK, QueueOK, Expecting, Resting, ReadyStates
<1>2. QueueOK(e, b)
  BY <1>1 DEF EndOK, QueueOK, HeadSent, ReadyStates
<1>3. StashOK(e, b, f)
  BY DEF EndOK, StashOK, ReadyStates
<1>4. EventOK(b, H, f, a)
  BY <1>1 DEF EndOK, EventOK, Resting, ReadyStates
<1> QED BY <1>2, <1>3, <1>4 DEF EndOK

\* An end moves on in the exchange of candidates.
LEMMA MovesSettle ==
    ASSUME IInv, Settling, Up, NEW e \in E, NEW b, conn' = [conn EXCEPT ![e] = b],
           UNCHANGED <<host, async, fin, link>>,
           net'[e] = net[e] \/ (net[e] # <<>> /\ net'[e] = Tail(net[e])),
           conn[e].state \notin ReadyStates \cup Down \cup {"candidate_host_apply_wait"},
           b.state \notin ReadyStates \cup {"candidate_host_apply_wait"},
           b.queue = conn[e].queue,
           b.state \in Handling => conn[e].state \in Handling \/ fin[e] = NoFin
    PROVE  Settling'
<1>1. EndOK(e, conn[e], host[e], fin[e], async[e]) /\ Homed(Peer(e), conn[Peer(e)].state, net[e])
  BY PeerFacts DEF Settling
<1>2. EndOK(e, b, host[e], fin[e], async[e])
  BY <1>1, MovesOK
<1>3. net[e] \in Stream
  BY DEF IInv, NetOK, Stream
<1>4. Homed(Peer(e), conn[Peer(e)].state, net'[e])
  BY <1>1, <1>3, HomedTail
<1>5. Homed(e, b.state, net'[Peer(e)])
  BY DEF Homed
<1> QED BY <1>2, <1>4, <1>5, EndSteps

LEMMA CandidatesSettle ==
    ASSUME IInv, Settling, Up, NEW e \in E,
           \/ srpl_send_candidates_send_action(e)
           \/ SendCandidatesResponse(e) /\ e = "cl"
           \/ CandidateReceived(e) \/ srpl_candidate_check_action(e)
           \/ CandidateHostReceived(e) \/ srpl_candidate_host_prepare_action(e)
           \/ srpl_candidate_host_re_evaluate_action(e)
           \/ SendCandidatesReceived(e) \/ srpl_send_candidates_received_action(e)
           \/ srpl_candidates_remaining_check_action(e)
           \/ srpl_next_candidate_send_action(e) \/ srpl_next_candidate_send_wait_action(e)
           \/ srpl_candidate_host_send_action(e) \/ srpl_candidate_host_response_wait_action(e)
           \/ srpl_send_candidates_response_send_action(e) /\ e = "sv"
    PROVE  Settling'
<1> DEFINE c == conn[e]
           d == conn'[e]
           Out == ReadyStates \cup Down \cup {"candidate_host_apply_wait"}
<1> SUFFICES /\ Acts(e) /\ c.state \notin Out /\ d.state \notin Out /\ d.queue = c.queue
             /\ net'[e] = net[e] \/ Reads(e)
             /\ d.state \in Handling => c.state \in Handling \/ fin[e] = NoFin
  BY MovesSettle DEF Acts, Reads
<1> USE DEF ReadyStates, Down, Handling, Awaiting
<1>1. CASE srpl_send_candidates_send_action(e)
  BY <1>1, SendDoes DEF SameData, Writes
<1>2. CASE SendCandidatesResponse(e) /\ e = "cl"
  BY <1>2, ResponseDoes DEF SameData
<1>3. CASE CandidateReceived(e)
  <2>1. c \in ConnectionType
    BY ConnFacts DEF IInv
  <2>2. [c EXCEPT !.candidate = d.candidate].queue = c.queue
    BY <2>1 DEF ConnectionType
  <2> QED BY <1>3, <2>2, CandidateDoes DEF SameData
<1>4. CASE srpl_candidate_check_action(e)
  BY <1>4, CheckDoes DEF SameData, Writes
<1>5. CASE CandidateHostReceived(e)
  <2>1. c \in ConnectionType
    BY ConnFacts DEF IInv
  <2>2. [c EXCEPT !.stash = d.stash].queue = c.queue
    BY <2>1 DEF ConnectionType
  <2>3. fin[e] = NoFin
    BY <1>5, HostDoes DEF AllQuiet, Quiet
  <2> QED BY <1>5, <2>2, <2>3, HostDoes DEF SameData
<1>6. CASE srpl_candidate_host_prepare_action(e)
  BY <1>6, PrepareDoes DEF SameData
<1>7. CASE srpl_candidate_host_re_evaluate_action(e)
  BY <1>7, ReEvaluateDoes DEF SameData, Writes
<1>8. CASE SendCandidatesReceived(e)
  BY <1>8, AskedDoes DEF SameData
<1>9. CASE srpl_send_candidates_received_action(e)
  BY <1>9, ListDoes
<1>10. CASE srpl_candidates_remaining_check_action(e)
  BY <1>10, NextDoes
<1>11. CASE srpl_next_candidate_send_action(e)
  BY <1>11, OfferDoes DEF SameData, Writes
<1>12. CASE srpl_next_candidate_send_wait_action(e)
  BY <1>12, AnswerDoes DEF SameData
<1>13. CASE srpl_candidate_host_send_action(e)
  BY <1>13, GiveDoes DEF SameData, Writes
<1>14. CASE srpl_candidate_host_response_wait_action(e)
  BY <1>14, GivenDoes DEF SameData
<1>15. CASE srpl_send_candidates_response_send_action(e) /\ e = "sv"
  BY <1>15, ThroughDoes DEF SameData, Writes
<1> QED BY <1>1, <1>2, <1>3, <1>4, <1>5, <1>6, <1>7, <1>8, <1>9, <1>10, <1>11, <1>12, <1>13,
           <1>14, <1>15

-----------------------------------------------------------------------------
(* The ready phase.                                                        *)

LEMMA ClosedSettles ==
    ASSUME link', ~Up'
    PROVE  Settling'
  BY DEF Settling, Up

LEMMA HomeFacts ==
    ASSUME Undisturbed, NEW e \in E, NEW h \in Hosts
    PROVE  e \in Home[h] <=> Peer(e) \notin Home[h]
<1>1. PICK x \in E : Home[h] = {x}
  BY DEF Undisturbed
<1> QED BY <1>1 DEF E, Peer

LEMMA NoHostFacts == NoHost \notin Hosts /\ NoFin.host = NoHost /\ NoStash.name = NoHost
<1>1. "no host" \notin Hosts
  BY BoundsAssumption, Zenon
<1> QED BY <1>1 DEF NoHost, NoFin, NoStash

\* Entering ready leaves no update of the queue unsent.
LEMMA ToReadyQueue ==
    ASSUME NEW e, NEW c, NEW d, d.queue = c.queue, d.state = ToReady(c).state, c \in ConnectionType,
           HeadSent(c) => d.outstanding,
           \A i \in DOMAIN c.queue : e \in Home[c.queue[i].ref.host]
    PROVE  QueueOK(e, d) /\ d.state \in {"ready", "srp_client_update_send"}
<1>1. d.state = IF c.queue # <<>> /\ ~Head(c.queue).sent THEN "srp_client_update_send" ELSE "ready"
  BY DEF ToReady, To, ConnectionType
<1> QED BY <1>1 DEF QueueOK, HeadSent, ReadyStates

LEMMA EntersReady ==
    ASSUME Undisturbed, IInv, Conversation, Settling, Up, NEW e \in E,
           \/ SendCandidatesResponse(e) /\ e = "sv"
           \/ srpl_send_candidates_response_send_action(e) /\ e = "cl"
    PROVE  Settling'
<1> DEFINE c == conn[e]
           d == conn'[e]
           p == Peer(e)
<1>0. /\ EndOK(e, c, host[e], fin[e], async[e]) /\ c \in ConnectionType
      /\ Homed(p, conn[p].state, net[e]) /\ p \in E /\ net[e] \in Stream /\ net[p] \in Stream
      /\ View(e, link, c, conn[p], net[e], net[p]) /\ c.state \notin Closing
      /\ conn[p].state \notin Closing
  BY PeerFacts, ConnFacts, Before DEF Settling, IInv, Up
<1>1. /\ Acts(e) /\ SameData(d, c) /\ d.state = ToReady(c).state /\ d.answered
      /\ c.state \in Awaiting \cup {"send_candidates_response_send"}
      /\ net'[e] = net[e] \/ Reads(e)
      /\ Silent(net'[p]) \/ \E m \in MessageType : m.type # "host" /\ Silent(net[p]) /\ net'[p] = Append(net[p], m)
  <2>1. CASE SendCandidatesResponse(e) /\ e = "sv"
    <3>1. SlotOK(e, c)
      BY <1>0 DEF View
    <3>2. c.answered
      BY <2>1, <3>1, ResponseDoes DEF SlotOK
    <3>3. link
      BY <2>1, ResponseDoes, LinkUp DEF Awaiting, Down
    <3>4. Together(e, c, conn[p], net[e], net[p])
      BY <1>0, <3>3 DEF View
    <3>5. /\ ~Silent(net[e])
          /\ \A k : Carries(net[e], k) => k = "send_candidates_response"
          /\ \A k, l : CarriesTwo(net[e], k, l) => k = "send_candidates_response"
          /\ ~ReadyStream(net[e])
      <4>1. Kind(Head(net[e])) = "send_candidates_response" /\ net[e] # <<>>
        BY <2>1, ResponseDoes DEF Reads, Kind
      <4> QED BY <1>0, <4>1, TailCore DEF Noise
    <3>6. c.state \in Awaiting
      BY <2>1, ResponseDoes
    <3>7. Silent(net[p])
      BY <2>1, <3>4, <3>5, <3>6 DEF Together, Asking, Turning, Finishing, Ready, Awaiting, ReadyStates, Offering
    <3>8. net'[p] = net[p]
      BY <2>1, ResponseDoes DEF Reads
    <3> QED BY <2>1, <3>2, <3>7, <3>8, ResponseDoes
  <2>2. CASE srpl_send_candidates_response_send_action(e) /\ e = "cl"
    <3> DEFINE m == Response(IF c.answered THEN "unmatched_response" ELSE "send_candidates_response",
                             "noerror")
    <3>1. m \in MessageType /\ m.type # "host"
      <4>1. m \in MessageType
        BY ResponseType DEF Answers, Rcodes
      <4> QED BY <4>1 DEF Response
    <3>2. link
      BY <2>2, ThroughDoes, LinkUp DEF Down
    <3>3. Together(e, c, conn[p], net[e], net[p])
      BY <1>0, <3>2 DEF View
    <3>4. Silent(net[p])
      BY <2>2, <3>3, ThroughDoes DEF Together, Asking, Turning, Finishing, Ready, Awaiting, ReadyStates, Offering, Applying
    <3>5. net'[p] = Append(net[p], m)
      BY <2>2, <3>2, ThroughDoes DEF Writes, Sent
    <3> HIDE DEF m
    <3> QED BY <2>2, <3>1, <3>4, <3>5, ThroughDoes DEF Writes
  <2> QED BY <2>1, <2>2
<1>2. c.state \notin ReadyStates \cup Down \cup {"candidate_host_apply_wait"}
  BY <1>1 DEF Awaiting, ReadyStates, Down
<1>3. ~HeadSent(c) /\ ~Expecting(c) /\ ~Expecting(d)
  BY <1>0, <1>1, <1>2 DEF EndOK, QueueOK, Expecting, Resting, ReadyStates, ToReady, To, ConnectionType
<1>4. QueueOK(e, d) /\ d.state \in {"ready", "srp_client_update_send"}
  BY <1>0, <1>1, <1>3, ToReadyQueue DEF EndOK, QueueOK, SameData
<1>5. EndOK(e, d, host[e], fin[e], async[e])
  <2>1. StashOK(e, d, fin[e])
    BY <1>1, <1>4 DEF StashOK, Handling
  <2>2. EventOK(d, host[e], fin[e], async[e])
    BY <1>0, <1>1, <1>3 DEF EndOK, EventOK
  <2> QED BY <1>0, <1>4, <2>1, <2>2 DEF EndOK
<1>6. Homed(p, conn[p].state, net'[e])
  BY <1>0, <1>1, HomedTail DEF Reads
<1>7. Homed(e, d.state, net'[p])
  BY <1>0, <1>1, HomedSilent, HomedAppend
<1> QED BY <1>1, <1>2, <1>5, <1>6, <1>7, EndSteps DEF Acts

\* What is known of an end in the ready phase and of its peer.
LEMMA ReadyBefore ==
    ASSUME IInv, Conversation, Settling, Up, NEW e \in E, conn[e].state \in ReadyStates
    PROVE  LET c == conn[e]  p == Peer(e)
           IN  /\ EndOK(e, c, host[e], fin[e], async[e]) /\ c \in ConnectionType
               /\ HeadOnly(c.queue) /\ link
               /\ Homed(p, conn[p].state, net[e]) /\ Homed(e, c.state, net[p])
               /\ p \in E /\ Peer(p) = e /\ net[e] \in Stream /\ net[p] \in Stream
               /\ SlotOK(e, c) /\ Together(e, c, conn[p], net[e], net[p])
<1>1. link
  BY LinkUp DEF ReadyStates, Down
<1> QED BY <1>1, PeerFacts, ConnFacts, Before DEF Settling, IInv, Up, View, ConnOK, Good, Fit

\* A step of the ready phase.
LEMMA ReadySettles ==
    ASSUME IInv, Conversation, Settling, Up, NEW e \in E, conn[e].state \in ReadyStates,
           Acts(e), conn'[e].state \in ReadyStates,
           QueueOK(e, conn'[e]), StashOK(e, conn'[e], fin[e]),
           EventOK(conn'[e], host[e], fin[e], async[e]),
           net'[e] = net[e] \/ Reads(e),
           \/ net'[Peer(e)] = net[Peer(e)]
           \/ \E m \in MessageType : /\ m.type = "host" => e \in Home[m.host]
                                     /\ net'[Peer(e)] = Append(net[Peer(e)], m)
    PROVE  Settling'
<1> DEFINE p == Peer(e)
<1>1. /\ EndOK(e, conn[e], host[e], fin[e], async[e])
      /\ Homed(p, conn[p].state, net[e]) /\ Homed(e, conn[e].state, net[p])
      /\ net[e] \in Stream /\ net[p] \in Stream
  BY ReadyBefore
<1>2. EndOK(e, conn'[e], host[e], fin[e], async[e])
  BY <1>1 DEF EndOK
<1>3. Homed(p, conn[p].state, net'[e])
  BY <1>1, HomedTail DEF Reads
<1>4. Homed(e, conn'[e].state, net[p])
  BY <1>1 DEF Homed
<1>5. Homed(e, conn'[e].state, net'[p])
  BY <1>1, <1>4, HomedAppend
<1> QED BY <1>2, <1>3, <1>5, EndSteps DEF Acts, ReadyStates, Down

\* The peer's host messages arrive when the peer is ready too and nothing is being applied.
LEMMA HostInReady ==
    ASSUME IInv, Conversation, Settling, Up, NEW e \in E, conn[e].state = "ready",
           net[e] # <<>>, Head(net[e]).type = "host"
    PROVE  conn[e].answered /\ conn[Peer(e)].state \in ReadyStates
<1> DEFINE c == conn[e]
           p == Peer(e)
<1>1. net[e] \in Stream /\ Together(e, c, conn[p], net[e], net[p])
  BY ReadyBefore DEF ReadyStates
<1>2. Kind(Head(net[e])) = "host"
  BY DEF Kind
<1>3. ~Silent(net[e]) /\ Has(net[e], "host")
  BY <1>1, <1>2, TailCore DEF Noise
<1> QED BY <1>1, <1>3 DEF Together, Asking, Turning, Finishing, Ready, Flow, Awaiting, ReadyStates,
           Offering, Applying

LEMMA HostArrives ==
    ASSUME Undisturbed, IInv, Conversation, Settling, Up, NEW e \in E, ReadyHostReceived(e)
    PROVE  Settling'
<1> DEFINE c == conn[e]
           d == conn'[e]
           p == Peer(e)
           k == Stash(Head(net[e]))
           b == [To(c, "stashed_host_check") EXCEPT !.stash = k, !.answered = FALSE]
<1>1. /\ c.state = "ready" /\ net[e] # <<>> /\ Head(net[e]).type = "host" /\ AllQuiet
      /\ UNCHANGED <<host, async, fin, link, clock, used>>
  BY DEF ReadyHostReceived, Receives
<1>2. /\ EndOK(e, c, host[e], fin[e], async[e]) /\ c \in ConnectionType /\ link
      /\ Homed(p, conn[p].state, net[e]) /\ p \in E /\ Peer(p) = e /\ net[e] \in Stream
  BY <1>1, ReadyBefore DEF ReadyStates
<1>3. CASE c.stash # NoStash
  <2>1. conn' = [conn EXCEPT ![e] = To(c, "disconnect")]
    BY <1>3 DEF ReadyHostReceived, DropState
  <2>2. To(c, "disconnect").state = "disconnect"
    BY <1>2, ToData, StateNames
  <2>3. d.state = "disconnect"
    BY <2>1, <2>2, ConnStep
  <2> QED BY <1>1, <1>2, <2>3, ClosedSettles DEF Up, Closing
<1>4. CASE c.stash = NoStash
  <2>1. conn' = [conn EXCEPT ![e] = b] /\ Consume(e)
    BY <1>4 DEF ReadyHostReceived
  <2>2. d = b /\ Acts(e) /\ Reads(e)
    BY <1>1, <2>1, ConnStep, WireFacts DEF Acts
  <2>3. k.name = Head(net[e]).host
    BY DEF Stash
  <2> HIDE DEF k
  <2>4. /\ b.state = "stashed_host_check" /\ b.stash = k /\ ~b.answered /\ b.queue = c.queue
        /\ b.outstanding = c.outstanding
    BY <1>2 DEF To, ConnectionType
  <2> HIDE DEF b
  <2>5. c.answered /\ conn[p].state \in ReadyStates
    BY <1>1, HostInReady
  <2>6. k.name \in Hosts /\ e \notin Home[k.name]
    <3>1. Head(net[e]) = net[e][1] /\ 1 \in DOMAIN net[e] /\ Head(net[e]) \in MessageType
      BY <1>1, <1>2, TailIs
    <3>2. p \in Home[k.name]
      BY <1>1, <1>2, <2>3, <2>5, <3>1 DEF Homed
    <3>3. k.name \in Hosts
      BY <1>1, <2>3, <3>1 DEF MessageType
    <3> QED BY <1>2, <3>2, <3>3, HomeFacts
  <2>7. fin[e] = NoFin
    BY <1>1 DEF AllQuiet, Quiet
  <2>8. QueueOK(e, d)
    BY <1>1, <1>2, <2>2, <2>4 DEF EndOK, QueueOK, HeadSent, ReadyStates
  <2>9. StashOK(e, d, fin[e])
    BY <2>2, <2>4, <2>6, <2>7 DEF StashOK
  <2>10. EventOK(d, host[e], fin[e], async[e])
    <3>1. ~Expecting(c) /\ ~Expecting(d) /\ d.state \notin Resting
      BY <1>1, <2>2, <2>4, <2>5 DEF Expecting, Resting
    <3> QED BY <1>2, <3>1 DEF EndOK, EventOK
  <2>11. net'[p] = net[p]
    BY <2>2 DEF Reads
  <2> QED BY <1>1, <2>2, <2>4, <2>8, <2>9, <2>10, <2>11, ReadySettles DEF ReadyStates
<1> QED BY <1>3, <1>4

\* A host of a client of the peer that is looked at is not in contention.
LEMMA NotInContention ==
    ASSUME IInv, NEW e \in E, NEW f, NEW c, NEW H, NEW a, EndOK(e, c, H, f, a),
           c.state \in Handling, NEW h \in Hosts, e \notin Home[h]
    PROVE  H[h].update = NoUpdate /\ H[h].clients = <<>> /\ H[h].srpl = "none" /\ f.host # h
<1>1. f.host # h
  BY NoHostFacts DEF EndOK, StashOK
<1>2. ~Expecting(c)
  BY DEF Expecting, Handling, Resting
<1>3. ~Started(h, H[h], f)
  BY <1>2 DEF EndOK, EventOK, Idle, Untouching
<1>4. RecordOK(e, h, H[h], f)
  BY DEF EndOK
<1>5. H[h].update = NoUpdate
  BY <1>1, <1>3, <1>4 DEF Started, RecordOK
<1> QED BY <1>1, <1>4, <1>5 DEF RecordOK

LEMMA HostChecked ==
    ASSUME Undisturbed, IInv, Conversation, Settling, Up, NEW e \in E,
           srpl_stashed_host_check_action(e)
    PROVE  Settling'
<1> DEFINE c == conn[e]
           d == conn'[e]
           h == c.stash.name
           b == To(c, "stashed_host_apply")
<1>1. c.state = "stashed_host_check" /\ UNCHANGED <<host, async, fin, net, link, clock, used>>
  BY DEF srpl_stashed_host_check_action
<1>2. EndOK(e, c, host[e], fin[e], async[e]) /\ c \in ConnectionType
  BY <1>1, ReadyBefore DEF ReadyStates
<1>3. h \in Hosts /\ e \notin Home[h] /\ ~c.answered
  BY <1>1, <1>2 DEF EndOK, StashOK, ReadyStates
<1>4. host[e][h].update = NoUpdate /\ host[e][h].clients = <<>> /\ host[e][h].srpl = "none"
  BY <1>1, <1>2, <1>3, NotInContention DEF Handling
<1>5. conn' = [conn EXCEPT ![e] = b]
  BY <1>4 DEF srpl_stashed_host_check_action, Updating
<1>6. d = b /\ Acts(e)
  BY <1>1, <1>5, ConnStep DEF Acts
<1>7. b.state = "stashed_host_apply" /\ SameData(b, c) /\ SameFlags(b, c)
  BY <1>2, ToData, StateNames
<1> HIDE DEF b
<1>8. QueueOK(e, d)
  BY <1>1, <1>2, <1>6, <1>7 DEF EndOK, QueueOK, HeadSent, ReadyStates, SameData, SameFlags
<1>9. StashOK(e, d, fin[e])
  BY <1>1, <1>2, <1>3, <1>6, <1>7 DEF EndOK, StashOK, ReadyStates, SameData, SameFlags, Handling
<1>10. EventOK(d, host[e], fin[e], async[e])
  <2>1. ~Expecting(c) /\ ~Expecting(d) /\ d.state \notin Resting
    BY <1>1, <1>6, <1>7 DEF Expecting, Resting
  <2> QED BY <1>2, <2>1 DEF EndOK, EventOK
<1> QED BY <1>1, <1>6, <1>7, <1>8, <1>9, <1>10, ReadySettles DEF ReadyStates

\* What is left of a queue of which only the head has been sent has not been sent.
LEMMA TailUnsent ==
    ASSUME NEW e, NEW c \in ConnectionType, HeadOnly(c.queue), c.queue # <<>>,
           \A i \in DOMAIN c.queue : e \in Home[c.queue[i].ref.host]
    PROVE  /\ Tail(c.queue) # <<>> => ~Head(Tail(c.queue)).sent
           /\ \A i \in DOMAIN Tail(c.queue) : e \in Home[Tail(c.queue)[i].ref.host]
<1> DEFINE q == c.queue
           S == [ref : Refs, sent : BOOLEAN]
<1>1. q \in Seq(S) /\ q # <<>>
  BY DEF ConnectionType
<1>2. /\ Len(q) \in Nat /\ DOMAIN q = 1 .. Len(q) /\ DOMAIN Tail(q) = 1 .. (Len(q) - 1)
      /\ \A i \in 1 .. (Len(q) - 1) : Tail(q)[i] = q[i + 1]
      /\ Tail(q) # <<>> => Head(Tail(q)) = q[2] /\ 2 \in DOMAIN q
  BY <1>1
<1> HIDE DEF q
<1>3. \A i \in DOMAIN Tail(q) : i + 1 \in DOMAIN q /\ Tail(q)[i] = q[i + 1]
  BY <1>2
<1>4. Tail(q) # <<>> => ~q[2].sent
  BY <1>2 DEF HeadOnly, q
<1> QED BY <1>2, <1>3, <1>4 DEF q

LEMMA HostFinished ==
    ASSUME Undisturbed, IInv, Conversation, Settling, Up, NEW e \in E,
           srpl_stashed_host_finished_action(e)
    PROVE  Settling'
<1> DEFINE c == conn[e]
           d == conn'[e]
           p == Peer(e)
           g == [c EXCEPT !.stash = NoStash]
           b == ToReady(g)
           m == Response(IF b.answered THEN "unmatched_response" ELSE "host_response", c.stash.rcode)
<1>1. /\ c.state = "stashed_host_finished" /\ UNCHANGED <<host, async, fin, link, clock, used>>
      /\ SendResponse(e, "host_response", c.stash.rcode, b)
  BY DEF srpl_stashed_host_finished_action
<1>2. EndOK(e, c, host[e], fin[e], async[e]) /\ c \in ConnectionType /\ link
  BY <1>1, ReadyBefore DEF ReadyStates
<1>3. NoStash \in [name : Names, msg : Msgs, time : Int, rcode : Rcodes]
  BY MsgsFacts DEF NoStash, Names, Rcodes
<1>4. g \in ConnectionType /\ g.queue = c.queue /\ g.outstanding = c.outstanding
  BY <1>2, <1>3 DEF ConnectionType
<1> HIDE DEF g
<1>5. b \in ConnectionType /\ b.queue = c.queue /\ b.outstanding = c.outstanding
  BY <1>4 DEF ToReady, To, ConnectionType, Transient, Waiting
<1>6. b.state = ToReady(g).state
  OBVIOUS
<1> HIDE DEF b
<1>7. /\ Acts(e) /\ d.queue = c.queue /\ d.outstanding = c.outstanding /\ d.answered
      /\ d.state = ToReady(g).state /\ Writes(e, m)
  <2>1. /\ conn' = [conn EXCEPT ![e] = conn'[e]] /\ SameData(conn'[e], b)
        /\ conn'[e].state = b.state
        /\ conn'[e].answered /\ conn'[e].outstanding = b.outstanding
        /\ Writes(e, m)
    BY <1>1, <1>5, Responses
  <2> HIDE DEF m
  <2> QED BY <1>1, <1>5, <1>6, <2>1 DEF Acts, SameData
<1>8. HeadSent(g) => d.outstanding
  BY <1>1, <1>2, <1>4, <1>7 DEF EndOK, QueueOK, HeadSent
<1>9. QueueOK(e, d) /\ d.state \in {"ready", "srp_client_update_send"}
  <2>1. d.queue = g.queue /\ \A i \in DOMAIN g.queue : e \in Home[g.queue[i].ref.host]
    BY <1>2, <1>4, <1>7 DEF EndOK, QueueOK
  <2> QED BY <1>4, <1>7, <1>8, <2>1, ToReadyQueue
<1>10. StashOK(e, d, fin[e])
  BY <1>7, <1>9 DEF StashOK, Handling
<1>11. EventOK(d, host[e], fin[e], async[e])
  <2>1. ~Expecting(c) /\ ~Expecting(d)
    BY <1>1, <1>7, <1>9 DEF Expecting, Resting
  <2> QED BY <1>2, <1>7, <2>1 DEF EndOK, EventOK
<1>12. m \in MessageType /\ m.type # "host"
  <2>1. c.stash.rcode \in Rcodes
    BY <1>2 DEF ConnectionType
  <2>2. m \in MessageType
    BY <2>1, ResponseType DEF Answers
  <2> QED BY <2>2 DEF Response
<1> HIDE DEF m
<1>13. net'[p] = Append(net[p], m) /\ net'[e] = net[e]
  BY <1>2, <1>7 DEF Writes, Sent
<1> QED BY <1>1, <1>7, <1>9, <1>10, <1>11, <1>12, <1>13, ReadySettles DEF ReadyStates

\* The connection stays one that rests, with the host stashed that was.
LEMMA RestingEvents ==
    ASSUME NEW c, NEW d, NEW H, NEW f, NEW a, EventOK(c, H, f, a),
           c.state \in Resting, d.state \in Resting, d.answered = c.answered, d.stash = c.stash
    PROVE  EventOK(d, H, f, a)
<1>1. Expecting(d) <=> Expecting(c)
  BY DEF Expecting, Resting
<1> QED BY <1>1 DEF EventOK

LEMMA RestingStash ==
    ASSUME NEW e, NEW c, NEW d, NEW f, StashOK(e, c, f),
           c.state \in Resting, d.state \in Resting, d.answered = c.answered, d.stash = c.stash
    PROVE  StashOK(e, d, f)
  BY DEF StashOK, Resting, ReadyStates, Handling

LEMMA ResponseArrives ==
    ASSUME Undisturbed, IInv, Conversation, Settling, Up, NEW e \in E, ReadyHostResponse(e)
    PROVE  Settling'
<1> DEFINE c == conn[e]
           d == conn'[e]
           b == [To(c, "srp_client_ack_evaluate") EXCEPT !.outstanding = FALSE]
<1>1. /\ c.state = "ready" /\ net[e] # <<>> /\ Consume(e)
      /\ UNCHANGED <<host, async, fin, link, clock, used>>
  BY DEF ReadyHostResponse, Receives
<1>2. EndOK(e, c, host[e], fin[e], async[e]) /\ c \in ConnectionType
  BY <1>1, ReadyBefore DEF ReadyStates
<1>3. d = b /\ Acts(e) /\ Reads(e)
  BY <1>1, ConnStep, WireFacts DEF ReadyHostResponse, Acts
<1>4. /\ b.state = "srp_client_ack_evaluate" /\ b.queue = c.queue /\ b.stash = c.stash
      /\ b.answered = c.answered
  BY <1>2 DEF To, ConnectionType
<1> HIDE DEF b
<1>5. QueueOK(e, d)
  BY <1>2, <1>3, <1>4 DEF EndOK, QueueOK, HeadSent, ReadyStates
<1>6. c.state \in Resting /\ d.state \in Resting
  BY <1>1, <1>3, <1>4 DEF Resting
<1>7. StashOK(e, d, fin[e])
  BY <1>2, <1>3, <1>4, <1>6, RestingStash DEF EndOK
<1>8. EventOK(d, host[e], fin[e], async[e])
  BY <1>2, <1>3, <1>4, <1>6, RestingEvents DEF EndOK
<1>9. net'[Peer(e)] = net[Peer(e)]
  BY <1>3 DEF Reads
<1> QED BY <1>1, <1>3, <1>4, <1>5, <1>7, <1>8, <1>9, ReadySettles DEF ReadyStates

\* The head of the queue is taken off.
LEMMA Popped ==
    ASSUME Undisturbed, IInv, Conversation, Settling, Up, NEW e \in E, Acts(e), UNCHANGED net,
           conn[e].state \in {"srp_client_ack_evaluate", "srp_client_update_send"},
           conn[e].queue # <<>>,
           conn'[e] = ToReady([conn[e] EXCEPT !.queue = Tail(@)])
    PROVE  Settling'
<1> DEFINE c == conn[e]
           d == conn'[e]
           g == [c EXCEPT !.queue = Tail(@)]
           b == ToReady(g)
<1>2. EndOK(e, c, host[e], fin[e], async[e]) /\ c \in ConnectionType /\ HeadOnly(c.queue)
  BY ReadyBefore DEF ReadyStates
<1>3. /\ Tail(c.queue) # <<>> => ~Head(Tail(c.queue)).sent
      /\ \A i \in DOMAIN Tail(c.queue) : e \in Home[Tail(c.queue)[i].ref.host]
  BY <1>2, TailUnsent DEF EndOK, QueueOK
<1>4. g \in ConnectionType /\ g.queue = Tail(c.queue) /\ g.answered = c.answered /\ g.stash = c.stash
  <2>1. g \in ConnectionType
    BY <1>2, QueueFit DEF Fit
  <2> QED BY <1>2, <2>1 DEF ConnectionType
<1> HIDE DEF g
<1>5. b.queue = g.queue /\ b.answered = c.answered /\ b.stash = c.stash
  BY <1>4 DEF ToReady, To, ConnectionType
<1>6. d.queue = g.queue /\ d.state = ToReady(g).state
  BY <1>5 DEF g
<1>7. QueueOK(e, d) /\ d.state \in {"ready", "srp_client_update_send"}
  BY <1>3, <1>4, <1>6, ToReadyQueue DEF HeadSent
<1>8. c.state \in Resting /\ d.state \in Resting /\ d.answered = c.answered /\ d.stash = c.stash
  BY <1>5, <1>7 DEF Resting, g
<1>9. StashOK(e, d, fin[e])
  BY <1>2, <1>8, RestingStash DEF EndOK
<1>10. EventOK(d, host[e], fin[e], async[e])
  BY <1>2, <1>8, RestingEvents DEF EndOK
<1> HIDE DEF b
<1> QED BY <1>7, <1>9, <1>10, ReadySettles DEF ReadyStates

LEMMA Acknowledged ==
    ASSUME Undisturbed, IInv, Conversation, Settling, Up, NEW e \in E,
           srpl_srp_client_ack_evaluate_action(e)
    PROVE  Settling'
<1>1. /\ conn[e].state = "srp_client_ack_evaluate" /\ conn[e].queue # <<>>
      /\ UNCHANGED <<host, async, fin, net, link, clock, used>>
      /\ conn' = [conn EXCEPT ![e] = ToReady([conn[e] EXCEPT !.queue = Tail(@)])]
  BY DEF srpl_srp_client_ack_evaluate_action
<1>2. conn'[e] = ToReady([conn[e] EXCEPT !.queue = Tail(@)]) /\ Acts(e)
  BY <1>1, ConnStep DEF Acts
<1> QED BY <1>1, <1>2, Popped

LEMMA UpdateSent ==
    ASSUME Undisturbed, IInv, Conversation, Settling, Up, NEW e \in E,
           srpl_srp_client_update_send_action(e)
    PROVE  Settling'
<1> DEFINE c == conn[e]
           d == conn'[e]
           p == Peer(e)
           k == Head(c.queue).ref
           q == <<[ref |-> k, sent |-> TRUE]>> \o Tail(c.queue)
           g == [c EXCEPT !.queue = q]
           b == To(g, "ready")
           m == HostMessage(e, k.host)
<1>1. c.state = "srp_client_update_send" /\ UNCHANGED <<host, async, fin, link, clock, used>>
  BY DEF srpl_srp_client_update_send_action
<1>2. EndOK(e, c, host[e], fin[e], async[e]) /\ c \in ConnectionType /\ HeadOnly(c.queue) /\ link
  BY <1>1, ReadyBefore DEF ReadyStates
<1>3. c.queue # <<>>
  BY <1>1, Before DEF AttachedTo
<1>4. CASE ~CanSendHost(e, k)
  <2>1. /\ conn' = [conn EXCEPT ![e] = ToReady([conn[e] EXCEPT !.queue = Tail(@)])]
        /\ UNCHANGED net
    BY <1>4 DEF srpl_srp_client_update_send_action
  <2>2. conn'[e] = ToReady([conn[e] EXCEPT !.queue = Tail(@)]) /\ Acts(e)
    BY <1>1, <2>1, ConnStep DEF Acts
  <2> QED BY <1>1, <1>3, <2>1, <2>2, Popped
<1>5. CASE CanSendHost(e, k)
  <2>1. SendRequest(e, m, b)
    BY <1>5 DEF srpl_srp_client_update_send_action
  <2>2. k \in Refs /\ k.host \in Hosts /\ e \in Home[k.host] /\ c.queue \in Seq([ref : Refs, sent : BOOLEAN])
    <3>1. c.queue \in Seq([ref : Refs, sent : BOOLEAN])
      BY <1>2 DEF ConnectionType
    <3>2. Head(c.queue) = c.queue[1] /\ 1 \in DOMAIN c.queue /\ Head(c.queue) \in [ref : Refs, sent : BOOLEAN]
      <4> DEFINE S == [ref : Refs, sent : BOOLEAN]
      <4>1. c.queue \in Seq(S)
        BY <3>1
      <4> HIDE DEF S
      <4>2. Head(c.queue) = c.queue[1] /\ 1 \in DOMAIN c.queue /\ Head(c.queue) \in S
        BY <1>3, <4>1
      <4> QED BY <4>2 DEF S
    <3>3. e \in Home[k.host]
      BY <1>2, <3>2 DEF EndOK, QueueOK
    <3> QED BY <3>1, <3>2, <3>3 DEF Refs
  <2>3. q \in Seq([ref : Refs, sent : BOOLEAN]) /\ q # <<>> /\ Head(q).sent
        /\ \A i \in DOMAIN q : e \in Home[q[i].ref.host]
    <3> DEFINE S == [ref : Refs, sent : BOOLEAN]
               x == [ref |-> k, sent |-> TRUE]
               z == Tail(c.queue)
    <3>1. x \in S /\ z \in Seq(S) /\ x.sent /\ x.ref = k
      BY <1>3, <2>2
    <3>2. \A i \in DOMAIN z : e \in Home[z[i].ref.host]
      BY <1>2, <1>3, TailUnsent DEF EndOK, QueueOK
    <3> HIDE DEF x, z, S
    <3>3. <<x>> \o z \in Seq(S) /\ <<x>> \o z # <<>> /\ Head(<<x>> \o z) = x
          /\ \A i \in DOMAIN (<<x>> \o z) : (<<x>> \o z)[i] = x \/ (i - 1 \in DOMAIN z /\ (<<x>> \o z)[i] = z[i - 1])
      BY <3>1
    <3>4. q = <<x>> \o z
      BY DEF x, z
    <3> QED BY <2>2, <3>1, <3>2, <3>3, <3>4 DEF S
  <2> HIDE DEF q
  <2>4. g \in ConnectionType /\ g.queue = q /\ g.answered = c.answered /\ g.stash = c.stash
    BY <1>2, <2>3 DEF ConnectionType
  <2> HIDE DEF g
  <2>5. b \in ConnectionType /\ b.state = "ready" /\ SameData(b, g) /\ SameFlags(b, g)
    BY <2>4, ToData, StateNames
  <2> HIDE DEF b
  <2>6. /\ Acts(e) /\ d.state = "ready" /\ d.queue = q /\ d.answered = c.answered
        /\ d.stash = c.stash /\ d.outstanding /\ Writes(e, m)
    <3>1. /\ conn' = [conn EXCEPT ![e] = conn'[e]] /\ SameData(conn'[e], b)
          /\ conn'[e].state = b.state
          /\ conn'[e].outstanding /\ conn'[e].answered = b.answered
          /\ Writes(e, m)
      BY <2>1, <2>5, Requests
    <3> HIDE DEF m
    <3> QED BY <1>1, <2>4, <2>5, <3>1 DEF Acts, SameData, SameFlags
  <2>7. QueueOK(e, d)
    BY <2>3, <2>6 DEF QueueOK, HeadSent, ReadyStates
  <2>8. c.state \in Resting /\ d.state \in Resting
    BY <1>1, <2>6 DEF Resting
  <2>9. StashOK(e, d, fin[e])
    BY <1>2, <2>6, <2>8, RestingStash DEF EndOK
  <2>10. EventOK(d, host[e], fin[e], async[e])
    BY <1>2, <2>6, <2>8, RestingEvents DEF EndOK
  <2>11. m \in MessageType /\ e \in Home[m.host]
    <3>1. m \in MessageType
      BY <2>2, HostMessageType DEF IInv
    <3> QED BY <2>2, <3>1 DEF HostMessage, Request
  <2> HIDE DEF m
  <2>12. net'[p] = Append(net[p], m) /\ net'[e] = net[e]
    BY <1>2, <2>6 DEF Writes, Sent
  <2> QED BY <1>1, <2>6, <2>7, <2>9, <2>10, <2>11, <2>12, ReadySettles DEF ReadyStates
<1> QED BY <1>4, <1>5

LEMMA NothingHeard ==
    ASSUME IInv, Conversation, Settling, Up, NEW e \in E, UnmatchedResponse(e)
    PROVE  Settling'
<1> DEFINE c == conn[e]
           p == Peer(e)
<1>1. /\ net[e] # <<>> /\ Consume(e) /\ UNCHANGED <<conn, host, async, fin, link>>
  BY DEF UnmatchedResponse, Receives
<1>2. Reads(e)
  BY <1>1, WireFacts
<1>3. /\ EndOK(e, c, host[e], fin[e], async[e]) /\ Homed(e, c.state, net[p])
      /\ Homed(p, conn[p].state, net[e]) /\ net[e] \in Stream
  BY PeerFacts, Before DEF Settling
<1>4. Homed(p, conn[p].state, net'[e]) /\ Homed(e, c.state, net'[p])
  BY <1>2, <1>3, HomedTail DEF Reads
<1>5. conn' = [conn EXCEPT ![e] = c]
  BY <1>1 DEF IInv, ConnOK
<1> QED BY <1>1, <1>3, <1>4, <1>5, EndSteps

-----------------------------------------------------------------------------
(* The updates and the callbacks of an end.                                *)

LEMMA ForeignAppend ==
    ASSUME NEW q \in Seq(Update), NEW u \in Update
    PROVE  /\ u.src = "client" => Foreign(Append(q, u)) = Foreign(q)
           /\ Foreign(q) = {} => \A i, j \in Foreign(Append(q, u)) : i = j
<1>1. /\ Len(q) \in Nat /\ DOMAIN q = 1 .. Len(q) /\ DOMAIN Append(q, u) = 1 .. (Len(q) + 1)
      /\ \A i \in 1 .. Len(q) : Append(q, u)[i] = q[i]
      /\ Append(q, u)[Len(q) + 1] = u
  OBVIOUS
<1> QED BY <1>1 DEF Foreign

LEMMA ForeignTail ==
    ASSUME NEW q \in Seq(Update), q # <<>>
    PROVE  /\ Foreign(q) = {} => Head(q).src = "client" /\ Foreign(Tail(q)) = {}
           /\ (\A i, j \in Foreign(q) : i = j) =>
                /\ \A i, j \in Foreign(Tail(q)) : i = j
                /\ Head(q).src # "client" => Foreign(Tail(q)) = {}
<1>1. /\ Len(q) \in Nat /\ DOMAIN q = 1 .. Len(q) /\ DOMAIN Tail(q) = 1 .. (Len(q) - 1)
      /\ \A i \in 1 .. (Len(q) - 1) : Tail(q)[i] = q[i + 1]
      /\ Head(q) = q[1] /\ 1 \in DOMAIN q
  OBVIOUS
<1>2. \A i \in DOMAIN Tail(q) : i \in Int /\ i + 1 \in DOMAIN q /\ Tail(q)[i] = q[i + 1] /\ i + 1 # 1
  BY <1>1
<1>3. \A i \in Foreign(Tail(q)) : i \in Int /\ i + 1 \in Foreign(q) /\ i + 1 # 1
  BY <1>2 DEF Foreign
<1>4. Head(q).src # "client" => 1 \in Foreign(q)
  BY <1>1 DEF Foreign
<1>5. ASSUME \A i, j \in Foreign(q) : i = j
      PROVE  /\ \A i, j \in Foreign(Tail(q)) : i = j
             /\ Head(q).src # "client" => Foreign(Tail(q)) = {}
  BY <1>3, <1>4, <1>5
<1> QED BY <1>3, <1>4, <1>5

LEMMA EmptyForeign == Foreign(<<>>) = {}
  BY DEF Foreign

\* A host whose list of updates is taken care of by update_start or next_update.
Sane(r) == r.st # "valid" => r.update = NoUpdate /\ r.clients = <<>> /\ r.srpl = "none"

LEMMA StartDoes ==
    ASSUME NEW r \in HostType, Sane(r), NEW u \in Update
    PROVE  LET v == srp_update_start(r, u)
           IN  /\ v.st = "valid"
               /\ v.srpl = IF u.src = "client" THEN r.srpl ELSE u.src
               /\ r.update # NoUpdate => v.update = r.update /\ v.clients = Append(r.clients, u)
               /\ r.update = NoUpdate /\ r.clients = <<>> => v.update = u /\ v.clients = <<>>
               /\ r.update = NoUpdate /\ r.clients # <<>>
                    => v.update = Head(r.clients) /\ v.clients = Append(Tail(r.clients), u)
<1> DEFINE base == IF r.st = "valid" THEN r ELSE NewHost(r, KeyOf[u.msg])
           next == [base EXCEPT !.clients = Append(@, u),
                                !.srpl = IF u.src = "client" THEN @ ELSE u.src]
           v == srp_update_start(r, u)
<1>1. r.clients \in Seq(Update) /\ r.update \in Update
  BY DEF HostType
<1>2. KeyOf[u.msg] \in Nat
  BY BoundsAssumption DEF Update, Msgs
<1>3. base \in HostType /\ base.st = "valid" /\ base.clients = r.clients /\ base.update = r.update
      /\ base.srpl = r.srpl
  <2>1. CASE r.st = "valid"
    BY <2>1
  <2>2. CASE r.st # "valid"
    <3>1. /\ NewHost(r, KeyOf[u.msg]) \in HostType /\ NewHost(r, KeyOf[u.msg]).st = "valid"
          /\ NewHost(r, KeyOf[u.msg]).clients = <<>> /\ NewHost(r, KeyOf[u.msg]).update = NoUpdate
          /\ NewHost(r, KeyOf[u.msg]).srpl = "none"
      BY <1>2, NewHostType DEF NewHost, Gone, AbsentHost
    <3> QED BY <2>2, <3>1 DEF Sane
  <2> QED BY <2>1, <2>2
<1> HIDE DEF base
<1>4. /\ next.st = "valid" /\ next.update = r.update /\ next.clients = Append(r.clients, u)
      /\ next.srpl = IF u.src = "client" THEN r.srpl ELSE u.src
  BY <1>3 DEF HostType
<1>5. v = IF next.update = NoUpdate THEN prepare_update(next) ELSE next
  BY DEF srp_update_start, base
<1>6. /\ prepare_update(next).update = Head(next.clients)
      /\ prepare_update(next).clients = Tail(next.clients)
      /\ prepare_update(next).st = next.st /\ prepare_update(next).srpl = next.srpl
  BY <1>3 DEF prepare_update, HostType
<1>7. /\ r.clients = <<>> => Head(Append(r.clients, u)) = u /\ Tail(Append(r.clients, u)) = <<>>
      /\ r.clients # <<>> => /\ Head(Append(r.clients, u)) = Head(r.clients)
                             /\ Tail(Append(r.clients, u)) = Append(Tail(r.clients), u)
  <2> HIDE DEF next, v
  <2> QED BY <1>1
<1> HIDE DEF next, v
<1> QED BY <1>4, <1>5, <1>6, <1>7 DEF v

\* What is in progress is kept as it is.
InProgressKept(h, r, f, v, g) ==
    /\ Untouching(h, r, f) => Untouching(h, v, g)
    /\ AtMostOneIn(h, r, f) => AtMostOneIn(h, v, g)

LEMMA PrepareKeeps ==
    ASSUME NEW h, NEW r \in HostType, NEW f, f.host # h, r.update = NoUpdate, r.clients # <<>>
    PROVE  InProgressKept(h, r, f, prepare_update(r), f)
<1> DEFINE v == prepare_update(r)
<1>1. r.clients \in Seq(Update) /\ r.update.src = "client"
  BY DEF HostType, NoUpdate
<1>2. v.update = Head(r.clients) /\ v.clients = Tail(r.clients)
  BY DEF prepare_update, HostType
<1> HIDE DEF v
<1> QED BY <1>1, <1>2, ForeignTail DEF InProgressKept, Untouching, AtMostOneIn, Started, Queued, v

\* An update of a client of our own is started.
LEMMA ClientStartKeeps ==
    ASSUME NEW h, NEW r \in HostType, Sane(r), NEW f, f.host # h, NEW u \in Update, u.src = "client"
    PROVE  InProgressKept(h, r, f, srp_update_start(r, u), f)
<1> DEFINE v == srp_update_start(r, u)
<1>1. r.clients \in Seq(Update)
  BY DEF HostType
<1>2. /\ r.update # NoUpdate => v.update = r.update /\ v.clients = Append(r.clients, u)
      /\ r.update = NoUpdate /\ r.clients = <<>> => v.update = u /\ v.clients = <<>>
      /\ r.update = NoUpdate /\ r.clients # <<>>
           => v.update = Head(r.clients) /\ v.clients = Append(Tail(r.clients), u)
  BY StartDoes
<1> HIDE DEF v
<1>3. CASE r.update # NoUpdate
  <2>1. Queued(v) = Queued(r) /\ v.update = r.update
    BY <1>1, <1>2, <1>3, ForeignAppend DEF Queued
  <2> QED BY <2>1 DEF InProgressKept, Untouching, AtMostOneIn, Started, v
<1>4. CASE r.update = NoUpdate /\ r.clients = <<>>
  <2>1. Queued(v) = {} /\ v.update.src = "client"
    BY <1>2, <1>4, EmptyForeign DEF Queued
  <2> QED BY <2>1 DEF InProgressKept, Untouching, AtMostOneIn, Started, v
<1>5. CASE r.update = NoUpdate /\ r.clients # <<>>
  <2>0. Tail(r.clients) \in Seq(Update)
    BY <1>1, <1>5
  <2>1. Queued(v) = Foreign(Tail(r.clients)) /\ v.update = Head(r.clients)
    BY <1>2, <1>5, <2>0, ForeignAppend DEF Queued
  <2>2. r.update.src = "client"
    BY <1>5 DEF NoUpdate
  <2> QED BY <1>1, <1>5, <2>1, <2>2, ForeignTail
          DEF InProgressKept, Untouching, AtMostOneIn, Started, Queued, v
<1> QED BY <1>3, <1>4, <1>5

\* A host of the peer is applied.
LEMMA ForeignStart ==
    ASSUME NEW h, NEW r \in HostType, Sane(r), NEW f, NEW u \in Update, Untouching(h, r, f)
    PROVE  AtMostOneIn(h, srp_update_start(r, u), f)
<1> DEFINE v == srp_update_start(r, u)
<1>1. r.clients \in Seq(Update)
  BY DEF HostType
<1>2. /\ r.update # NoUpdate => v.update = r.update /\ v.clients = Append(r.clients, u)
      /\ r.update = NoUpdate /\ r.clients = <<>> => v.update = u /\ v.clients = <<>>
      /\ r.update = NoUpdate /\ r.clients # <<>>
           => v.update = Head(r.clients) /\ v.clients = Append(Tail(r.clients), u)
  BY StartDoes
<1> HIDE DEF v
<1>3. Foreign(r.clients) = {}
  BY DEF Untouching, Queued
<1>4. CASE r.update # NoUpdate
  BY <1>1, <1>2, <1>3, <1>4, ForeignAppend DEF Untouching, AtMostOneIn, Started, Queued, v
<1>5. CASE r.update = NoUpdate /\ r.clients = <<>>
  BY <1>2, <1>5, EmptyForeign DEF AtMostOneIn, Queued, v
<1>6. CASE r.update = NoUpdate /\ r.clients # <<>>
  <2>0. /\ Tail(r.clients) \in Seq(Update) /\ v.clients = Append(Tail(r.clients), u)
        /\ v.update = Head(r.clients)
    BY <1>1, <1>2, <1>6
  <2>1. Foreign(Tail(r.clients)) = {} /\ v.update.src = "client"
    BY <1>1, <1>3, <1>6, <2>0, ForeignTail
  <2>2. \A i, j \in Foreign(v.clients) : i = j
    <3>1. \A i, j \in Foreign(Append(Tail(r.clients), u)) : i = j
      BY <2>0, <2>1, ForeignAppend, Zenon
    <3> QED BY <2>0, <3>1
  <2> QED BY <2>1, <2>2 DEF AtMostOneIn, Started, Queued, v
<1> QED BY <1>4, <1>5, <1>6

\* The events to be delivered are kept as they are.
DeferralsKept(a, b) ==
    /\ Deferrals(b) = {} <=> Deferrals(a) = {}
    /\ \A s : OneDeferral(s, a) => OneDeferral(s, b)

LEMMA DeferralsAppend ==
    ASSUME NEW a \in Seq(CallbackType), NEW x \in CallbackType
    PROVE  /\ x.kind = "next_update" => DeferralsKept(a, Append(a, x))
           /\ x.kind = "advertise_finished" /\ Deferrals(a) = {}
                => Deferrals(Append(a, x)) # {} /\ OneDeferral(x.host, Append(a, x))
<1> DEFINE b == Append(a, x)
<1>1. /\ Len(a) \in Nat /\ DOMAIN a = 1 .. Len(a) /\ DOMAIN b = 1 .. (Len(a) + 1)
      /\ \A i \in 1 .. Len(a) : b[i] = a[i]
      /\ b[Len(a) + 1] = x
  OBVIOUS
<1> HIDE DEF b
<1>2. ASSUME x.kind = "next_update" PROVE DeferralsKept(a, b)
  <2>1. Deferrals(b) = Deferrals(a) /\ \A i \in Deferrals(a) : b[i] = a[i]
    BY <1>1, <1>2 DEF Deferrals
  <2> QED BY <2>1 DEF DeferralsKept, OneDeferral
<1>3. ASSUME x.kind = "advertise_finished", Deferrals(a) = {}
      PROVE  Deferrals(b) # {} /\ OneDeferral(x.host, b)
  <2>1. Deferrals(b) = {Len(a) + 1}
    BY <1>1, <1>3 DEF Deferrals
  <2> QED BY <1>1, <2>1 DEF OneDeferral
<1> QED BY <1>2, <1>3 DEF b

LEMMA DeferralsTail ==
    ASSUME NEW a \in Seq(CallbackType), a # <<>>
    PROVE  /\ Head(a).kind = "next_update" => DeferralsKept(a, Tail(a))
           /\ Head(a).kind = "advertise_finished" =>
                /\ Deferrals(a) # {}
                /\ \A s : OneDeferral(s, a) => Head(a).host = s /\ Deferrals(Tail(a)) = {}
<1> DEFINE b == Tail(a)
<1>1. /\ Len(a) \in Nat /\ DOMAIN a = 1 .. Len(a) /\ DOMAIN b = 1 .. (Len(a) - 1)
      /\ \A i \in 1 .. (Len(a) - 1) : b[i] = a[i + 1]
      /\ Head(a) = a[1] /\ 1 \in DOMAIN a
  OBVIOUS
<1> HIDE DEF b
<1>2. \A i \in Deferrals(b) : i \in Int /\ i + 1 \in Deferrals(a) /\ b[i] = a[i + 1] /\ i + 1 # 1
  BY <1>1 DEF Deferrals
<1>3. ASSUME Head(a).kind = "next_update" PROVE DeferralsKept(a, b)
  <2>1. \A i \in Deferrals(a) : i \in Int /\ i - 1 \in Deferrals(b)
    BY <1>1, <1>3 DEF Deferrals
  <2> QED BY <1>2, <2>1 DEF DeferralsKept, OneDeferral
<1>4. ASSUME Head(a).kind = "advertise_finished"
      PROVE  /\ Deferrals(a) # {}
             /\ \A s : OneDeferral(s, a) => Head(a).host = s /\ Deferrals(b) = {}
  <2>1. 1 \in Deferrals(a)
    BY <1>1, <1>4 DEF Deferrals
  <2> QED BY <1>1, <1>2, <2>1 DEF OneDeferral
<1> QED BY <1>3, <1>4 DEF b

LEMMA DeferralsSame == \A a : DeferralsKept(a, a)
  BY DEF DeferralsKept

\* The connection goes on waiting for what it has been waiting for, or for nothing.
LEMMA EventsKept ==
    ASSUME NEW e, NEW c, NEW d, NEW H, NEW K, NEW f, NEW g, NEW a, NEW b,
           EndOK(e, c, H, f, a), Expecting(d) <=> Expecting(c), d.stash = c.stash,
           d.answered = c.answered, d.state \in Resting => c.state \in Resting,
           \A h \in Hosts : InProgressKept(h, H[h], f, K[h], g),
           \A h \in Hosts : e \notin Home[h] /\ Started(h, H[h], f) => Started(h, K[h], g),
           DeferralsKept(a, b)
    PROVE  EventOK(d, K, g, b)
<1>1. EventOK(c, H, f, a) /\ StashOK(e, c, f)
  BY DEF EndOK
<1>2. ~Expecting(d) => Idle(K, g, b)
  BY <1>1 DEF EventOK, Idle, InProgressKept, DeferralsKept
<1>3. Expecting(d) => AtMostOne(d.stash.name, K, g, b)
  BY <1>1 DEF EventOK, AtMostOne, InProgressKept, DeferralsKept
<1>4. ASSUME d.state \in Resting, ~d.answered
      PROVE  Started(d.stash.name, K[d.stash.name], g) \/ Deferrals(b) # {}
  <2>1. c.stash.name \in Hosts /\ e \notin Home[c.stash.name]
    BY <1>1, <1>4 DEF StashOK, Resting, ReadyStates
  <2> QED BY <1>1, <1>4, <2>1 DEF EventOK, DeferralsKept
<1> QED BY <1>2, <1>3, <1>4 DEF EventOK

-----------------------------------------------------------------------------
(* A host of the peer is applied.                                          *)

LEMMA HostStep ==
    ASSUME IInv, NEW e \in E, NEW h \in Hosts, NEW v, host' = [host EXCEPT ![e][h] = v]
    PROVE  /\ host'[Peer(e)] = host[Peer(e)] /\ host'[e][h] = v
           /\ \A x \in Hosts : x # h => host'[e][x] = host[e][x]
  BY PeerFacts DEF IInv, HostOK

LEMMA AsyncStep ==
    ASSUME IInv, NEW e \in E, NEW b, async' = [async EXCEPT ![e] = b]
    PROVE  async'[Peer(e)] = async[Peer(e)] /\ async'[e] = b
  BY PeerFacts DEF IInv, AsyncOK

LEMMA ApplyBefore ==
    ASSUME IInv, Conversation, Settling, Up, NEW e \in E,
           conn[e].state \in {"candidate_host_apply", "stashed_host_apply"}
    PROVE  LET c == conn[e]  s == c.stash.name  r == host[e][s]
           IN  /\ EndOK(e, c, host[e], fin[e], async[e]) /\ c \in ConnectionType /\ link
               /\ s \in Hosts /\ r \in HostType /\ Sane(r)
               /\ Idle(host[e], fin[e], async[e]) /\ ~Expecting(c)
               /\ StashedUpdate(e) \in Update /\ StashedUpdate(e).src = "this"
               /\ e \notin Home[s] =>
                    r.update = NoUpdate /\ r.clients = <<>> /\ r.srpl = "none" /\ fin[e].host # s
               /\ c.state = "stashed_host_apply" => e \notin Home[s] /\ ~c.answered
<1> DEFINE c == conn[e]
           s == c.stash.name
<1>1. EndOK(e, c, host[e], fin[e], async[e]) /\ c \in ConnectionType
  BY ConnFacts DEF Settling, IInv
<1>2. link
  BY LinkUp DEF Down
<1>3. s \in Hosts
  <2>1. AttachedTo(c)
    BY Before
  <2> QED BY <1>1, <2>1 DEF AttachedTo, NeedsStash, ConnectionType, Names
<1>4. host[e][s] \in HostType
  BY <1>3 DEF IInv, HostOK
<1>5. Sane(host[e][s])
  BY <1>1, <1>3 DEF EndOK, RecordOK, Sane
<1>6. ~Expecting(c)
  BY DEF Expecting, Resting
<1>7. Idle(host[e], fin[e], async[e])
  BY <1>1, <1>6 DEF EndOK, EventOK
<1>8. StashedUpdate(e) \in Update /\ StashedUpdate(e).src = "this"
  BY <1>1 DEF StashedUpdate, Update, ConnectionType, Sources
<1>9. e \notin Home[s] => host[e][s].update = NoUpdate /\ host[e][s].clients = <<>>
                          /\ host[e][s].srpl = "none" /\ fin[e].host # s
  BY <1>1, <1>3, NotInContention DEF Handling
<1>10. c.state = "stashed_host_apply" => e \notin Home[s] /\ ~c.answered
  BY <1>1 DEF EndOK, StashOK, ReadyStates
<1> QED BY <1>1, <1>2, <1>3, <1>4, <1>5, <1>6, <1>7, <1>8, <1>9, <1>10

\* Where an apply action goes when the update was accepted.
Accepted(e, next) ==
    \/ conn[e].state = "candidate_host_apply" /\ next = "candidate_host_apply_wait"
    \/ conn[e].state = "stashed_host_apply" /\ next = AfterStashedApply(e)

LEMMA ApplySettles ==
    ASSUME Undisturbed, IInv, Conversation, Settling, Up, NEW e \in E, NEW next,
           Accepted(e, next), conn' = [conn EXCEPT ![e] = To(@, next)], NEW v,
           host' = [host EXCEPT ![e][conn[e].stash.name] = v],
           NEW b, async' = [async EXCEPT ![e] = b], UNCHANGED <<fin, net, link>>,
           LET s == conn[e].stash.name
           IN  /\ AtMostOneIn(s, v, fin[e]) /\ OneDeferral(s, b)
               /\ Deferrals(b) # {} => Untouching(s, v, fin[e])
               /\ RecordOK(e, s, v, fin[e])
               /\ e \notin Home[s] => Started(s, v, fin[e]) \/ Deferrals(b) # {}
    PROVE  Settling'
<1> DEFINE c == conn[e]
           d == conn'[e]
           s == c.stash.name
           p == Peer(e)
<1>0. c.state \in {"candidate_host_apply", "stashed_host_apply"}
  BY DEF Accepted
<1>1. /\ EndOK(e, c, host[e], fin[e], async[e]) /\ c \in ConnectionType /\ link /\ s \in Hosts
      /\ Idle(host[e], fin[e], async[e])
      /\ c.state = "stashed_host_apply" => e \notin Home[s] /\ ~c.answered
  BY <1>0, ApplyBefore
<1>2. next \in {"candidate_host_apply_wait", "ready", "srp_client_update_send"}
  BY <1>1 DEF Accepted, AfterStashedApply, ToReady, To, ConnectionType
<1>3. /\ To(c, next).state = next /\ SameData(To(c, next), c) /\ SameFlags(To(c, next), c)
  <2>1. next \in Transient \cup Waiting
    BY <1>2, StateNames
  <2> QED BY <1>1, <2>1, ToData
<1>4. /\ d.state = next /\ d.queue = c.queue /\ d.stash = c.stash /\ d.answered = c.answered
      /\ d.outstanding = c.outstanding /\ conn' = [conn EXCEPT ![e] = d]
  BY <1>3, ConnStep DEF SameData, SameFlags
<1>5. /\ host'[p] = host[p] /\ host'[e][s] = v /\ \A x \in Hosts : x # s => host'[e][x] = host[e][x]
      /\ async'[p] = async[p] /\ async'[e] = b
  <2>1. host'[p] = host[p] /\ host'[e][s] = v /\ \A x \in Hosts : x # s => host'[e][x] = host[e][x]
    <3>1. host' = [host EXCEPT ![e][s] = v]
      OBVIOUS
    <3> HIDE DEF s
    <3> QED BY <1>1, <3>1, PeerFacts DEF IInv, HostOK
  <2> QED BY <2>1, AsyncStep
<1>6. QueueOK(e, d)
  <2>1. CASE c.state = "candidate_host_apply"
    <3>1. d.state = "candidate_host_apply_wait"
      BY <1>4, <2>1 DEF Accepted
    <3> QED BY <1>1, <1>4, <2>1, <3>1 DEF EndOK, QueueOK, HeadSent, ReadyStates
  <2>2. CASE c.state = "stashed_host_apply"
    <3>1. d.state = ToReady(c).state
      BY <1>4, <2>2 DEF Accepted, AfterStashedApply
    <3>2. HeadSent(c) => d.outstanding
      BY <1>1, <1>4, <2>2 DEF EndOK, QueueOK
    <3> QED BY <1>1, <1>4, <3>1, <3>2, ToReadyQueue DEF EndOK, QueueOK
  <2> QED BY <1>0, <2>1, <2>2
<1>7. StashOK(e, d, fin[e])
  BY <1>0, <1>1, <1>2, <1>4 DEF StashOK, Handling, ReadyStates, Accepted
<1>8. EventOK(d, host'[e], fin[e], b)
  <2>1. Expecting(d)
    BY <1>0, <1>1, <1>2, <1>4 DEF Expecting, Resting, Accepted
  <2>2. AtMostOne(s, host'[e], fin[e], b)
    BY <1>1, <1>5 DEF AtMostOne, Idle
  <2>3. d.state \in Resting => e \notin Home[s]
    BY <1>0, <1>1, <1>4 DEF Resting, Accepted
  <2> QED BY <1>4, <1>5, <2>1, <2>2, <2>3 DEF EventOK
<1>9. \A h \in Hosts : RecordOK(e, h, host'[e][h], fin[e])
  BY <1>1, <1>5 DEF EndOK
<1>10. EndOK(e, d, host'[e], fin'[e], async'[e])
  BY <1>5, <1>6, <1>7, <1>8, <1>9 DEF EndOK
<1>11. Homed(p, conn[p].state, net'[e]) /\ Homed(e, d.state, net'[p])
  <2>1. Homed(p, conn[p].state, net[e]) /\ Homed(e, c.state, net[p])
    BY PeerFacts DEF Settling
  <2> QED BY <1>0, <1>4, <2>1 DEF Homed, ReadyStates, Accepted
<1> QED BY <1>0, <1>4, <1>5, <1>10, <1>11, EndSteps DEF Down

LEMMA StartSettles ==
    ASSUME Undisturbed, IInv, Conversation, Settling, Up, NEW e \in E, NEW next,
           Accepted(e, next), ApplyStarts(e, next)
    PROVE  Settling'
<1> DEFINE s == conn[e].stash.name
           r == host[e][s]
           v == srp_update_start(r, StashedUpdate(e))
<1>0. conn[e].state \in {"candidate_host_apply", "stashed_host_apply"}
  BY DEF Accepted
<1>1. /\ s \in Hosts /\ r \in HostType /\ Sane(r) /\ Idle(host[e], fin[e], async[e])
      /\ StashedUpdate(e) \in Update /\ StashedUpdate(e).src = "this"
      /\ e \notin Home[s] =>
           r.update = NoUpdate /\ r.clients = <<>> /\ r.srpl = "none" /\ fin[e].host # s
  BY <1>0, ApplyBefore
<1>2. /\ conn' = [conn EXCEPT ![e] = To(@, next)] /\ UNCHANGED <<async, fin, net, link>>
      /\ host' = [host EXCEPT ![e][s] = v]
  BY DEF ApplyStarts
<1>3. async' = [async EXCEPT ![e] = async[e]]
  BY <1>2 DEF IInv, AsyncOK
<1>4. Untouching(s, r, fin[e]) /\ Deferrals(async[e]) = {}
  BY <1>1 DEF Idle
<1>5. AtMostOneIn(s, v, fin[e])
  BY <1>1, <1>4, ForeignStart
<1>6. /\ v.st = "valid" /\ v.srpl = "this"
      /\ r.update = NoUpdate /\ r.clients = <<>> => v.update = StashedUpdate(e) /\ v.clients = <<>>
  BY <1>1, StartDoes
<1>7. StashedUpdate(e) # NoUpdate
  BY <1>1 DEF NoUpdate
<1> HIDE DEF v
<1>8. RecordOK(e, s, v, fin[e])
  BY <1>1, <1>6, <1>7 DEF RecordOK
<1>9. e \notin Home[s] => Started(s, v, fin[e])
  BY <1>1, <1>6 DEF Started
<1>10. OneDeferral(s, async[e])
  BY <1>4 DEF OneDeferral
<1> QED BY <1>2, <1>3, <1>4, <1>5, <1>8, <1>9, <1>10, ApplySettles

LEMMA RetransmissionSettles ==
    ASSUME Undisturbed, IInv, Conversation, Settling, Up, NEW e \in E, NEW next,
           Accepted(e, next), ApplyRetransmission(e, next)
    PROVE  Settling'
<1> DEFINE s == conn[e].stash.name
           r == host[e][s]
           v == [r EXCEPT !.srpl = "none"]
           x == Deferred(s, "servfail")
<1>0. conn[e].state \in {"candidate_host_apply", "stashed_host_apply"}
  BY DEF Accepted
<1>1. /\ s \in Hosts /\ r \in HostType /\ Sane(r) /\ Idle(host[e], fin[e], async[e])
      /\ e \notin Home[s] => r.update = NoUpdate /\ r.clients = <<>>
  BY <1>0, ApplyBefore
<1>2. /\ conn' = [conn EXCEPT ![e] = To(@, next)] /\ UNCHANGED <<fin, net, link>>
      /\ host' = [host EXCEPT ![e][s].srpl = "none"]
      /\ async' = [async EXCEPT ![e] = Append(@, x)]
      /\ Retransmission(r, conn[e].stash.msg)
  BY DEF ApplyRetransmission
<1>3. e \in Home[s]
  <2>1. DOMAIN <<>> = {}
    OBVIOUS
  <2>2. r.update # NoUpdate \/ r.clients # <<>>
    BY <1>2, <2>1 DEF Retransmission
  <2> QED BY <1>1, <2>2
<1>4. host' = [host EXCEPT ![e][s] = v]
  BY <1>2
<1>5. x \in CallbackType /\ x.kind = "advertise_finished" /\ x.host = s
  BY <1>1 DEF Deferred, CallbackType, Rcodes
<1> HIDE DEF x
<1>6. Untouching(s, r, fin[e]) /\ Deferrals(async[e]) = {}
  BY <1>1 DEF Idle
<1>7. async[e] \in Seq(CallbackType)
  BY DEF IInv, AsyncOK
<1>8. OneDeferral(s, Append(async[e], x))
  BY <1>5, <1>6, <1>7, DeferralsAppend
<1>9. /\ v.update = r.update /\ v.clients = r.clients /\ v.st = r.st /\ v.srpl = "none"
  BY <1>1 DEF HostType
<1> HIDE DEF v
<1>10. Untouching(s, v, fin[e]) /\ AtMostOneIn(s, v, fin[e])
  BY <1>6, <1>9 DEF Untouching, AtMostOneIn, Started, Queued
<1>11. RecordOK(e, s, v, fin[e])
  BY <1>1, <1>3, <1>9 DEF RecordOK, Sane
<1>12. async' = [async EXCEPT ![e] = Append(async[e], x)]
  BY <1>2
<1> QED BY <1>2, <1>3, <1>4, <1>8, <1>10, <1>11, <1>12, ApplySettles

LEMMA AtOnceSettles ==
    ASSUME Undisturbed, IInv, Conversation, Settling, Up, NEW e \in E, NEW next,
           Accepted(e, next), ApplyFinishesAtOnce(e, next)
    PROVE  Settling'
<1> DEFINE s == conn[e].stash.name
           r == host[e][s]
           w == srp_update_start(r, StashedUpdate(e))
           v == SettleFinished(TakeMessage(w))
           x == Deferred(s, "noerror")
<1>0. conn[e].state \in {"candidate_host_apply", "stashed_host_apply"}
  BY DEF Accepted
<1>1. /\ s \in Hosts /\ r \in HostType /\ Sane(r) /\ Idle(host[e], fin[e], async[e])
      /\ StashedUpdate(e) \in Update /\ StashedUpdate(e).src = "this"
      /\ e \notin Home[s] => fin[e].host # s
  BY <1>0, ApplyBefore
<1>2. /\ conn' = [conn EXCEPT ![e] = To(@, next)] /\ UNCHANGED <<fin, net, link>>
      /\ host' = [host EXCEPT ![e][s] = v]
      /\ async' = [async EXCEPT ![e] = Append(async[e], x)]
      /\ r.update = NoUpdate /\ r.clients = <<>>
  BY DEF ApplyFinishesAtOnce, Updating
<1>3. /\ w.st = "valid" /\ w.update = StashedUpdate(e) /\ w.clients = <<>>
  BY <1>1, <1>2, StartDoes
<1>4. w \in HostType
  BY <1>1, UpdateStartType
<1> HIDE DEF w
<1>5. TakeMessage(w) \in HostType /\ TakeMessage(w).update = w.update /\ TakeMessage(w).st = "valid"
      /\ TakeMessage(w).clients = <<>>
  BY <1>3, <1>4 DEF TakeMessage, HostType, Update
<1>6. v.st = "valid" /\ v.update = NoUpdate /\ v.clients = <<>> /\ v.srpl = "none"
  BY <1>1, <1>3, <1>5 DEF SettleFinished, ClearMark, HostType
<1> HIDE DEF v
<1>7. x \in CallbackType /\ x.kind = "advertise_finished" /\ x.host = s
  BY <1>1 DEF Deferred, CallbackType, Rcodes
<1> HIDE DEF x
<1>8. async[e] \in Seq(CallbackType) /\ Deferrals(async[e]) = {}
  BY <1>1 DEF IInv, AsyncOK, Idle
<1>9. OneDeferral(s, Append(async[e], x)) /\ Deferrals(Append(async[e], x)) # {}
  BY <1>7, <1>8, DeferralsAppend
<1>10. Untouching(s, v, fin[e]) /\ AtMostOneIn(s, v, fin[e])
  BY <1>6, EmptyForeign DEF Untouching, AtMostOneIn, Started, Queued, NoUpdate
<1>11. RecordOK(e, s, v, fin[e])
  BY <1>1, <1>6 DEF RecordOK
<1> QED BY <1>2, <1>9, <1>10, <1>11, ApplySettles

LEMMA ApplyActionsSettle ==
    ASSUME Undisturbed, IInv, Conversation, Settling, Up, NEW e \in E, link => link',
           srpl_candidate_host_apply_action(e) \/ srpl_stashed_host_apply_action(e)
    PROVE  Settling'
<1>0. conn[e].state \in {"candidate_host_apply", "stashed_host_apply"}
  BY DEF srpl_candidate_host_apply_action, srpl_stashed_host_apply_action
<1>1. link
  BY <1>0, LinkUp DEF Down
<1>2. ~ApplyConflict(e)
  BY <1>1 DEF ApplyConflict
<1>3. ~Use("bad", MaxBad)
  BY DEF Use, Undisturbed, IInv, RestOK, Faults
<1>4. PICK next : /\ Accepted(e, next)
                  /\ \/ ApplyStarts(e, next) \/ ApplyRetransmission(e, next)
                     \/ ApplyFinishesAtOnce(e, next)
  BY <1>2, <1>3 DEF srpl_candidate_host_apply_action, srpl_stashed_host_apply_action, Accepted,
                    ApplyIgnored, ApplyRejected
<1> QED BY <1>4, StartSettles, RetransmissionSettles, AtOnceSettles

-----------------------------------------------------------------------------
(* The events of the advertising proxy.                                    *)

\* An end changes a host, and the rest of its books with it.
LEMMA RecordSettles ==
    ASSUME IInv, Settling, Up, NEW e \in E, NEW h \in Hosts, NEW v, NEW b,
           UNCHANGED <<conn, net, link>>, host' = [host EXCEPT ![e][h] = v],
           fin' = [fin EXCEPT ![e] = NoFin], async' = [async EXCEPT ![e] = b],
           fin[e].host \in {h, NoHost},
           InProgressKept(h, host[e][h], fin[e], v, NoFin),
           e \notin Home[h] /\ Started(h, host[e][h], fin[e]) => Started(h, v, NoFin),
           DeferralsKept(async[e], b), RecordOK(e, h, v, NoFin)
    PROVE  Settling'
<1> DEFINE c == conn[e]
           p == Peer(e)
<1>1. /\ EndOK(e, c, host[e], fin[e], async[e])
      /\ Homed(p, conn[p].state, net[e]) /\ Homed(e, c.state, net[p])
  BY PeerFacts DEF Settling
<1>2. /\ host'[p] = host[p] /\ host'[e][h] = v /\ \A x \in Hosts : x # h => host'[e][x] = host[e][x]
  BY PeerFacts DEF IInv, HostOK
<1>3. async'[p] = async[p] /\ async'[e] = b
  BY AsyncStep
<1>4. fin'[p] = fin[p] /\ fin'[e] = NoFin
  BY PeerFacts DEF IInv, FinOK
<1>5. \A x \in Hosts : x # h => fin[e].host # x /\ NoFin.host # x
  BY NoHostFacts
<1>6. \A x \in Hosts : x # h => /\ Started(x, host'[e][x], NoFin) <=> Started(x, host[e][x], fin[e])
                                /\ Queued(host'[e][x]) = Queued(host[e][x])
  BY <1>2, <1>5 DEF Started
<1>7. \A x \in Hosts : InProgressKept(x, host[e][x], fin[e], host'[e][x], NoFin)
  BY <1>2, <1>6 DEF InProgressKept, Untouching, AtMostOneIn
<1>8. \A x \in Hosts : e \notin Home[x] /\ Started(x, host[e][x], fin[e])
                          => Started(x, host'[e][x], NoFin)
  BY <1>2, <1>6
<1>9. EventOK(c, host'[e], NoFin, b)
  BY <1>1, <1>7, <1>8, EventsKept
<1>10. \A x \in Hosts : RecordOK(e, x, host'[e][x], NoFin)
  <2>1. \A x \in Hosts : x # h => RecordOK(e, x, host[e][x], fin[e])
    BY <1>1 DEF EndOK
  <2>2. \A x \in Hosts : x # h => RecordOK(e, x, host'[e][x], NoFin)
    BY <1>2, <1>5, <2>1 DEF RecordOK
  <2> QED BY <1>2, <2>2
<1>11. EndOK(e, c, host'[e], fin'[e], async'[e])
  BY <1>1, <1>3, <1>4, <1>9, <1>10 DEF EndOK, StashOK
<1>12. conn' = [conn EXCEPT ![e] = c]
  BY DEF IInv, ConnOK
<1> QED BY <1>1, <1>2, <1>3, <1>4, <1>11, <1>12, EndSteps

LEMMA ClientUpdateSettles ==
    ASSUME IInv, Settling, Up, NEW e \in E, NEW h \in Hosts, ClientUpdate(e, h)
    PROVE  Settling'
<1> DEFINE r == host[e][h]
           u == [msg |-> clock', time |-> 0, src |-> "client"]
           v == srp_update_start(r, u)
<1>1. /\ AllQuiet /\ e \in Home[h] /\ clock < MaxUpdates /\ clock' = clock + 1
      /\ host' = [host EXCEPT ![e][h] = v] /\ UNCHANGED <<conn, async, fin, net, link>>
  BY DEF ClientUpdate
<1>2. r \in HostType /\ Sane(r)
  BY DEF IInv, HostOK, Settling, EndOK, RecordOK, Sane
<1>3. u \in Update /\ u.src = "client"
  BY <1>1, MsgsFacts DEF Update, Msgs, Sources, IInv, RestOK
<1> HIDE DEF u
<1>4. fin[e] = NoFin /\ fin[e].host = NoHost /\ NoFin.host # h
  BY <1>1, NoHostFacts DEF AllQuiet, Quiet
<1>5. InProgressKept(h, r, NoFin, v, NoFin)
  BY <1>2, <1>3, <1>4, ClientStartKeeps
<1>6. v.st = "valid"
  BY <1>2, <1>3, StartDoes
<1> HIDE DEF v
<1>7. RecordOK(e, h, v, NoFin)
  BY <1>1, <1>6 DEF RecordOK
<1>8. fin' = [fin EXCEPT ![e] = NoFin] /\ async' = [async EXCEPT ![e] = async[e]]
  BY <1>1, <1>4 DEF IInv, FinOK, AsyncOK
<1> QED BY <1>1, <1>4, <1>5, <1>7, <1>8, DeferralsSame, RecordSettles

LEMMA RemovalSettles ==
    ASSUME IInv, Settling, Up, NEW e \in E, NEW h \in Hosts,
           ClientRemove(e, h) \/ lease_callback(e, h)
    PROVE  Settling'
<1> DEFINE r == host[e][h]
<1>1. PICK st \in {"removed", "absent"} :
         /\ AllQuiet /\ r.update = NoUpdate /\ r.clients = <<>>
         /\ host' = [host EXCEPT ![e][h] = Gone(r, st)]
         /\ UNCHANGED <<conn, async, fin, net, link>>
  BY DEF ClientRemove, lease_callback, Updating
<1> DEFINE v == Gone(r, st)
<1>2. v.st = st /\ v.update = NoUpdate /\ v.clients = <<>> /\ v.srpl = "none"
  BY DEF Gone, AbsentHost
<1> HIDE DEF v
<1>3. fin[e] = NoFin /\ fin[e].host = NoHost /\ NoFin.host # h
  BY <1>1, NoHostFacts DEF AllQuiet, Quiet
<1>4. InProgressKept(h, r, NoFin, v, NoFin)
  BY <1>2, EmptyForeign DEF InProgressKept, Untouching, AtMostOneIn, Started, Queued, NoUpdate
<1>5. ~Started(h, r, NoFin)
  BY <1>1 DEF Started, NoUpdate
<1>6. RecordOK(e, h, v, NoFin)
  BY <1>2, <1>3 DEF RecordOK
<1>7. fin' = [fin EXCEPT ![e] = NoFin] /\ async' = [async EXCEPT ![e] = async[e]]
  BY <1>1, <1>3 DEF IInv, FinOK, AsyncOK
<1>8. host' = [host EXCEPT ![e][h] = v]
  BY <1>1 DEF v
<1> QED BY <1>1, <1>3, <1>4, <1>5, <1>6, <1>7, <1>8, DeferralsSame, RecordSettles

LEMMA NextUpdateSettles ==
    ASSUME IInv, Settling, Up, NEW e \in E, RunNextUpdate(e)
    PROVE  Settling'
<1> DEFINE h == Head(async[e]).host
           r == host[e][h]
           v == IF ~Updating(e, h) /\ r.clients # <<>> THEN prepare_update(r) ELSE r
<1>1. /\ AllQuiet /\ async[e] # <<>> /\ Head(async[e]).kind = "next_update"
      /\ host' = [host EXCEPT ![e][h] = v] /\ async' = [async EXCEPT ![e] = Tail(async[e])]
      /\ UNCHANGED <<conn, fin, net, link>>
  BY DEF RunNextUpdate
<1>2. async[e] \in Seq(CallbackType) /\ h \in Hosts
  <2>1. async[e] \in Seq(CallbackType)
    BY DEF IInv, AsyncOK
  <2>2. Head(async[e]) \in CallbackType
    BY <1>1, <2>1
  <2> QED BY <2>1, <2>2 DEF CallbackType
<1> HIDE DEF h
<1>3. r \in HostType /\ RecordOK(e, h, r, fin[e])
  BY <1>2 DEF IInv, HostOK, Settling, EndOK
<1>4. fin[e] = NoFin /\ fin[e].host = NoHost /\ NoFin.host # h
  BY <1>1, <1>2, NoHostFacts DEF AllQuiet, Quiet
<1>5. fin' = [fin EXCEPT ![e] = NoFin]
  BY <1>1, <1>4 DEF IInv, FinOK
<1>6. DeferralsKept(async[e], Tail(async[e]))
  BY <1>1, <1>2, DeferralsTail
<1>7. CASE v = r
  <2>1. InProgressKept(h, r, NoFin, v, NoFin) /\ RecordOK(e, h, v, NoFin)
        /\ (Started(h, r, NoFin) => Started(h, v, NoFin))
    BY <1>3, <1>4, <1>7 DEF InProgressKept
  <2> HIDE DEF v
  <2> QED BY <1>1, <1>2, <1>4, <1>5, <1>6, <2>1, RecordSettles
<1>8. CASE r.update = NoUpdate /\ r.clients # <<>> /\ v = prepare_update(r)
  <2>1. InProgressKept(h, r, NoFin, v, NoFin)
    BY <1>3, <1>4, <1>8, PrepareKeeps
  <2>2. e \in Home[h] /\ r.st = "valid"
    BY <1>3, <1>8 DEF RecordOK
  <2>3. v.st = "valid"
    BY <1>3, <1>8, <2>2 DEF prepare_update, HostType
  <2>4. RecordOK(e, h, v, NoFin)
    BY <2>2, <2>3 DEF RecordOK
  <2> HIDE DEF v
  <2> QED BY <1>1, <1>2, <1>4, <1>5, <1>6, <2>1, <2>2, <2>4, RecordSettles
<1> QED BY <1>7, <1>8 DEF Updating

LEMMA SettleFinishedDoes ==
    ASSUME NEW r \in HostType
    PROVE  LET v == SettleFinished(r)
           IN  /\ v.st = r.st /\ v.clients = r.clients /\ v.update = NoUpdate
               /\ v.srpl = IF r.update.src = "client" THEN r.srpl ELSE "none"
<1> DEFINE k == ClearMark(r, r.update.src)
<1>1. /\ k.st = r.st /\ k.clients = r.clients
      /\ k.srpl = IF r.update.src = "client" THEN r.srpl ELSE "none"
  BY DEF ClearMark, HostType
<1>2. k \in HostType
  BY DEF ClearMark, HostType
<1> HIDE DEF k
<1>3. SettleFinished(r) = [k EXCEPT !.time = IF r.update.time # 0 THEN r.update.time ELSE clock,
                                    !.update = NoUpdate]
  BY DEF SettleFinished, k
<1> QED BY <1>1, <1>2, <1>3 DEF HostType

LEMMA SettleFailedDoes ==
    ASSUME NEW r \in HostType, NEW src
    PROVE  LET v == SettleFailed(r, src)
               k == IF src = "client" THEN r.srpl ELSE "none"
           IN  \/ v.st = r.st /\ v.clients = r.clients /\ v.update = r.update /\ v.srpl = k
               \/ /\ v.st = "absent" /\ v.clients = <<>> /\ v.update = NoUpdate /\ v.srpl = "none"
                  /\ r.clients = <<>> /\ r.update = NoUpdate
<1> DEFINE s == ClearMark(r, src)
<1>1. /\ s.st = r.st /\ s.clients = r.clients /\ s.update = r.update
      /\ s.srpl = IF src = "client" THEN r.srpl ELSE "none"
  BY DEF ClearMark, HostType
<1> HIDE DEF s
<1>2. /\ Gone(s, "absent").st = "absent" /\ Gone(s, "absent").clients = <<>>
      /\ Gone(s, "absent").update = NoUpdate /\ Gone(s, "absent").srpl = "none"
  BY DEF Gone, AbsentHost
<1>3. SettleFailed(r, src) = IF s.msg = 0 /\ s.clients = <<>> /\ s.update = NoUpdate
                             THEN Gone(s, "absent") ELSE s
  BY DEF SettleFailed, s
<1> QED BY <1>1, <1>2, <1>3

LEMMA SettleSettles ==
    ASSUME IInv, Settling, Up, NEW e \in E, Settle(e)
    PROVE  Settling'
<1> DEFINE f == fin[e]
           h == f.host
           r == host[e][h]
           v == IF f.failed THEN SettleFailed(r, f.src) ELSE SettleFinished(r)
           x == NextUpdate(h)
           b == IF ~f.failed /\ r.clients # <<>> THEN Append(async[e], x) ELSE async[e]
<1>1. /\ f # NoFin /\ host' = [host EXCEPT ![e][h] = v] /\ async' = [async EXCEPT ![e] = b]
      /\ fin' = [fin EXCEPT ![e] = NoFin] /\ UNCHANGED <<conn, net, link>>
  BY DEF Settle
<1>2. h \in Hosts /\ f \in FinType
  BY <1>1 DEF IInv, FinOK, FinType
<1>3. r \in HostType /\ RecordOK(e, h, r, f)
  BY <1>2 DEF IInv, HostOK, Settling, EndOK
<1>4. NoFin.host # h
  BY <1>2, NoHostFacts
<1>5. DeferralsKept(async[e], b)
  <2>1. x \in CallbackType /\ x.kind = "next_update"
    BY <1>2 DEF NextUpdate, CallbackType, Rcodes
  <2>2. async[e] \in Seq(CallbackType)
    BY DEF IInv, AsyncOK
  <2> HIDE DEF x
  <2> QED BY <2>1, <2>2, DeferralsAppend, DeferralsSame
<1> HIDE DEF b
<1>6. CASE f.failed
  <2>1. \/ /\ v.st = r.st /\ v.clients = r.clients /\ v.update = r.update
           /\ v.srpl = IF f.src = "client" THEN r.srpl ELSE "none"
        \/ /\ v.st = "absent" /\ v.clients = <<>> /\ v.update = NoUpdate /\ v.srpl = "none"
           /\ r.clients = <<>> /\ r.update = NoUpdate
    BY <1>3, <1>6, SettleFailedDoes
  <2> HIDE DEF v, r, f
  <2>2. v.update = r.update /\ v.clients = r.clients
    BY <2>1
  <2>3. Started(h, v, NoFin) <=> Started(h, r, f)
    BY <1>4, <1>6, <2>2 DEF Started
  <2>4. InProgressKept(h, r, f, v, NoFin)
    BY <2>2, <2>3 DEF InProgressKept, Untouching, AtMostOneIn, Queued
  <2>5. RecordOK(e, h, v, NoFin)
    BY <1>3, <1>4, <1>6, <2>1 DEF RecordOK
  <2> QED BY <1>1, <1>2, <1>5, <2>3, <2>4, <2>5, RecordSettles DEF r, f
<1>7. CASE ~f.failed
  <2>1. /\ v.st = r.st /\ v.clients = r.clients /\ v.update = NoUpdate
        /\ v.srpl = IF r.update.src = "client" THEN r.srpl ELSE "none"
    BY <1>3, <1>7, SettleFinishedDoes
  <2> HIDE DEF v, r, f
  <2>2. ~Started(h, v, NoFin) /\ ~Started(h, r, f)
    <3>1. ~Started(h, v, NoFin)
      BY <2>1 DEF Started, NoUpdate
    <3>2. ~Started(h, r, f)
      BY <1>7 DEF Started
    <3> QED BY <3>1, <3>2
  <2>3. InProgressKept(h, r, f, v, NoFin)
    BY <2>1, <2>2 DEF InProgressKept, Untouching, AtMostOneIn, Queued
  <2>4. NoUpdate.src = "client"
    BY DEF NoUpdate
  <2>5. RecordOK(e, h, v, NoFin)
    BY <1>3, <1>4, <1>7, <2>1, <2>4 DEF RecordOK
  <2> QED BY <1>1, <1>2, <1>5, <2>2, <2>3, <2>5, RecordSettles DEF r, f
<1> QED BY <1>6, <1>7

\* The connection learns that the host of the peer it waits for has been applied.
LEMMA AdvertisedSettles ==
    ASSUME IInv, Conversation, Settling, Up, AllQuiet, NEW e \in E, NEW h \in Hosts, NEW rc \in Rcodes,
           Expecting(conn[e]), conn[e].stash.name = h, AdvertiseFinished(e, h, rc),
           link' = link, host'[Peer(e)] = host[Peer(e)], fin'[Peer(e)] = fin[Peer(e)],
           async'[Peer(e)] = async[Peer(e)], Idle(host'[e], fin'[e], async'[e]),
           \A x \in Hosts : RecordOK(e, x, host'[e][x], fin'[e])
    PROVE  Settling'
<1> DEFINE c == conn[e]
           d == conn'[e]
           p == Peer(e)
<1>1. /\ EndOK(e, c, host[e], fin[e], async[e]) /\ c \in ConnectionType
      /\ Homed(p, conn[p].state, net[e]) /\ Homed(e, c.state, net[p])
  BY PeerFacts, ConnFacts DEF Settling, IInv
<1>2. c.state = "candidate_host_apply_wait" \/ (c.state = "ready" /\ ~c.answered)
  BY DEF Expecting, Resting, AllQuiet, Quiet, Transient
<1>3. CASE c.state = "candidate_host_apply_wait"
  <2> DEFINE g == [c EXCEPT !.stash = NoStash]
             b == To(g, "send_candidates_wait")
             m == Response(IF b.answered THEN "unmatched_response" ELSE "host_response", rc)
  <2>1. SendResponse(e, "host_response", rc, b)
    BY <1>3 DEF AdvertiseFinished, EndsContention
  <2>2. g \in ConnectionType /\ g.queue = c.queue
    <3>1. NoStash \in [name : Names, msg : Msgs, time : Int, rcode : Rcodes]
      BY MsgsFacts DEF NoStash, Names, Rcodes
    <3> QED BY <1>1, <3>1 DEF ConnectionType
  <2> HIDE DEF g
  <2>3. b \in ConnectionType /\ b.state = "send_candidates_wait" /\ SameData(b, g)
    BY <2>2, ToData, StateNames
  <2> HIDE DEF b
  <2>4. /\ conn' = [conn EXCEPT ![e] = d] /\ d.state = "send_candidates_wait" /\ d.queue = c.queue
        /\ Writes(e, m)
    <3>1. /\ conn' = [conn EXCEPT ![e] = conn'[e]] /\ SameData(conn'[e], b)
          /\ conn'[e].state = b.state
          /\ Writes(e, m)
      BY <2>1, <2>3, Responses
    <3> HIDE DEF m
    <3> QED BY <2>2, <2>3, <3>1 DEF SameData
  <2> HIDE DEF m
  <2>5. QueueOK(e, d)
    BY <1>1, <1>3, <2>4 DEF EndOK, QueueOK, HeadSent, ReadyStates
  <2>6. StashOK(e, d, fin'[e])
    BY <2>4 DEF StashOK, ReadyStates, Handling
  <2>7. EventOK(d, host'[e], fin'[e], async'[e])
    BY <2>4 DEF EventOK, Expecting, Resting
  <2>8. EndOK(e, d, host'[e], fin'[e], async'[e])
    BY <2>5, <2>6, <2>7 DEF EndOK
  <2>9. Homed(p, conn[p].state, net'[e]) /\ Homed(e, d.state, net'[p])
    BY <1>1, <2>4 DEF Homed, ReadyStates, Writes
  <2> QED BY <1>3, <2>4, <2>8, <2>9, EndSteps DEF Down
<1>4. CASE c.state = "ready" /\ ~c.answered
  <2> DEFINE g == [c EXCEPT !.stash.rcode = rc]
             b == To(g, "stashed_host_finished")
  <2>1. conn' = [conn EXCEPT ![e] = b] /\ UNCHANGED net
    BY <1>4 DEF AdvertiseFinished, EndsContention
  <2>2. /\ g \in ConnectionType /\ g.queue = c.queue /\ g.stash.name = h
        /\ g.outstanding = c.outstanding
    BY <1>1 DEF ConnectionType
  <2> HIDE DEF g
  <2>3. b \in ConnectionType /\ b.state = "stashed_host_finished" /\ SameData(b, g) /\ SameFlags(b, g)
    BY <2>2, ToData, StateNames
  <2> HIDE DEF b
  <2>4. /\ conn' = [conn EXCEPT ![e] = d] /\ d.state = "stashed_host_finished" /\ d.queue = c.queue
        /\ d.stash.name = h /\ d.outstanding = c.outstanding
    BY <2>1, <2>2, <2>3, ConnStep DEF SameData, SameFlags
  <2>5. QueueOK(e, d)
    BY <1>1, <1>4, <2>4 DEF EndOK, QueueOK, HeadSent, ReadyStates
  <2>6. StashOK(e, d, fin'[e])
    BY <1>1, <1>4, <2>4 DEF EndOK, StashOK, ReadyStates, Handling
  <2>7. EventOK(d, host'[e], fin'[e], async'[e])
    BY <2>4 DEF EventOK, Expecting, Resting
  <2>8. EndOK(e, d, host'[e], fin'[e], async'[e])
    BY <2>5, <2>6, <2>7 DEF EndOK
  <2>9. Homed(p, conn[p].state, net'[e]) /\ Homed(e, d.state, net'[p])
    BY <1>1, <1>4, <2>1, <2>4 DEF Homed, ReadyStates
  <2> QED BY <1>4, <2>4, <2>8, <2>9, EndSteps DEF Down
<1> QED BY <1>2, <1>3, <1>4

LEMMA DeferredSettles ==
    ASSUME IInv, Conversation, Settling, Up, NEW e \in E, RunDeferred(e)
    PROVE  Settling'
<1> DEFINE c == conn[e]
           a == async[e]
           h == Head(a).host
           rc == Head(a).rcode
<1>1. /\ AllQuiet /\ a # <<>> /\ Head(a).kind = "advertise_finished" /\ AdvertiseFinished(e, h, rc)
      /\ async' = [async EXCEPT ![e] = Tail(a)] /\ UNCHANGED <<host, fin, link>>
  BY DEF RunDeferred
<1>2. a \in Seq(CallbackType) /\ h \in Hosts /\ rc \in Rcodes
  <2>1. a \in Seq(CallbackType)
    BY DEF IInv, AsyncOK
  <2>2. Head(a) \in CallbackType
    BY <1>1, <2>1
  <2> QED BY <2>1, <2>2 DEF CallbackType
<1>3. EndOK(e, c, host[e], fin[e], a)
  BY DEF Settling
<1>4. Deferrals(a) # {}
  BY <1>1, <1>2, DeferralsTail
<1>5. Expecting(c)
  BY <1>3, <1>4 DEF EndOK, EventOK, Idle
<1>6. AtMostOne(c.stash.name, host[e], fin[e], a)
  BY <1>3, <1>5 DEF EndOK, EventOK
<1>7. h = c.stash.name /\ Deferrals(Tail(a)) = {}
  BY <1>1, <1>2, <1>6, DeferralsTail DEF AtMostOne
<1>8. async'[Peer(e)] = async[Peer(e)] /\ async'[e] = Tail(a)
  BY <1>1, AsyncStep
<1>9. Idle(host[e], fin[e], Tail(a))
  BY <1>2, <1>4, <1>6, <1>7 DEF AtMostOne, Idle
<1>10. \A x \in Hosts : RecordOK(e, x, host[e][x], fin[e])
  BY <1>3 DEF EndOK
<1> HIDE DEF h, rc, a
<1> QED BY <1>1, <1>2, <1>5, <1>7, <1>8, <1>9, <1>10, AdvertisedSettles

\* What ends an update of host h: update_finished or update_failed.
Ends(e, h, v, g) ==
    /\ AllQuiet /\ host[e][h].update # NoUpdate
    /\ host' = [host EXCEPT ![e][h] = v] /\ fin' = [fin EXCEPT ![e] = g]
    /\ v.clients = host[e][h].clients /\ v.srpl = host[e][h].srpl /\ v.st = host[e][h].st
    /\ v.update = IF g.failed THEN NoUpdate ELSE host[e][h].update
    /\ g.host = h /\ g.src = host[e][h].update.src
    /\ UNCHANGED <<async, link>>

LEMMA EndsFacts ==
    ASSUME IInv, Settling, Up, NEW e \in E, NEW h \in Hosts, NEW v, NEW g, Ends(e, h, v, g)
    PROVE  LET r == host[e][h]  p == Peer(e)
           IN  /\ host'[p] = host[p] /\ host'[e][h] = v
               /\ \A x \in Hosts : x # h => host'[e][x] = host[e][x]
               /\ fin'[p] = fin[p] /\ fin'[e] = g /\ fin[e] = NoFin
               /\ EndOK(e, conn[e], host[e], NoFin, async[e]) /\ r \in HostType
               /\ r.st = "valid" /\ RecordOK(e, h, r, NoFin)
               /\ \A x \in Hosts : x # h => InProgressKept(x, host[e][x], NoFin, host'[e][x], g)
               /\ \A x \in Hosts : x # h => (Started(x, host'[e][x], g) <=> Started(x, host[e][x], NoFin))
               /\ Queued(v) = Queued(r) /\ ~Started(h, v, g)
               /\ Started(h, r, NoFin) <=> r.update.src # "client"
               /\ \A x \in Hosts : RecordOK(e, x, host'[e][x], g)
<1> DEFINE r == host[e][h]
           p == Peer(e)
<1>0. host' = [host EXCEPT ![e][h] = v] /\ fin' = [fin EXCEPT ![e] = g]
  BY DEF Ends
<1>1. host'[p] = host[p] /\ host'[e][h] = v /\ \A x \in Hosts : x # h => host'[e][x] = host[e][x]
  BY <1>0, PeerFacts DEF IInv, HostOK
<1>2. fin'[p] = fin[p] /\ fin'[e] = g /\ fin[e] = NoFin
  BY <1>0, PeerFacts DEF IInv, FinOK, Ends, AllQuiet, Quiet
<1>3. EndOK(e, conn[e], host[e], NoFin, async[e]) /\ r \in HostType
  BY <1>2 DEF Settling, IInv, HostOK
<1>4. \A x \in Hosts : RecordOK(e, x, host[e][x], NoFin)
  BY <1>3 DEF EndOK
<1>5. r.st = "valid" /\ r.update # NoUpdate
  BY <1>4 DEF RecordOK, Ends
<1>6. \A x \in Hosts : NoFin.host # x
  BY NoHostFacts
<1>7. \A x \in Hosts : x # h => g.host # x
  BY DEF Ends
<1>8. \A x \in Hosts : x # h => (Started(x, host'[e][x], g) <=> Started(x, host[e][x], NoFin))
  BY <1>1, <1>6, <1>7 DEF Started
<1>9. \A x \in Hosts : x # h => InProgressKept(x, host[e][x], NoFin, host'[e][x], g)
  BY <1>1, <1>8 DEF InProgressKept, Untouching, AtMostOneIn
<1>10. Queued(v) = Queued(r)
  BY DEF Ends, Queued
<1>11. ~Started(h, v, g)
  BY DEF Ends, Started, NoUpdate
<1>12. Started(h, r, NoFin) <=> r.update.src # "client"
  BY <1>6 DEF Started
<1>13. \A x \in Hosts : x # h => RecordOK(e, x, host'[e][x], g)
  BY <1>1, <1>4, <1>6, <1>7 DEF RecordOK
<1>14. RecordOK(e, h, v, g)
  BY <1>4, <1>5 DEF RecordOK, Ends
<1> QED BY <1>1, <1>2, <1>3, <1>4, <1>5, <1>8, <1>9, <1>10, <1>11, <1>12, <1>13, <1>14

\* An update of the peer ends.
LEMMA ForeignEnds ==
    ASSUME Undisturbed, IInv, Conversation, Settling, Up, NEW e \in E, NEW h \in Hosts, NEW v, NEW g,
           NEW rc \in Rcodes, Ends(e, h, v, g), host[e][h].update.src # "client",
           DeliverResult(e, h, rc)
    PROVE  Settling'
<1> DEFINE r == host[e][h]
           p == Peer(e)
           c == conn[e]
           s == c.stash.name
<1>1. /\ host'[p] = host[p] /\ host'[e][h] = v
      /\ \A x \in Hosts : x # h => host'[e][x] = host[e][x]
      /\ fin'[p] = fin[p] /\ fin'[e] = g
      /\ EndOK(e, c, host[e], NoFin, async[e]) /\ RecordOK(e, h, r, NoFin)
      /\ \A x \in Hosts : x # h => InProgressKept(x, host[e][x], NoFin, host'[e][x], g)
      /\ Queued(v) = Queued(r) /\ ~Started(h, v, g) /\ Started(h, r, NoFin)
      /\ \A x \in Hosts : RecordOK(e, x, host'[e][x], g)
  BY EndsFacts
<1>2. AllQuiet /\ UNCHANGED <<async, link>>
  BY DEF Ends
<1>3. Expecting(c)
  BY <1>1 DEF EndOK, EventOK, Idle, Untouching
<1>4. AtMostOne(s, host[e], NoFin, async[e])
  BY <1>1, <1>3 DEF EndOK, EventOK
<1>5. s = h /\ Queued(r) = {} /\ Deferrals(async[e]) = {}
  BY <1>1, <1>4 DEF AtMostOne, AtMostOneIn, Untouching
<1>6. Untouching(h, v, g)
  BY <1>1, <1>5 DEF Untouching
<1>7. \A x \in Hosts : Untouching(x, host'[e][x], g)
  BY <1>1, <1>4, <1>5, <1>6 DEF AtMostOne, InProgressKept
<1>8. Idle(host'[e], fin'[e], async'[e])
  BY <1>1, <1>2, <1>5, <1>7 DEF Idle
<1>9. async'[p] = async[p]
  BY <1>2
<1>10. CASE r.srpl # "none"
  <2>1. AdvertiseFinished(e, h, rc)
    BY <1>10 DEF DeliverResult
  <2> QED BY <1>1, <1>2, <1>3, <1>5, <1>8, <1>9, <2>1, AdvertisedSettles
<1>11. CASE r.srpl = "none"
  <2>1. UNCHANGED <<conn, net>>
    BY <1>11 DEF DeliverResult
  <2>2. e \in Home[h]
    BY <1>1, <1>11 DEF RecordOK, Ends
  <2>3. c.state = "candidate_host_apply_wait"
    BY <1>1, <1>3, <1>5, <2>2 DEF Expecting, EndOK, StashOK, Resting, ReadyStates
  <2>4. EventOK(c, host'[e], fin'[e], async'[e])
    <3>1. AtMostOne(s, host'[e], g, async[e])
      BY <1>5, <1>7 DEF AtMostOne, AtMostOneIn, Untouching, OneDeferral
    <3> QED BY <1>1, <1>2, <1>3, <2>3, <3>1 DEF EventOK, Resting
  <2>5. EndOK(e, c, host'[e], fin'[e], async'[e])
    BY <1>1, <2>3, <2>4 DEF EndOK, StashOK, ReadyStates, Handling
  <2>6. Homed(p, conn[p].state, net[e]) /\ Homed(e, c.state, net[p])
    BY PeerFacts DEF Settling
  <2>7. conn' = [conn EXCEPT ![e] = c]
    BY <2>1 DEF IInv, ConnOK
  <2> QED BY <1>1, <1>2, <1>9, <2>1, <2>5, <2>6, <2>7, EndSteps
<1> QED BY <1>10, <1>11

\* An update of a client is queued for the peer.
LEMMA QueuedUpdate ==
    ASSUME NEW e, NEW c, Fit(c), NEW k \in Refs, e \in Home[k.host],
           \A i \in DOMAIN c.queue : e \in Home[c.queue[i].ref.host]
    PROVE  LET q == srpl_queue_srp_client_update(c, k)
           IN  /\ q \in ConnectionType
               /\ q.state = c.state /\ SameFlags(q, c) /\ q.stash = c.stash
               /\ HeadSent(q) <=> HeadSent(c)
               /\ \A i \in DOMAIN q.queue : e \in Home[q.queue[i].ref.host]
<1> DEFINE S == [ref : Refs, sent : BOOLEAN]
           new == [ref |-> k, sent |-> FALSE]
           d == [c EXCEPT !.queue = Append(@, new)]
           q == srpl_queue_srp_client_update(c, k)
<1>1. q \in {c, d}
  BY DEF srpl_queue_srp_client_update
<1>2. c \in ConnectionType /\ c.queue \in Seq(S)
  BY DEF Fit, ConnectionType
<1>3. new \in S /\ ~new.sent /\ new.ref = k
  OBVIOUS
<1> HIDE DEF new, S
<1>4. /\ Append(c.queue, new) \in Seq(S) /\ Append(c.queue, new) # <<>>
      /\ c.queue # <<>> => Head(Append(c.queue, new)) = Head(c.queue)
      /\ c.queue = <<>> => Head(Append(c.queue, new)) = new
      /\ \A i \in DOMAIN Append(c.queue, new) :
           Append(c.queue, new)[i] = new \/ (i \in DOMAIN c.queue /\ Append(c.queue, new)[i] = c.queue[i])
  <2> DEFINE y == Append(c.queue, new)
  <2>1. /\ y \in Seq(S) /\ y # <<>> /\ Len(c.queue) \in Nat
        /\ DOMAIN c.queue = 1 .. Len(c.queue) /\ DOMAIN y = 1 .. (Len(c.queue) + 1)
        /\ \A i \in 1 .. Len(c.queue) : y[i] = c.queue[i]
        /\ y[Len(c.queue) + 1] = new /\ Head(y) = y[1]
    BY <1>2, <1>3
  <2>2. /\ c.queue # <<>> => Len(c.queue) > 0 /\ Head(c.queue) = c.queue[1]
        /\ c.queue = <<>> => Len(c.queue) = 0
    BY <1>2
  <2> HIDE DEF y
  <2>3. /\ c.queue # <<>> => Head(y) = Head(c.queue)
        /\ c.queue = <<>> => Head(y) = new
    BY <2>1, <2>2
  <2>4. \A i \in DOMAIN y : y[i] = new \/ (i \in DOMAIN c.queue /\ y[i] = c.queue[i])
    BY <2>1
  <2> QED BY <2>1, <2>3, <2>4 DEF y
<1>5. /\ d.queue = Append(c.queue, new) /\ SameFlags(d, c) /\ d.state = c.state /\ d.stash = c.stash
  BY <1>2 DEF ConnectionType, SameFlags
<1>6. d \in ConnectionType
  BY <1>2, <1>4 DEF ConnectionType, S
<1> HIDE DEF d, q
<1>7. \A i \in DOMAIN d.queue : e \in Home[d.queue[i].ref.host]
  BY <1>3, <1>4, <1>5
<1>8. HeadSent(d) <=> HeadSent(c)
  BY <1>3, <1>4, <1>5 DEF HeadSent
<1> QED BY <1>1, <1>2, <1>5, <1>6, <1>7, <1>8 DEF q, SameFlags

\* The connection hears that an update of a client has ended.
LEMMA ClientHeard ==
    ASSUME IInv, Settling, Up, NEW e \in E, NEW h \in Hosts, NEW rc, e \in Home[h],
           AllQuiet, ClientUpdateFinished(e, h, rc)
    PROVE  LET c == conn[e]  d == conn'[e]
           IN  /\ conn' = [conn EXCEPT ![e] = d] /\ QueueOK(e, d)
               /\ d.stash = c.stash /\ d.answered = c.answered
               /\ \/ d.state = c.state
                  \/ /\ c.state = "candidate_host_contention_wait"
                     /\ d.state = "candidate_host_re_evaluate"
                  \/ c.state = "ready" /\ d.state \in {"ready", "srp_client_update_send"}
<1> DEFINE c == conn[e]
           d == conn'[e]
           k == Here(e, h)
           q == IF rc = "noerror" /\ ~srpl_reschedule_candidate(c, k)
                THEN srpl_queue_srp_client_update(c, k) ELSE c
           b == IF c.state = "none" THEN c
                ELSE IF EndsContention(c, h) /\ rc = "noerror"
                     THEN To(q, "candidate_host_re_evaluate")
                ELSE IF c.state = "ready" THEN ToReady(q) ELSE q
<1>1. QueueOK(e, c) /\ Fit(c) /\ c \in ConnectionType
  BY ConnFacts DEF Settling, EndOK, IInv, Good, Fit
<1>2. k \in Refs /\ k.host = h
  BY DEF Here, Ref, Refs, IInv, HostOK, HostType
<1>3. conn' = [conn EXCEPT ![e] = b]
  BY DEF ClientUpdateFinished
<1> HIDE DEF k
<1>4. /\ q \in ConnectionType /\ q.state = c.state /\ SameFlags(q, c) /\ q.stash = c.stash
      /\ HeadSent(q) <=> HeadSent(c)
      /\ \A i \in DOMAIN q.queue : e \in Home[q.queue[i].ref.host]
  <2>1. \A i \in DOMAIN c.queue : e \in Home[c.queue[i].ref.host]
    BY <1>1 DEF QueueOK
  <2> DEFINE w == srpl_queue_srp_client_update(c, k)
  <2>2. /\ w \in ConnectionType /\ w.state = c.state /\ SameFlags(w, c) /\ w.stash = c.stash
        /\ HeadSent(w) <=> HeadSent(c)
        /\ \A i \in DOMAIN w.queue : e \in Home[w.queue[i].ref.host]
    BY <1>1, <1>2, <2>1, QueuedUpdate
  <2> HIDE DEF w
  <2>3. q = w \/ q = c
    BY DEF w
  <2>4. SameFlags(c, c)
    BY DEF SameFlags
  <2> HIDE DEF q
  <2> QED BY <1>1, <2>1, <2>2, <2>3, <2>4
<1> HIDE DEF q
<1>5. d = b /\ conn' = [conn EXCEPT ![e] = d]
  <2> HIDE DEF b
  <2> QED BY <1>3, ConnStep
<1>6. CASE b = c
  BY <1>1, <1>5, <1>6
<1>7. CASE b = q /\ c.state # "ready"
  BY <1>1, <1>4, <1>5, <1>7 DEF QueueOK, SameFlags
<1>8. CASE b = To(q, "candidate_host_re_evaluate") /\ c.state = "candidate_host_contention_wait"
  <2>1. b.state = "candidate_host_re_evaluate" /\ SameData(b, q) /\ SameFlags(b, q)
    <3> DEFINE y == To(q, "candidate_host_re_evaluate")
    <3>1. y.state = "candidate_host_re_evaluate" /\ SameData(y, q) /\ SameFlags(y, q)
      BY <1>4, ToData, StateNames
    <3> HIDE DEF b, y
    <3> QED BY <1>8, <3>1 DEF y
  <2> HIDE DEF b
  <2>2. HeadSent(b) <=> HeadSent(q)
    BY <2>1 DEF HeadSent, SameData
  <2>3. ~HeadSent(b)
    BY <1>1, <1>4, <1>8, <2>2 DEF QueueOK, ReadyStates
  <2>4. QueueOK(e, b)
    BY <1>4, <2>1, <2>3 DEF QueueOK, SameData
  <2> QED BY <1>4, <1>5, <1>8, <2>1, <2>4 DEF SameFlags, SameData
<1>9. CASE b = ToReady(q) /\ c.state = "ready"
  <2>1. b.queue = q.queue /\ b.stash = q.stash /\ SameFlags(b, q) /\ b.state = ToReady(q).state
    BY <1>4, <1>9 DEF ToReady, To, ConnectionType, SameFlags
  <2>2. HeadSent(q) => b.outstanding
    BY <1>1, <1>4, <1>9, <2>1 DEF QueueOK, SameFlags
  <2> HIDE DEF b
  <2>3. QueueOK(e, b) /\ b.state \in {"ready", "srp_client_update_send"}
    BY <1>4, <2>1, <2>2, ToReadyQueue
  <2> QED BY <1>4, <1>5, <1>9, <2>1, <2>3 DEF SameFlags
<1>10. b = c \/ (b = q /\ c.state # "ready")
       \/ (b = To(q, "candidate_host_re_evaluate") /\ c.state = "candidate_host_contention_wait")
       \/ (b = ToReady(q) /\ c.state = "ready")
  BY DEF EndsContention
<1> HIDE DEF b
<1> QED BY <1>6, <1>7, <1>8, <1>9, <1>10

\* An update of a client ends.
LEMMA ClientEnds ==
    ASSUME Undisturbed, IInv, Conversation, Settling, Up, NEW e \in E, NEW h \in Hosts, NEW v, NEW g,
           NEW rc \in Rcodes, Ends(e, h, v, g), host[e][h].update.src = "client",
           DeliverResult(e, h, rc)
    PROVE  Settling'
<1> DEFINE r == host[e][h]
           p == Peer(e)
           c == conn[e]
           d == conn'[e]
<1>1. /\ host'[p] = host[p] /\ host'[e][h] = v
      /\ \A x \in Hosts : x # h => host'[e][x] = host[e][x]
      /\ fin'[p] = fin[p] /\ fin'[e] = g
      /\ EndOK(e, c, host[e], NoFin, async[e]) /\ RecordOK(e, h, r, NoFin)
      /\ \A x \in Hosts : x # h => InProgressKept(x, host[e][x], NoFin, host'[e][x], g)
      /\ \A x \in Hosts : x # h => (Started(x, host'[e][x], g) <=> Started(x, host[e][x], NoFin))
      /\ Queued(v) = Queued(r) /\ ~Started(h, v, g) /\ ~Started(h, r, NoFin)
      /\ \A x \in Hosts : RecordOK(e, x, host'[e][x], g)
  BY EndsFacts
<1>2. AllQuiet /\ UNCHANGED <<async, link>> /\ g.host = h
  BY DEF Ends
<1>3. e \in Home[h]
  BY <1>1 DEF RecordOK, Ends
<1>4. ClientUpdateFinished(e, h, rc) /\ UNCHANGED net
  BY DEF DeliverResult
<1>5. /\ conn' = [conn EXCEPT ![e] = d] /\ QueueOK(e, d)
      /\ d.stash = c.stash /\ d.answered = c.answered
      /\ \/ d.state = c.state
         \/ /\ c.state = "candidate_host_contention_wait"
            /\ d.state = "candidate_host_re_evaluate"
         \/ c.state = "ready" /\ d.state \in {"ready", "srp_client_update_send"}
  BY <1>2, <1>3, <1>4, ClientHeard
<1>6. InProgressKept(h, r, NoFin, v, g)
  BY <1>1 DEF InProgressKept, Untouching, AtMostOneIn
<1>7. \A x \in Hosts : InProgressKept(x, host[e][x], NoFin, host'[e][x], g)
  BY <1>1, <1>6
<1>8. \A x \in Hosts : e \notin Home[x] /\ Started(x, host[e][x], NoFin) => Started(x, host'[e][x], g)
  BY <1>1, <1>3
<1>9. (Expecting(d) <=> Expecting(c)) /\ (d.state \in Resting => c.state \in Resting)
  BY <1>5 DEF Expecting, Resting
<1>10. EventOK(d, host'[e], g, async[e])
  BY <1>1, <1>5, <1>7, <1>8, <1>9, DeferralsSame, EventsKept
<1>11. StashOK(e, d, g)
  BY <1>1, <1>2, <1>3, <1>5 DEF EndOK, StashOK, ReadyStates, Handling
<1>12. EndOK(e, d, host'[e], fin'[e], async'[e])
  BY <1>1, <1>2, <1>5, <1>10, <1>11 DEF EndOK
<1>13. Homed(p, conn[p].state, net'[e]) /\ Homed(e, d.state, net'[p])
  <2>1. Homed(p, conn[p].state, net[e]) /\ Homed(e, c.state, net[p])
    BY PeerFacts DEF Settling
  <2> QED BY <1>4, <1>5, <2>1 DEF Homed, ReadyStates
<1>14. d.state = c.state \/ c.state \notin Down
  BY <1>5 DEF Down
<1>15. async'[p] = async[p]
  BY <1>2
<1> QED BY <1>1, <1>2, <1>5, <1>12, <1>13, <1>14, <1>15, EndSteps

LEMMA ResultsSettle ==
    ASSUME Undisturbed, IInv, Conversation, Settling, Up, NEW e \in E, NEW h \in Hosts,
           update_finished(e, h) \/ update_failed(e, h)
    PROVE  Settling'
<1> DEFINE r == host[e][h]
<1>0. r \in HostType
  BY DEF IInv, HostOK
<1>1. CASE update_finished(e, h)
  <2> DEFINE v == TakeMessage(r)
             g == [host |-> h, src |-> r.update.src, failed |-> FALSE]
  <2>1. /\ v.update = r.update /\ v.clients = r.clients /\ v.srpl = r.srpl /\ v.st = r.st
    BY <1>0 DEF TakeMessage, HostType
  <2>2. Ends(e, h, v, g) /\ DeliverResult(e, h, "noerror")
    <3> HIDE DEF v
    <3>1. host' = [host EXCEPT ![e][h] = v]
      BY <1>1 DEF update_finished, v
    <3> QED BY <1>1, <2>1, <3>1 DEF Ends, update_finished, Updating
  <2>3. "noerror" \in Rcodes
    BY DEF Rcodes
  <2> HIDE DEF v, g
  <2> QED BY <2>2, <2>3, ForeignEnds, ClientEnds
<1>2. CASE update_failed(e, h)
  <2> DEFINE v == [r EXCEPT !.update = NoUpdate]
             g == [host |-> h, src |-> r.update.src, failed |-> TRUE]
  <2>1. /\ v.update = NoUpdate /\ v.clients = r.clients /\ v.srpl = r.srpl /\ v.st = r.st
    BY <1>0 DEF HostType
  <2>2. Ends(e, h, v, g) /\ DeliverResult(e, h, "servfail")
    <3>1. host' = [host EXCEPT ![e][h] = v]
      BY <1>2 DEF update_failed
    <3> HIDE DEF v
    <3> QED BY <1>2, <2>1, <3>1 DEF Ends, update_failed, Updating
  <2>3. "servfail" \in Rcodes
    BY DEF Rcodes
  <2> HIDE DEF v, g
  <2> QED BY <2>2, <2>3, ForeignEnds, ClientEnds
<1> QED BY <1>1, <1>2

-----------------------------------------------------------------------------
(* An end that gives the session up stays that way until it is closed.     *)

\* The actions of one end leave the connection of the other alone.
LEMMA PeerUntouched ==
    ASSUME IInv, NEW e \in E, NEW x \in E, x # e,
           \/ Run(e) \/ srpl_disconnect(e)
           \/ \E h \in Hosts : \/ ClientUpdate(e, h) \/ ClientRemove(e, h) \/ lease_callback(e, h)
                               \/ OtherUpdate(e, h) \/ update_failed(e, h)
    PROVE  conn'[x] = conn[x]
<1>0. conn \in [E -> ConnectionType]
  BY DEF IInv, ConnOK
<1>1. \A b : [conn EXCEPT ![e] = b][x] = conn[x]
  BY <1>0
<1>2. \A m, b : SendRequest(e, m, b) => conn'[x] = conn[x]
  BY <1>0 DEF SendRequest
<1>3. \A y, v, b : SendResponse(e, y, v, b) => conn'[x] = conn[x]
  BY <1>0 DEF SendResponse
<1>4. \A h, rc : AdvertiseFinished(e, h, rc) => conn'[x] = conn[x]
  BY <1>0, <1>3 DEF AdvertiseFinished
<1>5. \A h, rc : ClientUpdateFinished(e, h, rc) => conn'[x] = conn[x]
  BY <1>0 DEF ClientUpdateFinished
<1>6. \A h, rc : DeliverResult(e, h, rc) => conn'[x] = conn[x]
  BY <1>4, <1>5 DEF DeliverResult
<1>7. \A s : \/ ApplyStarts(e, s) \/ ApplyRetransmission(e, s) \/ ApplyFinishesAtOnce(e, s)
             \/ ApplyIgnored(e, s) \/ ApplyRejected(e, s) \/ ApplyConflict(e)
             => conn'[x] = conn[x]
  BY <1>0, <1>3 DEF ApplyStarts, ApplyRetransmission, ApplyFinishesAtOnce, ApplyIgnored,
                    ApplyRejected, ApplyConflict
<1>8. CASE \/ srpl_disconnect_action(e) \/ srpl_disconnect_wait_action(e) \/ NoticeLoss(e)
           \/ srpl_dso_retry_delay(e) \/ srpl_send_candidates_send_action(e)
           \/ SendCandidatesResponse(e) \/ CandidateReceived(e) \/ srpl_candidate_check_action(e)
  BY <1>0, <1>2, <1>3, <1>8
     DEF srpl_disconnect_action, srpl_disconnect_wait_action, NoticeLoss, srpl_dso_retry_delay,
         srpl_send_candidates_send_action, SendCandidatesResponse, CandidateReceived,
         srpl_candidate_check_action
<1>9. CASE \/ CandidateHostReceived(e) \/ srpl_candidate_host_prepare_action(e)
           \/ srpl_candidate_host_re_evaluate_action(e) \/ srpl_candidate_host_apply_action(e)
           \/ SendCandidatesReceived(e) \/ srpl_send_candidates_received_action(e)
           \/ srpl_candidates_remaining_check_action(e) \/ srpl_next_candidate_send_action(e)
  BY <1>0, <1>2, <1>3, <1>7, <1>9
     DEF CandidateHostReceived, srpl_candidate_host_prepare_action,
         srpl_candidate_host_re_evaluate_action, srpl_candidate_host_apply_action,
         SendCandidatesReceived, srpl_send_candidates_received_action,
         srpl_candidates_remaining_check_action, srpl_next_candidate_send_action
<1>10. CASE \/ srpl_next_candidate_send_wait_action(e) \/ srpl_candidate_host_send_action(e)
            \/ srpl_candidate_host_response_wait_action(e)
            \/ srpl_send_candidates_response_send_action(e) \/ ReadyHostReceived(e)
            \/ srpl_stashed_host_check_action(e) \/ srpl_stashed_host_apply_action(e)
            \/ srpl_stashed_host_finished_action(e) \/ UnmatchedResponse(e)
  BY <1>0, <1>2, <1>3, <1>7, <1>10
     DEF srpl_next_candidate_send_wait_action, srpl_candidate_host_send_action,
         srpl_candidate_host_response_wait_action, srpl_send_candidates_response_send_action,
         ReadyHostReceived, DropState, srpl_stashed_host_check_action,
         srpl_stashed_host_apply_action, srpl_stashed_host_finished_action, UnmatchedResponse
<1>11. CASE \/ ReadyHostResponse(e) \/ srpl_srp_client_ack_evaluate_action(e)
            \/ srpl_srp_client_update_send_action(e) \/ (\E h \in Hosts : update_finished(e, h))
            \/ Settle(e) \/ RunNextUpdate(e) \/ RunDeferred(e)
  BY <1>0, <1>2, <1>4, <1>6, <1>11
     DEF ReadyHostResponse, srpl_srp_client_ack_evaluate_action, srpl_srp_client_update_send_action,
         update_finished, Settle, RunNextUpdate, RunDeferred
<1>12. CASE \/ srpl_disconnect(e)
            \/ \E h \in Hosts : \/ ClientUpdate(e, h) \/ ClientRemove(e, h) \/ lease_callback(e, h)
                                \/ OtherUpdate(e, h) \/ update_failed(e, h)
  BY <1>0, <1>6, <1>12 DEF srpl_disconnect, ClientUpdate, ClientRemove, lease_callback, OtherUpdate,
                           update_failed
<1> QED BY <1>8, <1>9, <1>10, <1>11, <1>12 DEF Run

\* The result of an update does not bring a closing connection back.
LEMMA ResultLeavesClosing ==
    ASSUME IInv, NEW e \in E, NEW h \in Hosts, NEW rc, conn[e].state = "disconnect_wait"
    PROVE  /\ AdvertiseFinished(e, h, rc) => conn'[e].state = "disconnect_wait"
           /\ DeliverResult(e, h, rc) => conn'[e].state = "disconnect_wait"
<1> DEFINE c == conn[e]
           k == Here(e, h)
           w == srpl_queue_srp_client_update(c, k)
<1>1. AdvertiseFinished(e, h, rc) => conn' = conn
  BY DEF AdvertiseFinished, EndsContention
<1>2. w.state = c.state
  <2>1. k \in Refs
    BY DEF Here, Ref, Refs, IInv, HostOK, HostType
  <2>2. Fit(c)
    BY ConnFacts DEF IInv, Good
  <2> QED BY <2>1, <2>2, QueuedFields
<1>3. ASSUME ClientUpdateFinished(e, h, rc) PROVE conn'[e].state = "disconnect_wait"
  <2>1. conn' = [conn EXCEPT ![e] = w] \/ conn' = [conn EXCEPT ![e] = c]
    BY <1>3 DEF ClientUpdateFinished, EndsContention
  <2> HIDE DEF w
  <2> QED BY <1>2, <2>1, ConnStep
<1> QED BY <1>1, <1>3 DEF DeliverResult

LEMMA ClosingStays ==
    ASSUME IInv, NEW e \in E, conn[e].state \in Closing, link, link',
           \/ Run(e) \/ srpl_disconnect(e)
           \/ \E h \in Hosts : \/ ClientUpdate(e, h) \/ ClientRemove(e, h) \/ lease_callback(e, h)
                               \/ OtherUpdate(e, h) \/ update_failed(e, h)
    PROVE  conn'[e].state \in Closing
<1> DEFINE c == conn[e]
<1>0. conn \in [E -> ConnectionType] /\ c \in ConnectionType
  BY DEF IInv, ConnOK
<1>1. AllQuiet => c.state = "disconnect_wait"
  BY DEF AllQuiet, Quiet, Closing, Transient
<1>2. CASE srpl_disconnect_action(e)
  <2> DEFINE g == srpl_connection_attachments_free(c)
             b == To(g, "disconnect_wait")
  <2>1. b.state = "disconnect_wait"
    BY <1>0 DEF To, srpl_connection_attachments_free, ConnectionType
  <2>2. conn' = [conn EXCEPT ![e] = b]
    BY <1>2 DEF srpl_disconnect_action
  <2> HIDE DEF b
  <2> QED BY <2>1, <2>2, ConnStep DEF Closing
<1>3. CASE \E h \in Hosts : update_finished(e, h) \/ update_failed(e, h)
  <2>1. PICK h \in Hosts : update_finished(e, h) \/ update_failed(e, h)
    BY <1>3
  <2>2. AllQuiet /\ (DeliverResult(e, h, "noerror") \/ DeliverResult(e, h, "servfail"))
    BY <2>1 DEF update_finished, update_failed
  <2> QED BY <1>1, <2>2, ResultLeavesClosing DEF Closing
<1>4. CASE RunDeferred(e)
  <2>1. AllQuiet /\ async[e] # <<>> /\ AdvertiseFinished(e, Head(async[e]).host, Head(async[e]).rcode)
    BY <1>4 DEF RunDeferred
  <2>2. Head(async[e]).host \in Hosts
    <3>1. async[e] \in Seq(CallbackType)
      BY DEF IInv, AsyncOK
    <3>2. Head(async[e]) \in CallbackType
      BY <2>1, <3>1
    <3> QED BY <3>2 DEF CallbackType
  <2> QED BY <1>1, <2>1, <2>2, ResultLeavesClosing DEF Closing
<1>5. CASE \/ Settle(e) \/ RunNextUpdate(e) \/ UnmatchedResponse(e)
           \/ \E h \in Hosts : \/ ClientUpdate(e, h) \/ ClientRemove(e, h) \/ lease_callback(e, h)
                               \/ OtherUpdate(e, h)
  BY <1>5 DEF Settle, RunNextUpdate, UnmatchedResponse, ClientUpdate, ClientRemove, lease_callback,
              OtherUpdate
<1>6. CASE srpl_disconnect_wait_action(e) \/ NoticeLoss(e) \/ srpl_dso_retry_delay(e) \/ srpl_disconnect(e)
  BY <1>1, <1>6 DEF srpl_disconnect_wait_action, NoticeLoss, srpl_dso_retry_delay, srpl_disconnect,
                    Receives
<1>7. CASE \/ srpl_send_candidates_send_action(e) \/ SendCandidatesResponse(e) \/ CandidateReceived(e)
           \/ srpl_candidate_check_action(e) \/ CandidateHostReceived(e)
           \/ srpl_candidate_host_prepare_action(e) \/ srpl_candidate_host_re_evaluate_action(e)
           \/ srpl_candidate_host_apply_action(e) \/ SendCandidatesReceived(e)
           \/ srpl_send_candidates_received_action(e) \/ srpl_candidates_remaining_check_action(e)
           \/ srpl_next_candidate_send_action(e) \/ srpl_next_candidate_send_wait_action(e)
           \/ srpl_candidate_host_send_action(e) \/ srpl_candidate_host_response_wait_action(e)
           \/ srpl_send_candidates_response_send_action(e) \/ ReadyHostReceived(e)
           \/ srpl_stashed_host_check_action(e) \/ srpl_stashed_host_apply_action(e)
           \/ srpl_stashed_host_finished_action(e) \/ ReadyHostResponse(e)
           \/ srpl_srp_client_ack_evaluate_action(e) \/ srpl_srp_client_update_send_action(e)
  <2>1. c.state \notin Closing
    BY <1>7, Zenon
       DEF srpl_send_candidates_send_action, SendCandidatesResponse, CandidateReceived,
           srpl_candidate_check_action, CandidateHostReceived, srpl_candidate_host_prepare_action,
           srpl_candidate_host_re_evaluate_action, srpl_candidate_host_apply_action,
           SendCandidatesReceived, srpl_send_candidates_received_action,
           srpl_candidates_remaining_check_action, srpl_next_candidate_send_action,
           srpl_next_candidate_send_wait_action, srpl_candidate_host_send_action,
           srpl_candidate_host_response_wait_action, srpl_send_candidates_response_send_action,
           ReadyHostReceived, srpl_stashed_host_check_action, srpl_stashed_host_apply_action,
           srpl_stashed_host_finished_action, ReadyHostResponse, srpl_srp_client_ack_evaluate_action,
           srpl_srp_client_update_send_action, Closing
  <2> QED BY <2>1
<1> QED BY <1>2, <1>3, <1>4, <1>5, <1>6, <1>7 DEF Run

LEMMA ClosedStays ==
    ASSUME IInv, Settling, ~Up, [Next]_vars, link => link'
    PROVE  Settling'
<1>1. PICK x \in E : conn[x].state \in Closing
  BY DEF Up
<1>2. link /\ link'
  BY <1>1, LinkUp DEF Closing, Down
<1>3. conn'[x].state \in Closing
  <2>1. CASE UNCHANGED vars
    BY <1>1, <2>1 DEF vars
  <2>2. CASE Establish \/ LoseConnection
    BY <1>2, <2>2 DEF Establish, LoseConnection
  <2>3. ASSUME NEW e \in E,
               \/ Run(e) \/ srpl_disconnect(e)
               \/ \E h \in Hosts : \/ ClientUpdate(e, h) \/ ClientRemove(e, h) \/ lease_callback(e, h)
                                   \/ OtherUpdate(e, h) \/ update_failed(e, h)
        PROVE  conn'[x].state \in Closing
    <3>1. CASE x = e
      BY <1>1, <1>2, <2>3, <3>1, ClosingStays
    <3>2. CASE x # e
      <4>1. conn'[x] = conn[x]
        BY <2>3, <3>2, PeerUntouched
      <4> QED BY <1>1, <4>1
    <3> QED BY <3>1, <3>2
  <2> QED BY <2>1, <2>2, <2>3 DEF Next, Environment
<1> QED BY <1>2, <1>3, ClosedSettles DEF Up

-----------------------------------------------------------------------------
(* Every step.                                                             *)

LEMMA EstablishSettles ==
    ASSUME IInv, Settling, Establish
    PROVE  Settling'
<1> DEFINE c == conn["cl"]
           b == [To(c, "send_candidates_send") EXCEPT !.outstanding = FALSE]
           d == Connection("send_candidates_message_wait")
<1>1. /\ ~link /\ link' = TRUE /\ c.state = "idle" /\ conn["sv"].state = "none"
      /\ conn' = [conn EXCEPT !["cl"] = b, !["sv"] = d] /\ UNCHANGED <<host, async, fin>>
  BY DEF Establish
<1>2. "cl" \in E /\ "sv" \in E /\ E = {"cl", "sv"} /\ c \in ConnectionType
  BY DEF E, IInv, ConnOK
<1>3. Up
  BY <1>1, <1>2 DEF Up, Closing
<1>4. conn'["cl"] = b /\ conn'["sv"] = d
  BY <1>1, <1>2 DEF IInv, ConnOK
<1>5. b.state = "send_candidates_send" /\ b.queue = c.queue
  BY <1>2 DEF To, ConnectionType
<1>6. d.state = "send_candidates_message_wait" /\ d.queue = <<>>
  BY DEF Connection
<1> HIDE DEF b, d
<1>7. EndOK("cl", c, host["cl"], fin["cl"], async["cl"])
      /\ EndOK("sv", conn["sv"], host["sv"], fin["sv"], async["sv"])
  BY <1>2, <1>3 DEF Settling
<1>8. EndOK("cl", b, host["cl"], fin["cl"], async["cl"])
  BY <1>1, <1>5, <1>7, MovesOK DEF ReadyStates, Handling
<1>9. EndOK("sv", d, host["sv"], fin["sv"], async["sv"])
  <2>1. QueueOK("sv", d)
    <3>1. DOMAIN <<>> = {}
      OBVIOUS
    <3> QED BY <1>6, <3>1 DEF QueueOK, HeadSent
  <2>2. StashOK("sv", d, fin["sv"])
    BY <1>6 DEF StashOK, ReadyStates, Handling
  <2>3. ~Expecting(d) /\ ~Expecting(conn["sv"])
    BY <1>1, <1>6 DEF Expecting, Resting
  <2>4. EventOK(d, host["sv"], fin["sv"], async["sv"])
    BY <1>6, <1>7, <2>3 DEF EndOK, EventOK, Resting
  <2> QED BY <1>7, <2>1, <2>2, <2>4 DEF EndOK
<1>10. \A y : Homed("cl", b.state, y) /\ Homed("sv", d.state, y)
  BY <1>5, <1>6 DEF Homed, ReadyStates
<1> QED BY <1>1, <1>2, <1>4, <1>8, <1>9, <1>10 DEF Settling

LEMMA ClosesSettles ==
    ASSUME Undisturbed, IInv, Conversation, Settling, Up, NEW e \in E, link => link',
           \/ srpl_disconnect_action(e) \/ srpl_disconnect_wait_action(e) \/ NoticeLoss(e)
           \/ srpl_dso_retry_delay(e) \/ srpl_disconnect(e)
    PROVE  Settling'
<1>1. conn[e].state \notin Closing
  BY DEF Up
<1>2. ~Use("bad", MaxBad)
  BY DEF Use, Undisturbed, IInv, RestOK, Faults
<1>3. CASE NoticeLoss(e)
  BY <1>3 DEF NoticeLoss, Settling, E
<1>4. CASE srpl_dso_retry_delay(e)
  <2> DEFINE b == srpl_connection_discontinue(conn[e])
  <2>1. conn' = [conn EXCEPT ![e] = b] /\ net[e] # <<>> /\ link' = link
    BY <1>4 DEF srpl_dso_retry_delay, Receives
  <2>2. conn[e].state \notin Down
    <3>1. StreamOK(e, conn[e], net[e])
      BY Before DEF View
    <3> QED BY <2>1, <3>1 DEF StreamOK
  <2>3. b.state = "disconnect"
    <3>1. conn[e] \in ConnectionType
      BY DEF IInv, ConnOK
    <3> QED BY <3>1 DEF srpl_connection_discontinue, srpl_connection_attachments_free, To, ConnectionType
  <2> HIDE DEF b
  <2>4. conn'[e].state = "disconnect"
    BY <2>1, <2>3, ConnStep
  <2> QED BY <2>1, <2>2, <2>4, LinkUp, ClosedSettles DEF Up, Closing
<1> QED BY <1>1, <1>2, <1>3, <1>4 DEF srpl_disconnect_action, srpl_disconnect_wait_action,
           srpl_disconnect, Closing

LEMMA RunSettles ==
    ASSUME Undisturbed, IInv, Conversation, Settling, Up, NEW e \in E, Run(e), link => link'
    PROVE  Settling'
<1>1. CASE \/ srpl_disconnect_action(e) \/ srpl_disconnect_wait_action(e) \/ NoticeLoss(e)
           \/ srpl_dso_retry_delay(e)
  BY <1>1, ClosesSettles
<1>2. CASE \/ srpl_send_candidates_send_action(e)
           \/ CandidateReceived(e) \/ srpl_candidate_check_action(e)
           \/ CandidateHostReceived(e) \/ srpl_candidate_host_prepare_action(e)
           \/ srpl_candidate_host_re_evaluate_action(e)
           \/ SendCandidatesReceived(e) \/ srpl_send_candidates_received_action(e)
           \/ srpl_candidates_remaining_check_action(e)
           \/ srpl_next_candidate_send_action(e) \/ srpl_next_candidate_send_wait_action(e)
           \/ srpl_candidate_host_send_action(e) \/ srpl_candidate_host_response_wait_action(e)
  BY <1>2, CandidatesSettle
<1>3. CASE SendCandidatesResponse(e) \/ srpl_send_candidates_response_send_action(e)
  <2>1. e = "cl" \/ e = "sv"
    BY DEF E
  <2> QED BY <1>3, <2>1, CandidatesSettle, EntersReady
<1>4. CASE srpl_candidate_host_apply_action(e) \/ srpl_stashed_host_apply_action(e)
  BY <1>4, ApplyActionsSettle
<1>5. CASE ReadyHostReceived(e) \/ srpl_stashed_host_check_action(e)
  BY <1>5, HostArrives, HostChecked
<1>6. CASE srpl_stashed_host_finished_action(e) \/ UnmatchedResponse(e) \/ ReadyHostResponse(e)
  BY <1>6, HostFinished, NothingHeard, ResponseArrives
<1>7. CASE srpl_srp_client_ack_evaluate_action(e) \/ srpl_srp_client_update_send_action(e)
  BY <1>7, Acknowledged, UpdateSent
<1>8. CASE \E h \in Hosts : update_finished(e, h)
  BY <1>8, ResultsSettle
<1>9. CASE Settle(e) \/ RunNextUpdate(e) \/ RunDeferred(e)
  BY <1>9, SettleSettles, NextUpdateSettles, DeferredSettles
<1> QED BY <1>1, <1>2, <1>3, <1>4, <1>5, <1>6, <1>7, <1>8, <1>9 DEF Run

LEMMA NextSettles ==
    ASSUME Undisturbed, IInv, Conversation, Settling, [Next]_vars, link => link'
    PROVE  Settling'
<1>1. CASE ~Up
  BY <1>1, ClosedStays
<1>2. CASE Up
  <2>1. CASE UNCHANGED vars
    BY <2>1 DEF vars, Settling, Up
  <2>2. CASE Establish
    BY <2>2, EstablishSettles
  <2>3. ASSUME NEW e \in E, Run(e) PROVE Settling'
    BY <1>2, <2>3, RunSettles
  <2>4. CASE LoseConnection
    BY <2>4 DEF LoseConnection
  <2>5. ASSUME NEW e \in E, srpl_disconnect(e) PROVE Settling'
    BY <1>2, <2>5, ClosesSettles
  <2>6. ASSUME NEW e \in E, NEW h \in Hosts,
               \/ ClientUpdate(e, h) \/ ClientRemove(e, h) \/ lease_callback(e, h)
               \/ OtherUpdate(e, h) \/ update_failed(e, h)
        PROVE  Settling'
    <3>1. ~OtherUpdate(e, h)
      BY DEF OtherUpdate, Use, Undisturbed, IInv, RestOK, Faults
    <3> QED BY <1>2, <2>6, <3>1, ClientUpdateSettles, RemovalSettles, ResultsSettle
  <2> QED BY <2>1, <2>2, <2>3, <2>4, <2>5, <2>6 DEF Next, Environment
<1> QED BY <1>1, <1>2

LEMMA InitSettles == Init => Settling
<1> SUFFICES ASSUME Init PROVE Settling
  OBVIOUS
<1>1. DOMAIN <<>> = {}
  OBVIOUS
<1>2. ASSUME NEW e \in E
      PROVE  /\ conn[e].state \in Down /\ conn[e].queue = <<>>
             /\ host[e] = [h \in Hosts |-> AbsentHost] /\ fin[e] = NoFin /\ async[e] = <<>>
  BY <1>2 DEF Init, Connection, Down
<1>3. conn["cl"].state = "idle" /\ conn["sv"].state = "none"
  BY DEF Init, E, Connection
<1>4. ASSUME NEW e \in E PROVE EndOK(e, conn[e], host[e], fin[e], async[e])
  <2>1. QueueOK(e, conn[e])
    BY <1>1, <1>2, <1>4 DEF QueueOK, HeadSent, Down
  <2>2. StashOK(e, conn[e], fin[e])
    BY <1>2, <1>4 DEF StashOK, ReadyStates, Handling, Down
  <2>3. /\ AbsentHost.update = NoUpdate /\ AbsentHost.clients = <<>> /\ AbsentHost.srpl = "none"
    BY DEF AbsentHost
  <2>4. \A h \in Hosts : host[e][h] = AbsentHost
    BY <1>2, <1>4
  <2>5. NoUpdate.src = "client" /\ \A h \in Hosts : NoFin.host # h
    BY NoHostFacts DEF NoUpdate
  <2>6. \A h \in Hosts : Untouching(h, host[e][h], fin[e])
    BY <2>3, <2>4, <2>5, EmptyForeign DEF Untouching, Started, Queued
  <2>7. Deferrals(async[e]) = {}
    BY <1>1, <1>2, <1>4 DEF Deferrals
  <2>8. ~Expecting(conn[e]) /\ conn[e].state \notin Resting
    BY <1>2, <1>4 DEF Expecting, Resting, Down
  <2>9. EventOK(conn[e], host[e], fin[e], async[e])
    BY <2>6, <2>7, <2>8 DEF EventOK, Idle
  <2>10. \A h \in Hosts : RecordOK(e, h, host[e][h], fin[e])
    BY <1>2, <1>4, <2>3, <2>4, <2>5 DEF RecordOK
  <2> QED BY <2>1, <2>2, <2>9, <2>10 DEF EndOK
<1>5. ASSUME NEW e \in E, NEW y PROVE Homed(e, conn[e].state, y)
  BY <1>2, <1>5 DEF Homed, ReadyStates, Down
<1> QED BY <1>3, <1>4, <1>5 DEF Settling

\* The queues of a session that has settled are empty.
LEMMA SettledDrained ==
    ASSUME IInv, Conversation, Settling
    PROVE  QueueDrained
<1> SUFFICES ASSUME Settled, NEW e \in E, conn[e].queue # <<>> PROVE FALSE
  BY DEF QueueDrained
<1> DEFINE p == Peer(e)
           c == conn[e]
           d == conn[p]
<1>1. /\ link /\ AllQuiet /\ c.state = "ready" /\ d.state = "ready" /\ net[e] = <<>> /\ net[p] = <<>>
      /\ async[p] = <<>> /\ p \in E
      /\ \A h \in Hosts : host[p][h].update = NoUpdate
  BY PeerFacts DEF Settled, Updating
<1>2. Up
  BY DEF Up, Settled, Closing
<1>3. EndOK(e, c, host[e], fin[e], async[e]) /\ EndOK(p, d, host[p], fin[p], async[p])
  BY <1>1, <1>2 DEF Settling
<1>4. c.outstanding
  BY <1>1, <1>3 DEF EndOK, QueueOK
<1>5. Together(e, c, d, net[e], net[p])
  BY <1>1, Before DEF View, Closing
<1>6. Ready(c, d, net[e], net[p])
  BY <1>1, <1>5 DEF Together, Asking, Turning, Finishing, Ready, Awaiting, ReadyStates, Offering, Applying
<1>7. ~d.answered
  <2>1. DOMAIN <<>> = {}
    OBVIOUS
  <2>2. \A k : ~Has(<<>>, k)
    BY <2>1 DEF Has
  <2> QED BY <1>1, <1>4, <1>6, <2>2 DEF Ready, Flow
<1>8. Deferrals(async[p]) = {}
  <2>1. DOMAIN <<>> = {}
    OBVIOUS
  <2> QED BY <1>1, <2>1 DEF Deferrals
<1>9. d.stash.name \in Hosts /\ Started(d.stash.name, host[p][d.stash.name], fin[p])
  BY <1>1, <1>3, <1>7, <1>8 DEF EndOK, EventOK, StashOK, Resting, ReadyStates
<1>10. host[p][d.stash.name].update.src = "client"
  BY <1>1, <1>9 DEF NoUpdate
<1> QED BY <1>9, <1>10 DEF Started

\* As long as the connection is not lost, every update that either end queued for the
\* other (srpl_queue_srp_client_update) has been sent and acknowledged when the session has
\* settled: of any number of hosts and updates, with any number of updates that fail, of
\* removals and of leases that run out.
THEOREM QueuesDrain ==
    ASSUME Undisturbed
    PROVE  Spec /\ Unbroken => []QueueDrained
<1>1. IInv /\ Conversation /\ Settling /\ [Next]_vars /\ [link => link']_vars => Settling'
  <2> SUFFICES ASSUME IInv, Conversation, Settling, [Next]_vars, [link => link']_vars PROVE Settling'
    OBVIOUS
  <2>1. link => link'
    BY DEF vars
  <2> QED BY <2>1, NextSettles
<1>2. IInv /\ Conversation /\ Settling => QueueDrained
  BY SettledDrained
<1> QED BY <1>1, <1>2, Inductive, ConversationHolds, InitSettles, PTL DEF Spec, Unbroken
=============================================================================
