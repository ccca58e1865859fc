--------------------------- MODULE SRPLSyncProofs ---------------------------
(***************************************************************************)
(* Proofs about SRPLSync: type correctness, the presence of every          *)
(* attachment a state action follows, and the discipline of the client     *)
(* update queue.                                                           *)
(***************************************************************************)
EXTENDS SRPLSync, SequenceTheorems, TLAPS

-----------------------------------------------------------------------------
(* One connection.                                                         *)

\* What holds of a connection whatever its state is.
Fit(c) == c \in ConnectionType /\ HeadOnly(c.queue)

\* A connection together with what its state needs.
Good(c) == Fit(c) /\ AttachedTo(c)

Plain == (Transient \cup Waiting)
           \ (NeedsCandidate \cup NeedsStash \cup NeedsCurrent \cup {"srp_client_update_send"})

\* A connection may move to a state that needs no attachment.
LEMMA ToPlain ==
    ASSUME NEW c, Fit(c), NEW s \in Plain
    PROVE  Good(To(c, s))
BY DEF Fit, Good, To, Plain, AttachedTo, ConnectionType, HeadOnly

\* srpl_ready_action leads to srp_client_update_send only when the queue has
\* an entry.
LEMMA ToReadyGood ==
    ASSUME NEW c, Fit(c)
    PROVE  Good(ToReady(c))
<1>1. ASSUME c.queue # <<>> PROVE Good(To(c, "srp_client_update_send"))
  BY <1>1 DEF Fit, Good, To, AttachedTo, ConnectionType, HeadOnly, NeedsCandidate, NeedsStash, NeedsCurrent, Transient
<1>2. Good(To(c, "ready"))
  <2>1. "ready" \in Plain
    BY DEF Plain, Waiting, NeedsCandidate, NeedsStash, NeedsCurrent
  <2> QED BY <2>1, ToPlain
<1> QED BY <1>1, <1>2 DEF ToReady

\* The fields no state depends on may change.
LEMMA FlagsGood ==
    ASSUME NEW c, Good(c), NEW b \in BOOLEAN
    PROVE  /\ Good([c EXCEPT !.outstanding = b])
           /\ Good([c EXCEPT !.answered = b])
           /\ Good([c EXCEPT !.synchronized = b])
           /\ Good([c EXCEPT !.not_generated = b])
BY ZenonT(60) DEF Fit, Good, AttachedTo, ConnectionType, HeadOnly

LEMMA FlagsFit ==
    ASSUME NEW c, Fit(c), NEW b \in BOOLEAN
    PROVE  /\ Fit([c EXCEPT !.outstanding = b])
           /\ Fit([c EXCEPT !.answered = b])
           /\ Fit([c EXCEPT !.synchronized = b])
           /\ Fit([c EXCEPT !.not_generated = b])
BY DEF Fit, ConnectionType, HeadOnly

LEMMA EmptyQueue == \A S : <<>> \in Seq(S) /\ HeadOnly(<<>>)
<1>1. DOMAIN <<>> = {}
  OBVIOUS
<1> QED BY <1>1, EmptySeq DEF HeadOnly

\* An empty queue is in order; so is what is left of one when its head goes.
LEMMA QueueFit ==
    ASSUME NEW c, Fit(c)
    PROVE  /\ Fit([c EXCEPT !.queue = <<>>])
           /\ c.queue # <<>> => Fit([c EXCEPT !.queue = Tail(@)])
<1> DEFINE Entry == [ref : Refs, sent : BOOLEAN]
<1>1. c \in ConnectionType /\ c.queue \in Seq(Entry) /\ HeadOnly(c.queue)
  BY DEF Fit, ConnectionType
<1>2. Fit([c EXCEPT !.queue = <<>>])
  BY <1>1, EmptyQueue DEF Fit, ConnectionType
<1>3. ASSUME c.queue # <<>> PROVE Fit([c EXCEPT !.queue = Tail(@)])
  <2>1. /\ Tail(c.queue) \in Seq(Entry)
        /\ Len(Tail(c.queue)) = Len(c.queue) - 1
        /\ \A i \in 1 .. Len(Tail(c.queue)) : Tail(c.queue)[i] = c.queue[i + 1]
    BY <1>1, <1>3, HeadTailProperties
  <2>2. HeadOnly(Tail(c.queue))
    BY <1>1, <2>1 DEF HeadOnly
  <2> QED BY <1>1, <2>1, <2>2 DEF Fit, ConnectionType
<1> QED BY <1>2, <1>3

\* srpl_queue_srp_client_update appends an entry that has not been sent.
LEMMA QueueUpdateFit ==
    ASSUME NEW c, Fit(c), NEW p \in Refs
    PROVE  Fit(srpl_queue_srp_client_update(c, p))
<1> DEFINE Entry == [ref : Refs, sent : BOOLEAN]
           new == [ref |-> p, sent |-> FALSE]
<1>1. c \in ConnectionType /\ c.queue \in Seq(Entry) /\ HeadOnly(c.queue)
  BY DEF Fit, ConnectionType
<1>2. new \in Entry
  OBVIOUS
<1>3. /\ Append(c.queue, new) \in Seq(Entry)
      /\ Len(Append(c.queue, new)) = Len(c.queue) + 1
      /\ \A i \in 1 .. Len(c.queue) : Append(c.queue, new)[i] = c.queue[i]
      /\ Append(c.queue, new)[Len(c.queue) + 1] = new
  BY <1>1, <1>2, AppendProperties
<1>4. HeadOnly(Append(c.queue, new))
  BY <1>1, <1>3 DEF HeadOnly
<1>5. Fit([c EXCEPT !.queue = Append(@, new)])
  BY <1>1, <1>3, <1>4 DEF Fit, ConnectionType
<1> QED BY <1>5 DEF srpl_queue_srp_client_update

\* Freeing the attachments.
LEMMA FreeFit ==
    ASSUME NEW c, Fit(c)
    PROVE  Fit(srpl_connection_attachments_free(c))
<1>1. NoCandidate \in [name : Names, time : Int, key : Nat]
  BY DEF NoCandidate, Names
<1> DEFINE d == [c EXCEPT !.queue = <<>>]
<1>2. Fit(d)
  BY QueueFit
<1>3. srpl_connection_attachments_free(c)
        = [d EXCEPT !.candidate = NoCandidate, !.candidates = {}, !.current = NoRef]
  BY DEF srpl_connection_attachments_free, Fit, ConnectionType
<1> HIDE DEF d
<1> QED BY <1>1, <1>2, <1>3 DEF Fit, ConnectionType

LEMMA MsgsFacts == MaxUpdates \in Nat /\ 0 \in Msgs /\ Msgs \subseteq Nat
<1>1. MaxUpdates \in Nat
  BY BoundsAssumption, Zenon
<1> QED BY <1>1 DEF Msgs

\* A new connection.
LEMMA ConnectionFit ==
    ASSUME NEW s \in Transient \cup Waiting
    PROVE  Fit(Connection(s))
<1>1. 0 \in Msgs
  BY MsgsFacts
<1> QED BY <1>1, EmptyQueue DEF Fit, ConnectionType, Connection, NoCandidate, NoStash, Names, Rcodes

-----------------------------------------------------------------------------
(* The invariant.                                                          *)

ConnOK == conn \in [E -> ConnectionType] /\ \A e \in E : Good(conn[e])
HostOK == host \in [E -> [Hosts -> HostType]]
AsyncOK == async \in [E -> Seq(CallbackType)]
FinOK == fin \in [E -> FinType]
NetOK == net \in [E -> Seq(MessageType)]
RestOK == link \in BOOLEAN /\ clock \in Msgs /\ used \in [Faults -> Nat]

IInv == ConnOK /\ HostOK /\ AsyncOK /\ FinOK /\ NetOK /\ RestOK

LEMMA ConnKeeps ==
    ASSUME ConnOK, NEW e \in E, NEW c, Good(c), conn' = [conn EXCEPT ![e] = c]
    PROVE  ConnOK'
BY DEF ConnOK, Good, Fit

LEMMA NetKeeps ==
    ASSUME NetOK, RestOK, NEW e \in E, NEW m \in MessageType, Transmit(e, m)
    PROVE  NetOK'
<1>1. Peer(e) \in E
  BY DEF Peer, E
<1>2. net[Peer(e)] \in Seq(MessageType) /\ Append(net[Peer(e)], m) \in Seq(MessageType)
  BY <1>1, AppendProperties DEF NetOK
<1> QED BY <1>1, <1>2 DEF NetOK, Transmit

LEMMA ConsumeKeeps ==
    ASSUME NetOK, NEW e \in E, net[e] # <<>>, Consume(e)
    PROVE  NetOK' /\ Head(net[e]) \in MessageType
<1>1. net[e] \in Seq(MessageType)
  BY DEF NetOK
<1>2. Head(net[e]) \in MessageType /\ Tail(net[e]) \in Seq(MessageType)
  BY <1>1, HeadTailProperties
<1> QED BY <1>2 DEF NetOK, Consume

LEMMA SendRequestKeeps ==
    ASSUME ConnOK, NetOK, RestOK, NEW e \in E, NEW m \in MessageType, NEW c, Good(c),
           SendRequest(e, m, c)
    PROVE  ConnOK' /\ NetOK'
<1>1. NetOK'
  BY NetKeeps DEF SendRequest
<1>2. Good([c EXCEPT !.outstanding = TRUE])
  BY FlagsGood
<1> QED BY <1>1, <1>2, ConnKeeps DEF SendRequest

Answers == Rcodes \cup {"none", "yes", "no", "conflict"}

LEMMA ResponseType ==
    ASSUME NEW type \in {"send_candidates_response", "candidate_response", "host_response",
                         "unmatched_response", "retry_delay"},
           NEW answer \in Answers
    PROVE  Response(type, answer) \in MessageType
BY DEF Response, MessageType, Answers

LEMMA SendResponseKeeps ==
    ASSUME ConnOK, NetOK, RestOK, NEW e \in E, NEW c, Good(c),
           NEW type \in {"send_candidates_response", "candidate_response", "host_response"},
           NEW answer \in Answers, SendResponse(e, type, answer, c)
    PROVE  ConnOK' /\ NetOK'
<1>1. Response(IF c.answered THEN "unmatched_response" ELSE type, answer) \in MessageType
  BY ResponseType
<1>2. NetOK'
  BY <1>1, NetKeeps DEF SendResponse
<1>3. Good([c EXCEPT !.answered = TRUE])
  BY FlagsGood
<1> QED BY <1>2, <1>3, ConnKeeps DEF SendResponse
-----------------------------------------------------------------------------
(* The host records.                                                       *)

LEMMA EmptyUpdate == NoUpdate \in Update
BY MsgsFacts DEF NoUpdate, Update, Sources

LEMMA GoneType ==
    ASSUME NEW r \in HostType, NEW st \in {"absent", "valid", "removed"}
    PROVE  Gone(r, st) \in HostType /\ AbsentHost \in HostType
<1>1. <<>> \in Seq(Update)
  BY EmptySeq
<1>2. AbsentHost \in HostType
  BY <1>1, MsgsFacts, EmptyUpdate DEF AbsentHost, HostType
<1>3. r.gen \in Nat
  BY DEF HostType
<1> QED BY <1>2, <1>3 DEF Gone, HostType

LEMMA NewHostType ==
    ASSUME NEW r \in HostType, NEW key \in Nat
    PROVE  NewHost(r, key) \in HostType
<1> DEFINE g == Gone(r, "valid")
<1>1. g \in HostType /\ r.gen + 1 \in Nat
  <2>1. g \in HostType
    BY GoneType
  <2>2. r.gen \in Nat
    BY DEF HostType
  <2> QED BY <2>1, <2>2
<1> HIDE DEF g
<1> QED BY <1>1 DEF NewHost, HostType, g

LEMMA PrepareType ==
    ASSUME NEW r \in HostType, r.clients # <<>>
    PROVE  prepare_update(r) \in HostType
<1>1. r.clients \in Seq(Update)
  BY DEF HostType
<1>2. Head(r.clients) \in Update /\ Tail(r.clients) \in Seq(Update)
  BY <1>1, HeadTailProperties
<1> QED BY <1>2 DEF prepare_update, HostType

LEMMA UpdateStartType ==
    ASSUME NEW r \in HostType, NEW u \in Update
    PROVE  srp_update_start(r, u) \in HostType
<1> DEFINE base == IF r.st = "valid" THEN r ELSE NewHost(r, KeyOf[u.msg])
           next == [base EXCEPT !.clients = Append(@, u),
                                !.srpl = IF u.src = "client" THEN @ ELSE u.src]
<1>1. KeyOf[u.msg] \in Nat
  <2>1. KeyOf \in [0 .. MaxUpdates -> Nat]
    BY BoundsAssumption, Zenon
  <2> QED BY <2>1 DEF Update, Msgs
<1>2. base \in HostType
  BY <1>1, NewHostType
<1> HIDE DEF base
<1>3. /\ Append(base.clients, u) \in Seq(Update)
      /\ Append(base.clients, u) # <<>>
  <2>1. base.clients \in Seq(Update)
    BY <1>2 DEF HostType
  <2>2. /\ Append(base.clients, u) \in Seq(Update)
        /\ Len(Append(base.clients, u)) = Len(base.clients) + 1
    BY <2>1, AppendProperties
  <2>3. Len(base.clients) \in Nat /\ Len(<<>>) = 0
    BY <2>1, LenProperties
  <2> QED BY <2>2, <2>3
<1>4. next \in HostType /\ next.clients # <<>>
  BY <1>2, <1>3 DEF HostType, Update, Sources
<1> HIDE DEF next
<1>5. prepare_update(next) \in HostType
  BY <1>4, PrepareType
<1> QED BY <1>4, <1>5 DEF srp_update_start, base, next

LEMMA SettleType ==
    ASSUME NEW r \in HostType, NEW src \in Sources, RestOK
    PROVE  /\ TakeMessage(r) \in HostType
           /\ ClearMark(r, src) \in HostType
           /\ SettleFinished(r) \in HostType
           /\ SettleFailed(r, src) \in HostType
<1>1. TakeMessage(r) \in HostType
  BY DEF TakeMessage, HostType, Update
<1>2. \A x \in Sources : ClearMark(r, x) \in HostType
  BY DEF ClearMark, HostType, Sources
<1>3. SettleFinished(r) \in HostType
  <2> DEFINE k == ClearMark(r, r.update.src)
  <2>1. k \in HostType
    BY <1>2 DEF HostType, Update
  <2>2. (IF r.update.time # 0 THEN r.update.time ELSE clock) \in Int
    BY MsgsFacts DEF HostType, Update, RestOK
  <2> HIDE DEF k
  <2> QED BY <2>1, <2>2, EmptyUpdate DEF SettleFinished, HostType, k
<1>4. SettleFailed(r, src) \in HostType
  BY <1>2, GoneType DEF SettleFailed
<1> QED BY <1>1, <1>2, <1>3, <1>4

LEMMA HostKeeps ==
    ASSUME HostOK, NEW e \in E, NEW h \in Hosts, NEW r \in HostType,
           host' = [host EXCEPT ![e][h] = r]
    PROVE  HostOK'
BY DEF HostOK
-----------------------------------------------------------------------------
(* Session establishment and loss.                                         *)

LEMMA PlainStates ==
    {"none", "idle", "disconnect", "disconnect_wait", "send_candidates_send",
     "send_candidates_wait", "candidate_host_apply_wait", "send_candidates_received",
     "send_candidates_remaining_check", "candidate_host_response_wait",
     "send_candidates_response_send", "send_candidates_message_wait", "ready",
     "srp_client_ack_evaluate", "stashed_host_finished"} \subseteq Plain
BY DEF Plain, Transient, Waiting, NeedsCandidate, NeedsStash, NeedsCurrent

LEMMA ConnectionGood ==
    ASSUME NEW s \in Plain
    PROVE  Good(Connection(s))
<1>1. s \in Transient \cup Waiting
  BY DEF Plain
<1>2. Connection(s).state = s
  BY DEF Connection
<1> QED BY <1>1, <1>2, ConnectionFit DEF Good, AttachedTo, Plain

LEMMA ConnFacts ==
    ASSUME ConnOK, NEW e \in E
    PROVE  conn[e] \in ConnectionType /\ Fit(conn[e]) /\ Good(conn[e])
BY DEF ConnOK, Good

\* What a step leaves alone keeps its part of the invariant.
LEMMA Untouched ==
    ASSUME IInv
    PROVE  /\ UNCHANGED conn => ConnOK'
           /\ UNCHANGED host => HostOK'
           /\ UNCHANGED async => AsyncOK'
           /\ UNCHANGED fin => FinOK'
           /\ UNCHANGED net => NetOK'
           /\ UNCHANGED <<link, clock, used>> => RestOK'
BY DEF IInv, ConnOK, HostOK, AsyncOK, FinOK, NetOK, RestOK

LEMMA UseKeeps ==
    ASSUME RestOK, NEW what \in Faults, NEW max, Use(what, max)
    PROVE  used' \in [Faults -> Nat]
<1>1. "all" \in Faults
  BY DEF Faults
<1>2. used \in [Faults -> Nat] /\ used[what] + 1 \in Nat /\ used["all"] + 1 \in Nat
  BY <1>1 DEF RestOK
<1> QED BY <1>1, <1>2 DEF Use

LEMMA DisconnectedGood ==
    ASSUME NEW e \in E, NEW c, Fit(c)
    PROVE  Good(srpl_disconnected_callback(e, c))
BY ToPlain, ConnectionGood, PlainStates DEF srpl_disconnected_callback

LEMMA DiscontinueGood ==
    ASSUME NEW c, Fit(c)
    PROVE  Good(srpl_connection_discontinue(c))
<1>1. Fit([srpl_connection_attachments_free(c) EXCEPT !.not_generated = TRUE])
  BY FreeFit, FlagsFit
<1> QED BY <1>1, ToPlain, PlainStates DEF srpl_connection_discontinue

LEMMA EmptyNet == NetOK => \A e \in E : [net EXCEPT ![e] = <<>>] \in [E -> Seq(MessageType)]
BY EmptySeq DEF NetOK

\* Taking the head of one stream while a retry delay may go out on the other.
LEMMA RetryDelayKeeps ==
    ASSUME NetOK, NEW e \in E, net[e] # <<>>,
           \/ net' = [net EXCEPT ![e] = Tail(@)]
           \/ net' = [net EXCEPT ![e] = Tail(@),
                                 ![Peer(e)] = Append(@, Response("retry_delay", "none"))]
           \/ net' = [net EXCEPT ![e] = Tail(@),
                                 ![Peer(e)] = IF e = "sv" /\ link
                                              THEN Append(@, Response("retry_delay", "none")) ELSE @]
    PROVE  NetOK'
<1> DEFINE m == Response("retry_delay", "none")
<1>1. m \in MessageType
  BY ResponseType DEF Answers
<1>2. Peer(e) \in E /\ Peer(e) # e
  BY DEF Peer, E
<1>3. /\ Tail(net[e]) \in Seq(MessageType)
      /\ Append(net[Peer(e)], m) \in Seq(MessageType)
      /\ net[Peer(e)] \in Seq(MessageType)
  BY <1>1, <1>2, HeadTailProperties, AppendProperties DEF NetOK
<1> HIDE DEF m
<1> QED BY <1>2, <1>3 DEF NetOK, m

LEMMA LossKeeps ==
    ASSUME IInv, NEW e \in E,
           \/ NoticeLoss(e) \/ srpl_disconnect_action(e) \/ srpl_disconnect_wait_action(e)
           \/ srpl_disconnect(e) \/ srpl_dso_retry_delay(e)
    PROVE  IInv'
<1>0. ConnOK /\ NetOK /\ RestOK /\ Fit(conn[e])
  BY ConnFacts DEF IInv
<1>1. CASE NoticeLoss(e)
  <2>1. ConnOK'
    BY <1>0, <1>1, DisconnectedGood, ConnKeeps DEF NoticeLoss
  <2> QED BY <1>1, <2>1, Untouched DEF NoticeLoss, IInv
<1>2. CASE srpl_disconnect_action(e)
  <2>1. Good(To(srpl_connection_attachments_free(conn[e]), "disconnect_wait"))
    BY <1>0, FreeFit, ToPlain, PlainStates
  <2>2. ConnOK'
    BY <1>0, <1>2, <2>1, ConnKeeps DEF srpl_disconnect_action
  <2> QED BY <1>2, <2>2, Untouched DEF srpl_disconnect_action, IInv
<1>3. CASE srpl_disconnect_wait_action(e)
  <2>1. ConnOK'
    BY <1>0, <1>3, DisconnectedGood, ConnKeeps DEF srpl_disconnect_wait_action
  <2>2. NetOK'
    BY <1>0, <1>3, EmptyNet DEF srpl_disconnect_wait_action, NetOK
  <2>3. RestOK'
    BY <1>0, <1>3 DEF srpl_disconnect_wait_action, RestOK
  <2> QED BY <1>3, <2>1, <2>2, <2>3, Untouched DEF srpl_disconnect_wait_action, IInv
<1>4. CASE srpl_disconnect(e)
  <2>1. ConnOK'
    BY <1>0, <1>4, DiscontinueGood, ConnKeeps DEF srpl_disconnect
  <2>2. NetOK'
    BY <1>0, <1>4, RetryDelayKeeps DEF srpl_disconnect
  <2>3. RestOK'
    <3>1. used' \in [Faults -> Nat]
      BY <1>0, <1>4, UseKeeps DEF srpl_disconnect, Faults
    <3> QED BY <1>0, <1>4, <3>1 DEF srpl_disconnect, RestOK
  <2> QED BY <1>4, <2>1, <2>2, <2>3, Untouched DEF srpl_disconnect, IInv
<1>5. CASE srpl_dso_retry_delay(e)
  <2>1. ConnOK'
    BY <1>0, <1>5, DiscontinueGood, ConnKeeps DEF srpl_dso_retry_delay
  <2>2. NetOK'
    BY <1>0, <1>5, ConsumeKeeps DEF srpl_dso_retry_delay, Receives
  <2> QED BY <1>5, <2>1, <2>2, Untouched DEF srpl_dso_retry_delay, IInv
<1> QED BY <1>1, <1>2, <1>3, <1>4, <1>5

LEMMA EstablishKeeps ==
    ASSUME IInv, Establish \/ LoseConnection
    PROVE  IInv'
<1>0. ConnOK /\ NetOK /\ RestOK /\ [x \in E |-> <<>>] \in [E -> Seq(MessageType)]
  BY EmptySeq DEF IInv
<1>1. CASE Establish
  <2> DEFINE c == [To(conn["cl"], "send_candidates_send") EXCEPT !.outstanding = FALSE]
             s == Connection("send_candidates_message_wait")
  <2>1. Good(c) /\ Good(s)
    <3>1. "cl" \in E
      BY DEF E
    <3> QED BY <1>0, <3>1, ConnFacts, ToPlain, PlainStates, FlagsGood, ConnectionGood
  <2>2. conn' = [conn EXCEPT !["cl"] = c, !["sv"] = s]
    BY <1>1 DEF Establish
  <2> HIDE DEF c, s
  <2>3. ConnOK'
    BY <1>0, <2>1, <2>2 DEF ConnOK, Good, Fit, E
  <2>4. NetOK' /\ RestOK'
    BY <1>0, <1>1 DEF Establish, NetOK, RestOK
  <2> QED BY <1>1, <2>3, <2>4, Untouched DEF Establish, IInv
<1>2. CASE LoseConnection
  <2>1. used' \in [Faults -> Nat]
    BY <1>0, <1>2, UseKeeps DEF LoseConnection, Faults
  <2>2. NetOK' /\ RestOK'
    BY <1>0, <1>2, <2>1 DEF LoseConnection, NetOK, RestOK
  <2> QED BY <1>2, <2>2, Untouched DEF LoseConnection, IInv
<1> QED BY <1>1, <1>2
-----------------------------------------------------------------------------
(* The end that asked for candidates.                                      *)

LEMMA HostedMessage ==
    ASSUME NEW m \in MessageType, m.type \in {"candidate", "host"}
    PROVE  /\ m.host \in Hosts /\ m.host # NoHost
           /\ m.msg \in Msgs /\ m.age \in Int /\ m.key \in Nat
<1>1. NoHost \notin Hosts
  BY BoundsAssumption, Zenon DEF NoHost
<1> QED BY <1>1 DEF MessageType

\* A connection with a new candidate.
LEMMA CandidateFit ==
    ASSUME NEW c, Fit(c), NEW m \in MessageType, m.type = "candidate", RestOK
    PROVE  Good(To([c EXCEPT !.answered = FALSE, !.candidate =
                       [name |-> m.host, time |-> clock - m.age, key |-> m.key]],
                   "candidate_check"))
<1> DEFINE n == [name |-> m.host, time |-> clock - m.age, key |-> m.key]
<1>1. m.host \in Hosts /\ m.host # NoHost /\ m.age \in Int /\ m.key \in Nat
  BY HostedMessage
<1>2. n \in [name : Names, time : Int, key : Nat] /\ n.name # NoHost
  BY <1>1, MsgsFacts DEF Names, RestOK
<1> HIDE DEF n
<1>3. "candidate_check" \in Transient
           \ (NeedsStash \cup NeedsCurrent \cup {"srp_client_update_send"})
  BY DEF Transient, NeedsStash, NeedsCurrent
<1> QED BY <1>2, <1>3 DEF Fit, Good, AttachedTo, To, ConnectionType, n

\* A connection with a newly stashed host, in a state that needs the stash.
LEMMA StashFit ==
    ASSUME NEW c, Fit(c), NEW m \in MessageType, m.type = "host", RestOK,
           NEW s \in {"candidate_host_prepare", "stashed_host_check"},
           s = "candidate_host_prepare" => c.candidate.name # NoHost
    PROVE  Good([To(c, s) EXCEPT !.stash = Stash(m), !.answered = FALSE])
<1>1. m.host \in Hosts /\ m.host # NoHost /\ m.age \in Int /\ m.msg \in Msgs
  BY HostedMessage
<1>2. /\ Stash(m) \in [name : Names, msg : Msgs, time : Int, rcode : Rcodes]
      /\ Stash(m).name # NoHost
  BY <1>1, MsgsFacts DEF Names, RestOK, Stash, Rcodes
<1>3. s \in Transient \ (NeedsCurrent \cup {"srp_client_update_send"})
  BY DEF Transient, NeedsCurrent
<1>4. "stashed_host_check" \notin NeedsCandidate
  BY DEF NeedsCandidate
<1> QED BY <1>2, <1>3, <1>4 DEF Fit, Good, AttachedTo, To, ConnectionType

LEMMA CheckAnswers ==
    ASSUME NEW r, NEW c
    PROVE  srpl_candidate_host_check(r, c) \in Answers
BY DEF srpl_candidate_host_check, Answers

LEMMA CandidatesKeep ==
    ASSUME IInv, NEW e \in E,
           \/ srpl_send_candidates_send_action(e) \/ SendCandidatesResponse(e)
           \/ CandidateReceived(e) \/ srpl_candidate_check_action(e)
    PROVE  IInv'
<1>0. /\ ConnOK /\ NetOK /\ RestOK
      /\ conn[e] \in ConnectionType /\ Fit(conn[e]) /\ AttachedTo(conn[e])
  BY ConnFacts DEF IInv, Good
<1>1. CASE srpl_send_candidates_send_action(e)
  <2>1. Request("send_candidates", NoHost, 0, 0, 0) \in MessageType
    BY DEF Request, MessageType
  <2>2. Good(To(conn[e], "send_candidates_wait"))
    BY <1>0, ToPlain, PlainStates
  <2>3. ConnOK' /\ NetOK'
    BY <1>0, <1>1, <2>1, <2>2, SendRequestKeeps DEF srpl_send_candidates_send_action
  <2> QED BY <1>1, <2>3, Untouched DEF srpl_send_candidates_send_action, IInv
<1>2. CASE SendCandidatesResponse(e)
  <2> DEFINE c == [conn[e] EXCEPT !.outstanding = FALSE]
  <2>1. Fit(c) /\ Fit([c EXCEPT !.synchronized = TRUE])
    BY <1>0, FlagsFit
  <2>2. /\ Good(ToReady([c EXCEPT !.synchronized = TRUE]))
        /\ Good(To(c, "send_candidates_message_wait"))
    BY <2>1, ToReadyGood, ToPlain, PlainStates
  <2>3. conn' = [conn EXCEPT ![e] =
              IF e = "sv" THEN ToReady([c EXCEPT !.synchronized = TRUE])
              ELSE To(c, "send_candidates_message_wait")]
    BY <1>2 DEF SendCandidatesResponse
  <2> HIDE DEF c
  <2>4. ConnOK'
    BY <1>0, <2>2, <2>3, ConnKeeps
  <2>5. NetOK'
    BY <1>0, <1>2, ConsumeKeeps DEF SendCandidatesResponse, Receives
  <2> QED BY <1>2, <2>4, <2>5, Untouched DEF SendCandidatesResponse, IInv
<1>3. CASE CandidateReceived(e)
  <2>1. NetOK' /\ Head(net[e]) \in MessageType /\ Head(net[e]).type = "candidate"
    BY <1>0, <1>3, ConsumeKeeps DEF CandidateReceived, Receives
  <2>2. ConnOK'
    BY <1>0, <1>3, <2>1, CandidateFit, ConnKeeps DEF CandidateReceived
  <2> QED BY <1>3, <2>1, <2>2, Untouched DEF CandidateReceived, IInv
<1>4. CASE srpl_candidate_check_action(e)
  <2>1. Good(To(conn[e], "send_candidates_wait"))
    BY <1>0, ToPlain, PlainStates
  <2>2. Good(To(conn[e], "candidate_host_wait"))
    BY <1>0, <1>4 DEF srpl_candidate_check_action, Fit, Good, AttachedTo, To, ConnectionType,
                      Waiting, NeedsCandidate, NeedsStash, NeedsCurrent
  <2> DEFINE d == srpl_candidate_host_check(host[e][conn[e].candidate.name], conn[e].candidate)
             c == To(conn[e], IF d = "yes" THEN "candidate_host_wait"
                              ELSE "send_candidates_wait")
  <2>3. Good(c) /\ d \in Answers /\ SendResponse(e, "candidate_response", d, c)
    BY <1>4, <2>1, <2>2, CheckAnswers DEF srpl_candidate_check_action
  <2> HIDE DEF c, d
  <2>4. ConnOK' /\ NetOK'
    BY <1>0, <2>3, SendResponseKeeps
  <2> QED BY <1>4, <2>4, Untouched DEF srpl_candidate_check_action, IInv
<1> QED BY <1>1, <1>2, <1>3, <1>4

LEMMA CandidateHostKeeps ==
    ASSUME IInv, NEW e \in E,
           \/ CandidateHostReceived(e) \/ srpl_candidate_host_prepare_action(e)
           \/ srpl_candidate_host_re_evaluate_action(e)
    PROVE  IInv'
<1>0. /\ ConnOK /\ NetOK /\ RestOK
      /\ conn[e] \in ConnectionType /\ Fit(conn[e]) /\ AttachedTo(conn[e])
  BY ConnFacts DEF IInv, Good
<1>1. CASE CandidateHostReceived(e)
  <2>1. NetOK' /\ Head(net[e]) \in MessageType /\ Head(net[e]).type = "host"
    BY <1>0, <1>1, ConsumeKeeps DEF CandidateHostReceived, Receives
  <2>2. conn[e].candidate.name # NoHost
    BY <1>0, <1>1 DEF CandidateHostReceived, AttachedTo, NeedsCandidate
  <2>3. ConnOK'
    BY <1>0, <1>1, <2>1, <2>2, StashFit, ConnKeeps DEF CandidateHostReceived
  <2> QED BY <1>1, <2>1, <2>3, Untouched DEF CandidateHostReceived, IInv
<1>2. CASE srpl_candidate_host_prepare_action(e)
  <2>1. conn[e].candidate.name # NoHost /\ conn[e].stash.name # NoHost
    BY <1>0, <1>2 DEF srpl_candidate_host_prepare_action, AttachedTo, NeedsCandidate, NeedsStash
  <2>2. \A s \in {"candidate_host_apply", "candidate_host_contention_wait",
                  "candidate_host_re_evaluate"} : Good(To(conn[e], s))
    BY <1>0, <2>1 DEF Fit, Good, AttachedTo, To, ConnectionType, Transient, Waiting, NeedsCurrent
  <2>3. ConnOK'
    BY <1>0, <1>2, <2>2, ConnKeeps DEF srpl_candidate_host_prepare_action
  <2> QED BY <1>2, <2>3, Untouched DEF srpl_candidate_host_prepare_action, IInv
<1>3. CASE srpl_candidate_host_re_evaluate_action(e)
  <2>1. conn[e].stash.name # NoHost
    BY <1>0, <1>3 DEF srpl_candidate_host_re_evaluate_action, AttachedTo, NeedsStash
  <2>2. Good(To(conn[e], "candidate_host_apply")) /\ Good(To(conn[e], "send_candidates_wait"))
    <3>1. "candidate_host_apply" \in Transient \ (NeedsCandidate \cup NeedsCurrent)
      BY DEF Transient, NeedsCandidate, NeedsCurrent
    <3> QED BY <1>0, <2>1, <3>1, ToPlain, PlainStates
               DEF Fit, Good, AttachedTo, To, ConnectionType
  <2>3. ConnOK' /\ NetOK'
    BY <1>0, <1>3, <2>2, ConnKeeps, SendResponseKeeps, Untouched
       DEF srpl_candidate_host_re_evaluate_action, Answers, Rcodes
  <2> QED BY <1>3, <2>3, Untouched DEF srpl_candidate_host_re_evaluate_action, IInv
<1> QED BY <1>1, <1>2, <1>3
-----------------------------------------------------------------------------
(* Applying a stashed host.                                                *)

LEMMA StashFacts ==
    ASSUME IInv, NEW e \in E, conn[e].state \in {"candidate_host_apply", "stashed_host_apply"}
    PROVE  /\ conn[e].stash.name \in Hosts
           /\ host[e][conn[e].stash.name] \in HostType
           /\ StashedUpdate(e) \in Update
<1>1. conn[e] \in ConnectionType /\ AttachedTo(conn[e])
  BY ConnFacts DEF IInv, Good
<1>2. conn[e].stash.name # NoHost
  BY <1>1 DEF AttachedTo, NeedsStash
<1>3. conn[e].stash.name \in Hosts
  BY <1>1, <1>2 DEF ConnectionType, Names
<1>4. StashedUpdate(e) \in Update
  BY <1>1 DEF StashedUpdate, Update, Sources, ConnectionType
<1> QED BY <1>3, <1>4 DEF IInv, HostOK

LEMMA CallbackKeeps ==
    ASSUME AsyncOK, NEW e \in E, NEW k \in CallbackType,
           async' = [async EXCEPT ![e] = Append(@, k)]
    PROVE  AsyncOK'
<1>1. Append(async[e], k) \in Seq(CallbackType)
  BY AppendProperties DEF AsyncOK
<1> QED BY <1>1 DEF AsyncOK

\* Each outcome of srp_dns_evaluate, when the state that follows it is in order.
LEMMA ApplyKeeps ==
    ASSUME IInv, NEW e \in E, NEW next, NEW rejected,
           conn[e].state \in {"candidate_host_apply", "stashed_host_apply"},
           Good(To(conn[e], next)), Good(To(conn[e], rejected)),
           \/ ApplyStarts(e, next) \/ ApplyRetransmission(e, next)
           \/ ApplyFinishesAtOnce(e, next) \/ ApplyIgnored(e, next)
           \/ ApplyRejected(e, rejected) \/ ApplyConflict(e)
    PROVE  IInv'
<1> DEFINE h == conn[e].stash.name
           r == host[e][h]
           u == StashedUpdate(e)
<1>0. /\ ConnOK /\ HostOK /\ AsyncOK /\ NetOK /\ RestOK
      /\ h \in Hosts /\ r \in HostType /\ u \in Update
  BY StashFacts DEF IInv
<1>1. CASE ApplyStarts(e, next)
  <2>1. srp_update_start(r, u) \in HostType
    BY <1>0, UpdateStartType
  <2>2. HostOK'
    BY <1>0, <1>1, <2>1, HostKeeps DEF ApplyStarts
  <2>3. ConnOK'
    BY <1>0, <1>1, ConnKeeps DEF ApplyStarts
  <2> QED BY <1>1, <2>2, <2>3, Untouched DEF ApplyStarts, IInv
<1>2. CASE ApplyRetransmission(e, next)
  <2>1. HostOK'
    BY <1>0, <1>2 DEF ApplyRetransmission, HostOK, HostType
  <2>2. Deferred(h, "servfail") \in CallbackType
    BY <1>0 DEF Deferred, CallbackType, Rcodes
  <2>3. AsyncOK'
    BY <1>0, <1>2, <2>2, CallbackKeeps DEF ApplyRetransmission
  <2>4. ConnOK'
    BY <1>0, <1>2, ConnKeeps DEF ApplyRetransmission
  <2> QED BY <1>2, <2>1, <2>3, <2>4, Untouched DEF ApplyRetransmission, IInv
<1>3. CASE ApplyFinishesAtOnce(e, next)
  <2>1. SettleFinished(TakeMessage(srp_update_start(r, u))) \in HostType
    <3>1. TakeMessage(srp_update_start(r, u)) \in HostType
      BY <1>0, UpdateStartType, SettleType DEF Sources
    <3> QED BY <1>0, <3>1, SettleType DEF Sources
  <2>2. HostOK'
    BY <1>0, <1>3, <2>1, HostKeeps DEF ApplyFinishesAtOnce
  <2>3. Deferred(h, "noerror") \in CallbackType
    BY <1>0 DEF Deferred, CallbackType, Rcodes
  <2>4. AsyncOK'
    BY <1>0, <1>3, <2>3, CallbackKeeps DEF ApplyFinishesAtOnce
  <2>5. ConnOK'
    BY <1>0, <1>3, ConnKeeps DEF ApplyFinishesAtOnce
  <2> QED BY <1>3, <2>2, <2>4, <2>5, Untouched DEF ApplyFinishesAtOnce, IInv
<1>4. CASE ApplyIgnored(e, next)
  <2>1. ConnOK'
    BY <1>0, <1>4, ConnKeeps DEF ApplyIgnored
  <2>2. used' \in [Faults -> Nat]
    BY <1>0, <1>4, UseKeeps DEF ApplyIgnored, Faults
  <2>3. RestOK'
    BY <1>0, <1>4, <2>2 DEF ApplyIgnored, RestOK
  <2> QED BY <1>4, <2>1, <2>3, Untouched DEF ApplyIgnored, IInv
<1>5. CASE ApplyRejected(e, rejected)
  <2>1. ConnOK' /\ NetOK'
    BY <1>0, <1>5, SendResponseKeeps DEF ApplyRejected, Answers, Rcodes
  <2>2. used' \in [Faults -> Nat]
    BY <1>0, <1>5, UseKeeps DEF ApplyRejected, Faults
  <2>3. RestOK'
    BY <1>0, <1>5, <2>2 DEF ApplyRejected, RestOK
  <2> QED BY <1>5, <2>1, <2>3, Untouched DEF ApplyRejected, IInv
<1>6. CASE ApplyConflict(e)
  <2>1. HostOK'
    BY <1>0, <1>6, GoneType DEF ApplyConflict, HostOK
  <2>2. ConnOK'
    BY <1>0, <1>6, ConnectionGood, PlainStates, ConnKeeps DEF ApplyConflict
  <2>3. AsyncOK' /\ FinOK'
    BY <1>6, EmptySeq DEF ApplyConflict, IInv, AsyncOK, FinOK, FinType
  <2>4. NetOK' /\ RestOK'
    BY <1>0, <1>6, EmptyNet DEF ApplyConflict, NetOK, RestOK
  <2> QED BY <2>1, <2>2, <2>3, <2>4 DEF IInv
<1> QED BY <1>1, <1>2, <1>3, <1>4, <1>5, <1>6

LEMMA ApplyActionsKeep ==
    ASSUME IInv, NEW e \in E,
           srpl_candidate_host_apply_action(e) \/ srpl_stashed_host_apply_action(e)
    PROVE  IInv'
<1>0. Fit(conn[e])
  BY ConnFacts DEF IInv
<1>1. CASE srpl_candidate_host_apply_action(e)
  <2>1. Good(To(conn[e], "candidate_host_apply_wait")) /\ Good(To(conn[e], "send_candidates_wait"))
    BY <1>0, ToPlain, PlainStates
  <2> QED BY <1>1, <2>1, ApplyKeeps DEF srpl_candidate_host_apply_action
<1>2. CASE srpl_stashed_host_apply_action(e)
  <2>1. To(conn[e], AfterStashedApply(e)) = ToReady(conn[e])
    BY <1>0 DEF AfterStashedApply, ToReady, To, Fit, ConnectionType
  <2>2. Good(To(conn[e], AfterStashedApply(e))) /\ Good(To(conn[e], "stashed_host_finished"))
    BY <1>0, <2>1, ToPlain, ToReadyGood, PlainStates
  <2> QED BY <1>2, <2>2, ApplyKeeps DEF srpl_stashed_host_apply_action
<1> QED BY <1>1, <1>2
-----------------------------------------------------------------------------
(* The end that was asked for candidates.                                  *)

LEMMA AskedKeeps ==
    ASSUME IInv, NEW e \in E,
           \/ SendCandidatesReceived(e) \/ srpl_send_candidates_received_action(e)
           \/ srpl_candidates_remaining_check_action(e)
           \/ srpl_send_candidates_response_send_action(e)
    PROVE  IInv'
<1>0. /\ ConnOK /\ NetOK /\ RestOK /\ HostOK
      /\ conn[e] \in ConnectionType /\ Fit(conn[e])
  BY ConnFacts DEF IInv
<1>1. CASE SendCandidatesReceived(e)
  <2>1. Good([To(conn[e], "send_candidates_received") EXCEPT !.answered = FALSE])
    BY <1>0, ToPlain, PlainStates, FlagsGood
  <2>2. ConnOK'
    BY <1>0, <1>1, <2>1, ConnKeeps DEF SendCandidatesReceived
  <2>3. NetOK'
    BY <1>0, <1>1, ConsumeKeeps DEF SendCandidatesReceived, Receives
  <2> QED BY <1>1, <2>2, <2>3, Untouched DEF SendCandidatesReceived, IInv
<1>2. CASE srpl_send_candidates_received_action(e)
  <2> DEFINE valid == {Here(e, h) : h \in {x \in Hosts : srp_adv_host_valid(e, x)}}
             c == To(conn[e], "send_candidates_remaining_check")
             d == [c EXCEPT !.candidates = valid, !.current = NoRef,
                            !.not_generated = c.not_generated /\ valid = {}]
  <2>1. valid \subseteq Refs
    BY <1>0 DEF Here, Ref, Refs, HostOK, HostType
  <2>2. conn' = [conn EXCEPT ![e] = d]
    BY <1>2 DEF srpl_send_candidates_received_action
  <2>3. Good(c) /\ c.state = "send_candidates_remaining_check"
    BY <1>0, ToPlain, PlainStates DEF To, ConnectionType
  <2> HIDE DEF c
  <2>4. (c.not_generated /\ valid = {}) \in BOOLEAN
    BY <2>3 DEF Good, Fit, ConnectionType
  <2>5. Good(d)
    BY <2>1, <2>3, <2>4 DEF Good, Fit, ConnectionType, AttachedTo, NeedsCurrent
  <2> HIDE DEF d
  <2>6. ConnOK'
    BY <1>0, <2>2, <2>5, ConnKeeps
  <2> QED BY <1>2, <2>6, Untouched DEF srpl_send_candidates_received_action, IInv
<1>3. CASE srpl_candidates_remaining_check_action(e)
  <2>1. ASSUME NEW p \in conn[e].candidates
        PROVE  Good([To(conn[e], "next_candidate_send") EXCEPT
                        !.candidates = @ \ {p}, !.current = p])
    <3>1. p \in Refs /\ p # NoRef
      <4>1. p \in Refs
        BY <1>0 DEF ConnectionType
      <4>2. NoHost \notin Hosts
        BY BoundsAssumption, Zenon DEF NoHost
      <4> QED BY <4>1, <4>2 DEF Refs, NoRef, Ref
    <3>2. "next_candidate_send" \in Transient \ (NeedsCandidate \cup NeedsStash)
      BY DEF Transient, NeedsCandidate, NeedsStash
    <3> QED BY <1>0, <3>1, <3>2 DEF Good, Fit, ConnectionType, AttachedTo, To
  <2>2. Good(To(conn[e], "send_candidates_response_send"))
    BY <1>0, ToPlain, PlainStates
  <2>3. ConnOK'
    <3>1. ASSUME NEW p \in conn[e].candidates,
                 conn' = [conn EXCEPT ![e] =
                    [To(conn[e], "next_candidate_send") EXCEPT
                        !.candidates = @ \ {p}, !.current = p]]
          PROVE  ConnOK'
      <4> DEFINE d == [To(conn[e], "next_candidate_send") EXCEPT
                          !.candidates = @ \ {p}, !.current = p]
      <4>1. Good(d)
        BY <2>1
      <4>2. conn' = [conn EXCEPT ![e] = d]
        BY <3>1
      <4> HIDE DEF d
      <4> QED BY <1>0, <4>1, <4>2, ConnKeeps
    <3>2. ASSUME conn' = [conn EXCEPT ![e] = To(conn[e], "send_candidates_response_send")]
          PROVE  ConnOK'
      BY <1>0, <2>2, <3>2, ConnKeeps
    <3> QED BY <1>3, <3>1, <3>2 DEF srpl_candidates_remaining_check_action
  <2> QED BY <1>3, <2>3, Untouched DEF srpl_candidates_remaining_check_action, IInv
<1>4. CASE srpl_send_candidates_response_send_action(e)
  <2> DEFINE c == IF e = "sv" THEN To(conn[e], "send_candidates_send")
                  ELSE ToReady([conn[e] EXCEPT !.synchronized = TRUE])
  <2>1. Good(c)
    BY <1>0, ToPlain, PlainStates, FlagsFit, ToReadyGood
  <2>2. SendResponse(e, "send_candidates_response", "noerror", c)
    BY <1>4 DEF srpl_send_candidates_response_send_action
  <2> HIDE DEF c
  <2>3. ConnOK' /\ NetOK'
    BY <1>0, <2>1, <2>2, SendResponseKeeps DEF Answers, Rcodes
  <2> QED BY <1>4, <2>3, Untouched DEF srpl_send_candidates_response_send_action, IInv
<1> QED BY <1>1, <1>2, <1>3, <1>4

LEMMA HostMessageType ==
    ASSUME HostOK, RestOK, NEW e \in E, NEW h \in Hosts
    PROVE  HostMessage(e, h) \in MessageType
           /\ Request("candidate", h, 0, clock - host[e][h].time, host[e][h].key) \in MessageType
<1>1. /\ host[e][h].msg \in Msgs /\ host[e][h].key \in Nat /\ host[e][h].time \in Int
      /\ clock \in Int /\ 0 \in Msgs
  BY MsgsFacts DEF HostOK, HostType, RestOK
<1> QED BY <1>1 DEF HostMessage, Request, MessageType

LEMMA SendingKeeps ==
    ASSUME IInv, NEW e \in E,
           \/ srpl_next_candidate_send_action(e) \/ srpl_next_candidate_send_wait_action(e)
           \/ srpl_candidate_host_send_action(e) \/ srpl_candidate_host_response_wait_action(e)
    PROVE  IInv'
<1>0. /\ ConnOK /\ NetOK /\ RestOK /\ HostOK
      /\ conn[e] \in ConnectionType /\ Fit(conn[e]) /\ AttachedTo(conn[e])
  BY ConnFacts DEF IInv, Good
<1>1. ASSUME conn[e].current # NoRef
      PROVE  /\ conn[e].current.host \in Hosts
             /\ \A s \in {"next_candidate_send_wait", "candidate_host_send"} :
                   Good(To(conn[e], s))
  <2>1. conn[e].current.host \in Hosts
    BY <1>0, <1>1 DEF ConnectionType, Refs
  <2>2. {"next_candidate_send_wait", "candidate_host_send"}
           \subseteq (Transient \cup Waiting) \ (NeedsCandidate \cup NeedsStash)
    BY DEF Transient, Waiting, NeedsCandidate, NeedsStash
  <2> QED BY <1>0, <1>1, <2>1, <2>2 DEF Good, Fit, ConnectionType, AttachedTo, To
<1>2. /\ Good(To(conn[e], "send_candidates_remaining_check"))
      /\ Good(To(conn[e], "candidate_host_response_wait"))
  BY <1>0, ToPlain, PlainStates
<1>3. CASE srpl_next_candidate_send_action(e)
  <2>1. conn[e].current # NoRef
    BY <1>0, <1>3 DEF srpl_next_candidate_send_action, AttachedTo, NeedsCurrent
  <2>2. ConnOK' /\ NetOK'
    BY <1>0, <1>1, <1>3, <2>1, HostMessageType, SendRequestKeeps
       DEF srpl_next_candidate_send_action
  <2> QED BY <1>3, <2>2, Untouched DEF srpl_next_candidate_send_action, IInv
<1>4. CASE srpl_next_candidate_send_wait_action(e)
  <2>1. conn[e].current # NoRef
    BY <1>0, <1>4 DEF srpl_next_candidate_send_wait_action, AttachedTo, NeedsCurrent
  <2>2. /\ Good([To(conn[e], "candidate_host_send") EXCEPT !.outstanding = FALSE])
        /\ Good([To(conn[e], "send_candidates_remaining_check") EXCEPT !.outstanding = FALSE])
    BY <1>1, <1>2, <2>1, FlagsGood
  <2>3. ConnOK'
    BY <1>0, <1>4, <2>2, ConnKeeps DEF srpl_next_candidate_send_wait_action
  <2>4. NetOK'
    BY <1>0, <1>4, ConsumeKeeps DEF srpl_next_candidate_send_wait_action, Receives
  <2> QED BY <1>4, <2>3, <2>4, Untouched DEF srpl_next_candidate_send_wait_action, IInv
<1>5. CASE srpl_candidate_host_send_action(e)
  <2>1. conn[e].current.host \in Hosts
    BY <1>0, <1>1, <1>5 DEF srpl_candidate_host_send_action, AttachedTo, NeedsCurrent
  <2>2. ConnOK' /\ NetOK'
    BY <1>0, <1>2, <1>5, <2>1, HostMessageType, SendRequestKeeps, ConnKeeps, Untouched
       DEF srpl_candidate_host_send_action
  <2> QED BY <1>5, <2>2, Untouched DEF srpl_candidate_host_send_action, IInv
<1>6. CASE srpl_candidate_host_response_wait_action(e)
  <2>1. ConnOK'
    BY <1>0, <1>2, <1>6, FlagsGood, ConnKeeps DEF srpl_candidate_host_response_wait_action
  <2>2. NetOK'
    BY <1>0, <1>6, ConsumeKeeps DEF srpl_candidate_host_response_wait_action, Receives
  <2> QED BY <1>6, <2>1, <2>2, Untouched DEF srpl_candidate_host_response_wait_action, IInv
<1> QED BY <1>3, <1>4, <1>5, <1>6
-----------------------------------------------------------------------------
(* The ready phase.                                                        *)

\* Sending the head of the queue marks it, and only it.
LEMMA SentFit ==
    ASSUME NEW c, Fit(c), c.queue # <<>>
    PROVE  /\ Head(c.queue).ref \in Refs
           /\ Fit([c EXCEPT !.queue =
                     <<[ref |-> Head(c.queue).ref, sent |-> TRUE]>> \o Tail(c.queue)])
<1> DEFINE Entry == [ref : Refs, sent : BOOLEAN]
           new == [ref |-> Head(c.queue).ref, sent |-> TRUE]
           q == <<new>> \o Tail(c.queue)
<1>1. c \in ConnectionType /\ c.queue \in Seq(Entry) /\ HeadOnly(c.queue)
  BY DEF Fit, ConnectionType
<1>2. /\ Head(c.queue) \in Entry /\ Tail(c.queue) \in Seq(Entry)
      /\ Len(Tail(c.queue)) = Len(c.queue) - 1
      /\ \A i \in 1 .. Len(Tail(c.queue)) : Tail(c.queue)[i] = c.queue[i + 1]
  BY <1>1, HeadTailProperties
<1>3. new \in Entry /\ <<new>> \in Seq(Entry) /\ Len(<<new>>) = 1
  BY <1>2
<1> HIDE DEF new
<1>4. /\ q \in Seq(Entry) /\ Len(q) = 1 + Len(Tail(c.queue))
      /\ \A i \in 1 .. Len(q) : i > 1 => q[i] = Tail(c.queue)[i - 1]
  BY <1>2, <1>3, ConcatProperties
<1> HIDE DEF q
<1>5. HeadOnly(q)
  <2> SUFFICES ASSUME NEW i \in DOMAIN q, i # 1
               PROVE  ~q[i].sent
    BY DEF HeadOnly
  <2>1. i \in 2 .. Len(c.queue) /\ Len(c.queue) \in Nat
    BY <1>1, <1>2, <1>4, LenProperties
  <2>2. q[i] = c.queue[i]
    BY <1>2, <1>4, <2>1
  <2> QED BY <1>1, <2>1, <2>2 DEF HeadOnly
<1>6. Fit([c EXCEPT !.queue = q])
  BY <1>1, <1>4, <1>5 DEF Fit, ConnectionType
<1> QED BY <1>2, <1>6 DEF q, new

LEMMA ReadyReceives ==
    ASSUME IInv, NEW e \in E,
           ReadyHostReceived(e) \/ UnmatchedResponse(e) \/ ReadyHostResponse(e)
    PROVE  IInv'
<1>0. ConnOK /\ NetOK /\ RestOK /\ Fit(conn[e])
  BY ConnFacts DEF IInv
<1>1. CASE ReadyHostReceived(e)
  <2>1. CASE DropState(e)
    <3>1. ConnOK'
      BY <1>0, <2>1, ToPlain, PlainStates, ConnKeeps DEF DropState
    <3>2. NetOK'
      BY <1>0, <1>1, <2>1, RetryDelayKeeps DEF DropState, ReadyHostReceived, Receives
    <3> QED BY <1>1, <3>1, <3>2, Untouched DEF ReadyHostReceived, IInv
  <2>2. CASE /\ Consume(e)
             /\ conn' = [conn EXCEPT ![e] =
                   [To(conn[e], "stashed_host_check") EXCEPT
                       !.stash = Stash(Head(net[e])), !.answered = FALSE]]
    <3>1. NetOK' /\ Head(net[e]) \in MessageType /\ Head(net[e]).type = "host"
      BY <1>0, <1>1, <2>2, ConsumeKeeps DEF ReadyHostReceived, Receives
    <3>2. ConnOK'
      BY <1>0, <2>2, <3>1, StashFit, ConnKeeps
    <3> QED BY <1>1, <3>1, <3>2, Untouched DEF ReadyHostReceived, IInv
  <2> QED BY <1>1, <2>1, <2>2 DEF ReadyHostReceived
<1>2. CASE UnmatchedResponse(e)
  <2>1. NetOK'
    BY <1>0, <1>2, ConsumeKeeps DEF UnmatchedResponse, Receives
  <2> QED BY <1>2, <2>1, Untouched DEF UnmatchedResponse, IInv
<1>3. CASE ReadyHostResponse(e)
  <2>1. NetOK'
    BY <1>0, <1>3, ConsumeKeeps DEF ReadyHostResponse, Receives
  <2>2. ConnOK'
    BY <1>0, <1>3, ToPlain, PlainStates, FlagsGood, ConnKeeps DEF ReadyHostResponse
  <2> QED BY <1>3, <2>1, <2>2, Untouched DEF ReadyHostResponse, IInv
<1> QED BY <1>1, <1>2, <1>3

LEMMA ReadyActs ==
    ASSUME IInv, NEW e \in E,
           \/ srpl_stashed_host_check_action(e) \/ srpl_stashed_host_finished_action(e)
           \/ srpl_srp_client_ack_evaluate_action(e) \/ srpl_srp_client_update_send_action(e)
    PROVE  IInv'
<1>0. /\ ConnOK /\ NetOK /\ RestOK /\ HostOK
      /\ conn[e] \in ConnectionType /\ Fit(conn[e]) /\ AttachedTo(conn[e])
  BY ConnFacts DEF IInv, Good
<1>1. CASE srpl_stashed_host_check_action(e)
  <2>1. Good(To(conn[e], "stashed_host_apply"))
    <3>1. conn[e].stash.name # NoHost
      BY <1>0, <1>1 DEF srpl_stashed_host_check_action, AttachedTo, NeedsStash
    <3>2. "stashed_host_apply" \in Transient \ (NeedsCandidate \cup NeedsCurrent)
      BY DEF Transient, NeedsCandidate, NeedsCurrent
    <3> QED BY <1>0, <3>1, <3>2 DEF Fit, Good, AttachedTo, To, ConnectionType
  <2>2. Good(ToReady(conn[e]))
    BY <1>0, ToReadyGood
  <2>3. ConnOK'
    BY <1>0, <1>1, <2>1, <2>2, ConnKeeps DEF srpl_stashed_host_check_action
  <2> QED BY <1>1, <2>3, Untouched DEF srpl_stashed_host_check_action, IInv
<1>2. CASE srpl_stashed_host_finished_action(e)
  <2> DEFINE c == [conn[e] EXCEPT !.stash = NoStash]
  <2>1. Fit(c)
    BY SMTT(30), <1>0, MsgsFacts DEF Fit, ConnectionType, NoStash, Names, Rcodes
  <2>2. conn[e].stash.rcode \in Answers
    BY <1>0 DEF ConnectionType, Answers
  <2>3. SendResponse(e, "host_response", conn[e].stash.rcode, ToReady(c))
    BY <1>2 DEF srpl_stashed_host_finished_action
  <2> HIDE DEF c
  <2>4. ConnOK' /\ NetOK'
    BY <1>0, <2>1, <2>2, <2>3, ToReadyGood, SendResponseKeeps
  <2> QED BY <1>2, <2>4, Untouched DEF srpl_stashed_host_finished_action, IInv
<1>3. ASSUME conn[e].queue # <<>>
      PROVE  Good(ToReady([conn[e] EXCEPT !.queue = Tail(@)]))
  BY <1>0, <1>3, QueueFit, ToReadyGood
<1>4. CASE srpl_srp_client_ack_evaluate_action(e)
  <2>1. ConnOK'
    BY <1>0, <1>3, <1>4, ConnKeeps DEF srpl_srp_client_ack_evaluate_action
  <2> QED BY <1>4, <2>1, Untouched DEF srpl_srp_client_ack_evaluate_action, IInv
<1>5. CASE srpl_srp_client_update_send_action(e)
  <2> DEFINE p == Head(conn[e].queue).ref
             c == [conn[e] EXCEPT !.queue = <<[ref |-> p, sent |-> TRUE]>> \o Tail(conn[e].queue)]
  <2>1. conn[e].queue # <<>>
    BY <1>0, <1>5 DEF srpl_srp_client_update_send_action, AttachedTo
  <2>2. p \in Refs /\ Fit(c)
    BY <1>0, <2>1, SentFit
  <2>3. \/ SendRequest(e, HostMessage(e, p.host), To(c, "ready"))
        \/ /\ conn' = [conn EXCEPT ![e] = ToReady([conn[e] EXCEPT !.queue = Tail(@)])]
           /\ UNCHANGED net
    BY <1>5 DEF srpl_srp_client_update_send_action
  <2> HIDE DEF c, p
  <2>4. HostMessage(e, p.host) \in MessageType
    BY <1>0, <2>2, HostMessageType DEF Refs
  <2>5. Good(To(c, "ready"))
    BY <2>2, ToPlain, PlainStates
  <2>6. ConnOK' /\ NetOK'
    <3>1. CASE SendRequest(e, HostMessage(e, p.host), To(c, "ready"))
      BY <1>0, <2>4, <2>5, <3>1, SendRequestKeeps
    <3>2. CASE /\ conn' = [conn EXCEPT ![e] = ToReady([conn[e] EXCEPT !.queue = Tail(@)])]
               /\ UNCHANGED net
      BY <1>0, <1>3, <2>1, <3>2, ConnKeeps, Untouched
    <3> QED BY <2>3, <3>1, <3>2
  <2> QED BY <1>5, <2>6, Untouched DEF srpl_srp_client_update_send_action, IInv
<1> QED BY <1>1, <1>2, <1>4, <1>5
-----------------------------------------------------------------------------
(* The events of the advertising proxy.                                    *)

\* Queueing an update for the peer changes nothing but the queue.
LEMMA QueueUpdateGood ==
    ASSUME NEW c, Good(c), NEW p \in Refs
    PROVE  LET q == srpl_queue_srp_client_update(c, p)
           IN  /\ Good(q) /\ q.state = c.state
               /\ q.candidate = c.candidate /\ q.stash = c.stash
<1> DEFINE new == [ref |-> p, sent |-> FALSE]
           q == srpl_queue_srp_client_update(c, p)
           d == [c EXCEPT !.queue = Append(@, new)]
<1>1. c \in ConnectionType /\ AttachedTo(c) /\ Fit(q)
  BY QueueUpdateFit DEF Good, Fit
<1>2. q \in {c, d}
  BY DEF srpl_queue_srp_client_update
<1>3. d.queue # <<>>
  <2>1. c.queue \in Seq([ref : Refs, sent : BOOLEAN]) /\ new \in [ref : Refs, sent : BOOLEAN]
    BY <1>1 DEF ConnectionType
  <2>2. Len(Append(c.queue, new)) = Len(c.queue) + 1 /\ Len(c.queue) \in Nat /\ Len(<<>>) = 0
    BY <2>1, AppendProperties, LenProperties
  <2>3. Append(c.queue, new) # <<>>
    BY <2>2
  <2>4. d.queue = Append(c.queue, new)
    BY <1>1 DEF ConnectionType
  <2> HIDE DEF d
  <2> QED BY <2>3, <2>4
<1>4. /\ d.state = c.state /\ d.candidate = c.candidate
      /\ d.stash = c.stash /\ d.current = c.current
  BY <1>1 DEF ConnectionType
<1> HIDE DEF d, q
<1>5. /\ q.state = c.state /\ q.candidate = c.candidate
      /\ q.stash = c.stash /\ q.current = c.current
      /\ c.queue # <<>> => q.queue # <<>>
  BY <1>2, <1>3, <1>4
<1>6. AttachedTo(q)
  BY <1>1, <1>5 DEF AttachedTo
<1> QED BY <1>1, <1>5, <1>6 DEF Good, q

\* Contention ends while the candidate and the stashed host are still there.
LEMMA ContentionGood ==
    ASSUME NEW c, Good(c), c.state = "candidate_host_contention_wait"
    PROVE  Good(To(c, "candidate_host_re_evaluate"))
<1>1. c.candidate.name # NoHost /\ c.stash.name # NoHost
  BY DEF Good, AttachedTo, NeedsCandidate, NeedsStash
<1>2. "candidate_host_re_evaluate" \in Transient \ NeedsCurrent
  BY DEF Transient, NeedsCurrent
<1> QED BY <1>1, <1>2 DEF Good, Fit, AttachedTo, To, ConnectionType

LEMMA StashCleared ==
    ASSUME NEW c, Fit(c), NEW rcode \in Rcodes
    PROVE  Fit([c EXCEPT !.stash = NoStash]) /\ Fit([c EXCEPT !.stash.rcode = rcode])
<1>1. /\ c \in ConnectionType /\ HeadOnly(c.queue)
      /\ c.stash \in [name : Names, msg : Msgs, time : Int, rcode : Rcodes]
  BY DEF Fit, ConnectionType
<1>2. Fit([c EXCEPT !.stash = NoStash])
  BY <1>1, MsgsFacts DEF Fit, ConnectionType, NoStash, Names, Rcodes
<1> DEFINE s == [c.stash EXCEPT !.rcode = rcode]
<1>3. s \in [name : Names, msg : Msgs, time : Int, rcode : Rcodes]
  BY <1>1
<1>4. [c EXCEPT !.stash.rcode = rcode] = [c EXCEPT !.stash = s]
  BY <1>1 DEF ConnectionType
<1> HIDE DEF s
<1>5. Fit([c EXCEPT !.stash = s])
  BY <1>1, <1>3 DEF Fit, ConnectionType
<1> QED BY <1>2, <1>4, <1>5

LEMMA AdvertiseKeeps ==
    ASSUME IInv, NEW e \in E, NEW h, NEW rcode \in Rcodes, AdvertiseFinished(e, h, rcode)
    PROVE  ConnOK' /\ NetOK'
<1> DEFINE c == conn[e]
<1>0. /\ ConnOK /\ NetOK /\ RestOK /\ Fit(c) /\ Good(c)
      /\ Fit([c EXCEPT !.stash = NoStash]) /\ Fit([c EXCEPT !.stash.rcode = rcode])
  BY ConnFacts, StashCleared DEF IInv
<1>1. CASE /\ c.state = "candidate_host_contention_wait"
           /\ conn' = [conn EXCEPT ![e] = To(c, "candidate_host_re_evaluate")]
           /\ UNCHANGED net
  BY <1>0, <1>1, ContentionGood, ConnKeeps, Untouched
<1>2. CASE SendResponse(e, "host_response", rcode,
                        To([c EXCEPT !.stash = NoStash], "send_candidates_wait"))
  <2>1. Good(To([c EXCEPT !.stash = NoStash], "send_candidates_wait")) /\ rcode \in Answers
    BY <1>0, ToPlain, PlainStates DEF Answers
  <2> QED BY <1>0, <1>2, <2>1, SendResponseKeeps
<1>3. CASE /\ conn' = [conn EXCEPT ![e] =
                 To([c EXCEPT !.stash.rcode = rcode], "stashed_host_finished")]
           /\ UNCHANGED net
  <2>1. Good(To([c EXCEPT !.stash.rcode = rcode], "stashed_host_finished"))
    BY <1>0, ToPlain, PlainStates
  <2> QED BY <1>0, <1>3, <2>1, ConnKeeps, Untouched
<1>4. CASE UNCHANGED <<conn, net>>
  BY <1>4, Untouched
<1> QED BY <1>1, <1>2, <1>3, <1>4, Zenon DEF AdvertiseFinished, EndsContention

LEMMA ClientResultKeeps ==
    ASSUME IInv, NEW e \in E, NEW h \in Hosts, NEW rcode, ClientUpdateFinished(e, h, rcode)
    PROVE  ConnOK'
<1> DEFINE c == conn[e]
           p == Here(e, h)
           q == IF rcode = "noerror" /\ ~srpl_reschedule_candidate(c, p)
                THEN srpl_queue_srp_client_update(c, p) ELSE c
           n == IF c.state = "none" THEN c
                ELSE IF EndsContention(c, h) /\ rcode = "noerror"
                     THEN To(q, "candidate_host_re_evaluate")
                ELSE IF c.state = "ready" THEN ToReady(q) ELSE q
<1>1. ConnOK /\ Good(c) /\ p \in Refs
  BY ConnFacts DEF IInv, HostOK, HostType, Here, Ref, Refs
<1>2. Good(q) /\ Fit(q) /\ q.state = c.state
  BY <1>1, QueueUpdateGood DEF Good
<1>3. Good(ToReady(q))
  BY <1>2, ToReadyGood
<1>4. conn' = [conn EXCEPT ![e] = n]
  BY DEF ClientUpdateFinished
<1> HIDE DEF q
<1>5. Good(n)
  BY <1>1, <1>2, <1>3, ContentionGood DEF EndsContention
<1> HIDE DEF n
<1> QED BY <1>1, <1>4, <1>5, ConnKeeps

\* The result of an update in progress, delivered to the replication code.
LEMMA DeliverKeeps ==
    ASSUME IInv, NEW e \in E, NEW h \in Hosts, NEW rcode \in Rcodes, DeliverResult(e, h, rcode)
    PROVE  ConnOK' /\ NetOK'
<1>1. CASE ClientUpdateFinished(e, h, rcode) /\ UNCHANGED net
  BY <1>1, ClientResultKeeps, Untouched
<1>2. CASE AdvertiseFinished(e, h, rcode)
  BY <1>2, AdvertiseKeeps
<1>3. CASE UNCHANGED <<conn, net>>
  BY <1>3, Untouched
<1> QED BY <1>1, <1>2, <1>3, Zenon DEF DeliverResult

LEMMA ResultsKeep ==
    ASSUME IInv, NEW e \in E, NEW h \in Hosts,
           update_finished(e, h) \/ update_failed(e, h)
    PROVE  IInv'
<1>0. /\ HostOK /\ FinOK /\ RestOK /\ host[e][h] \in HostType
      /\ \A b \in BOOLEAN : [host |-> h, src |-> host[e][h].update.src, failed |-> b] \in FinType
  BY DEF IInv, HostOK, HostType, Update, FinType
<1>1. CASE update_finished(e, h)
  <2>1. ConnOK' /\ NetOK'
    BY <1>1, DeliverKeeps DEF update_finished, Rcodes
  <2>2. TakeMessage(host[e][h]) \in HostType
    BY <1>0, SettleType DEF Sources
  <2>3. HostOK'
    BY <1>0, <1>1, <2>2, HostKeeps DEF update_finished
  <2>4. FinOK'
    BY <1>0, <1>1 DEF update_finished, FinOK
  <2> QED BY <1>1, <2>1, <2>3, <2>4, Untouched DEF update_finished, IInv
<1>2. CASE update_failed(e, h)
  <2>1. ConnOK' /\ NetOK'
    BY <1>2, DeliverKeeps DEF update_failed, Rcodes
  <2>2. HostOK'
    BY <1>0, <1>2, EmptyUpdate DEF update_failed, HostOK, HostType
  <2>3. FinOK'
    BY <1>0, <1>2 DEF update_failed, FinOK
  <2>4. RestOK'
    <3>1. used' \in [Faults -> Nat]
      BY <1>0, <1>2, UseKeeps DEF update_failed, Faults
    <3> QED BY <1>0, <1>2, <3>1 DEF update_failed, RestOK
  <2> QED BY <1>2, <2>1, <2>2, <2>3, <2>4, Untouched DEF update_failed, IInv
<1> QED BY <1>1, <1>2

LEMMA CallbackFacts ==
    ASSUME AsyncOK, NEW e \in E, async[e] # <<>>
    PROVE  /\ Head(async[e]) \in CallbackType
           /\ [async EXCEPT ![e] = Tail(@)] \in [E -> Seq(CallbackType)]
<1>1. async[e] \in Seq(CallbackType)
  BY DEF AsyncOK
<1>2. Head(async[e]) \in CallbackType /\ Tail(async[e]) \in Seq(CallbackType)
  BY <1>1, HeadTailProperties
<1> QED BY <1>2 DEF AsyncOK

LEMMA LoopKeeps ==
    ASSUME IInv, NEW e \in E, Settle(e) \/ RunNextUpdate(e) \/ RunDeferred(e)
    PROVE  IInv'
<1>0. ConnOK /\ HostOK /\ AsyncOK /\ FinOK /\ NetOK /\ RestOK
  BY DEF IInv
<1>1. CASE Settle(e)
  <2> DEFINE h == fin[e].host
             r == host[e][h]
  <2>1. h \in Hosts /\ fin[e].src \in Sources
    BY <1>0, <1>1 DEF Settle, FinOK, FinType
  <2>2. r \in HostType
    BY <1>0, <2>1 DEF HostOK
  <2>3. SettleFailed(r, fin[e].src) \in HostType /\ SettleFinished(r) \in HostType
    BY <1>0, <2>1, <2>2, SettleType
  <2>4. HostOK'
    <3> DEFINE n == IF fin[e].failed THEN SettleFailed(r, fin[e].src) ELSE SettleFinished(r)
    <3>1. n \in HostType
      BY <2>3
    <3>2. host' = [host EXCEPT ![e][h] = n]
      BY <1>1 DEF Settle
    <3> HIDE DEF n, r, h
    <3> QED BY <1>0, <2>1, <3>1, <3>2, HostKeeps
  <2>5. AsyncOK'
    <3>1. NextUpdate(h) \in CallbackType
      BY <2>1 DEF NextUpdate, CallbackType, Rcodes
    <3>2. \/ async' = [async EXCEPT ![e] = Append(@, NextUpdate(h))]
          \/ async' = [async EXCEPT ![e] = @]
      BY <1>1 DEF Settle
    <3> HIDE DEF h
    <3>3. CASE async' = [async EXCEPT ![e] = Append(@, NextUpdate(h))]
      BY <1>0, <3>1, <3>3, CallbackKeeps
    <3>4. CASE async' = [async EXCEPT ![e] = @]
      BY <1>0, <3>4 DEF AsyncOK
    <3> QED BY <3>2, <3>3, <3>4
  <2>6. FinOK'
    BY <1>0, <1>1 DEF Settle, FinOK, FinType
  <2> QED BY <1>1, <2>4, <2>5, <2>6, Untouched DEF Settle, IInv
<1>2. CASE RunNextUpdate(e)
  <2> DEFINE h == Head(async[e]).host
             r == host[e][h]
             n == IF ~Updating(e, h) /\ r.clients # <<>> THEN prepare_update(r) ELSE r
  <2>1. AsyncOK' /\ h \in Hosts
    BY <1>0, <1>2, CallbackFacts DEF RunNextUpdate, AsyncOK, CallbackType
  <2>2. r \in HostType
    BY <1>0, <2>1 DEF HostOK
  <2>3. n \in HostType
    BY <2>2, PrepareType
  <2>4. host' = [host EXCEPT ![e][h] = n]
    BY <1>2 DEF RunNextUpdate
  <2> HIDE DEF n, r, h
  <2>5. HostOK'
    BY <1>0, <2>1, <2>3, <2>4, HostKeeps
  <2> QED BY <1>2, <2>1, <2>5, Untouched DEF RunNextUpdate, IInv
<1>3. CASE RunDeferred(e)
  <2>1. AsyncOK' /\ Head(async[e]).rcode \in Rcodes
    BY <1>0, <1>3, CallbackFacts DEF RunDeferred, AsyncOK, CallbackType
  <2>2. ConnOK' /\ NetOK'
    BY <1>3, <2>1, AdvertiseKeeps DEF RunDeferred
  <2> QED BY <1>3, <2>1, <2>2, Untouched DEF RunDeferred, IInv
<1> QED BY <1>1, <1>2, <1>3

LEMMA EnvironmentKeeps ==
    ASSUME IInv, NEW e \in E, NEW h \in Hosts,
           \/ ClientUpdate(e, h) \/ ClientRemove(e, h)
           \/ lease_callback(e, h) \/ OtherUpdate(e, h)
    PROVE  IInv'
<1>0. HostOK /\ RestOK /\ host[e][h] \in HostType /\ MaxUpdates \in Nat
  BY MsgsFacts DEF IInv, HostOK
<1>1. ASSUME clock < MaxUpdates, clock' = clock + 1
      PROVE  /\ clock' \in Msgs
             /\ [msg |-> clock', time |-> 0, src |-> "client"] \in Update
             /\ [msg |-> clock', time |-> clock', src |-> "other"] \in Update
  <2>1. clock' \in Msgs
    BY <1>0, <1>1 DEF RestOK, Msgs
  <2>2. clock' \in Int
    BY <2>1 DEF Msgs
  <2> QED BY <2>1, <2>2 DEF Update, Sources
<1>2. CASE ClientUpdate(e, h)
  <2> DEFINE u == [msg |-> clock', time |-> 0, src |-> "client"]
             n == srp_update_start(host[e][h], u)
  <2>1. n \in HostType /\ clock' \in Msgs
    <3>1. clock < MaxUpdates /\ clock' = clock + 1
      BY <1>2 DEF ClientUpdate
    <3>2. u \in Update /\ clock' \in Msgs
      BY <1>1, <3>1
    <3> HIDE DEF u
    <3> QED BY <1>0, <3>2, UpdateStartType
  <2>2. host' = [host EXCEPT ![e][h] = n]
    BY <1>2 DEF ClientUpdate
  <2> HIDE DEF n, u
  <2>3. HostOK'
    BY <1>0, <2>1, <2>2, HostKeeps
  <2>4. RestOK'
    BY <1>0, <1>2, <2>1 DEF ClientUpdate, RestOK
  <2> QED BY <1>2, <2>3, <2>4, Untouched DEF ClientUpdate, IInv
<1>3. CASE ClientRemove(e, h)
  <2>1. HostOK'
    BY <1>0, <1>3, GoneType, HostKeeps DEF ClientRemove
  <2>2. used' \in [Faults -> Nat]
    BY <1>0, <1>3, UseKeeps DEF ClientRemove, Faults
  <2>3. RestOK'
    BY <1>0, <1>3, <2>2 DEF ClientRemove, RestOK
  <2> QED BY <1>3, <2>1, <2>3, Untouched DEF ClientRemove, IInv
<1>4. CASE lease_callback(e, h)
  <2>1. HostOK'
    BY <1>0, <1>4, GoneType, HostKeeps DEF lease_callback
  <2>2. used' \in [Faults -> Nat]
    BY <1>0, <1>4, UseKeeps DEF lease_callback, Faults
  <2>3. RestOK'
    BY <1>0, <1>4, <2>2 DEF lease_callback, RestOK
  <2> QED BY <1>4, <2>1, <2>3, Untouched DEF lease_callback, IInv
<1>5. CASE OtherUpdate(e, h)
  <2> DEFINE u == [msg |-> clock', time |-> clock', src |-> "other"]
             n == srp_update_start(host[e][h], u)
  <2>1. n \in HostType /\ clock' \in Msgs
    <3>1. clock < MaxUpdates /\ clock' = clock + 1
      BY <1>5 DEF OtherUpdate
    <3>2. u \in Update /\ clock' \in Msgs
      BY <1>1, <3>1
    <3> HIDE DEF u
    <3> QED BY <1>0, <3>2, UpdateStartType
  <2>2. host' = [host EXCEPT ![e][h] = n]
    BY <1>5 DEF OtherUpdate
  <2>3. used' \in [Faults -> Nat]
    BY <1>0, <1>5, UseKeeps DEF OtherUpdate, Faults
  <2> HIDE DEF n, u
  <2>4. HostOK'
    BY <1>0, <2>1, <2>2, HostKeeps
  <2>5. RestOK'
    BY <1>0, <1>5, <2>1, <2>3 DEF OtherUpdate, RestOK
  <2> QED BY <1>5, <2>4, <2>5, Untouched DEF OtherUpdate, IInv
<1> QED BY <1>2, <1>3, <1>4, <1>5

-----------------------------------------------------------------------------
(* The invariant is inductive.                                             *)

LEMMA InitIInv == Init => IInv
<1> SUFFICES ASSUME Init PROVE IInv
  OBVIOUS
<1>1. ConnOK
  <2>1. \A e \in E : Good(Connection(IF e = "sv" THEN "none" ELSE "idle"))
    BY ConnectionGood, PlainStates
  <2> QED BY <2>1 DEF Init, ConnOK, Good, Fit
<1>2. HostOK
  <2>1. AbsentHost \in HostType
    BY EmptySeq, MsgsFacts, EmptyUpdate DEF AbsentHost, HostType
  <2> QED BY <2>1 DEF Init, HostOK
<1>3. AsyncOK /\ NetOK /\ FinOK
  BY EmptySeq DEF Init, AsyncOK, NetOK, FinOK, FinType
<1>4. RestOK
  BY MsgsFacts DEF Init, RestOK
<1> QED BY <1>1, <1>2, <1>3, <1>4 DEF IInv

LEMMA RunKeeps ==
    ASSUME IInv, NEW e \in E, Run(e)
    PROVE  IInv'
<1>1. CASE \/ NoticeLoss(e) \/ srpl_disconnect_action(e) \/ srpl_disconnect_wait_action(e)
           \/ srpl_dso_retry_delay(e)
  BY <1>1, LossKeeps
<1>2. CASE \/ srpl_send_candidates_send_action(e) \/ SendCandidatesResponse(e)
           \/ CandidateReceived(e) \/ srpl_candidate_check_action(e)
  BY <1>2, CandidatesKeep
<1>3. CASE \/ CandidateHostReceived(e) \/ srpl_candidate_host_prepare_action(e)
           \/ srpl_candidate_host_re_evaluate_action(e)
  BY <1>3, CandidateHostKeeps
<1>4. CASE srpl_candidate_host_apply_action(e) \/ srpl_stashed_host_apply_action(e)
  BY <1>4, ApplyActionsKeep
<1>5. CASE \/ SendCandidatesReceived(e) \/ srpl_send_candidates_received_action(e)
           \/ srpl_candidates_remaining_check_action(e)
           \/ srpl_send_candidates_response_send_action(e)
  BY <1>5, AskedKeeps
<1>6. CASE \/ srpl_next_candidate_send_action(e) \/ srpl_next_candidate_send_wait_action(e)
           \/ srpl_candidate_host_send_action(e) \/ srpl_candidate_host_response_wait_action(e)
  BY <1>6, SendingKeeps
<1>7. CASE ReadyHostReceived(e) \/ UnmatchedResponse(e) \/ ReadyHostResponse(e)
  BY <1>7, ReadyReceives
<1>8. CASE \/ srpl_stashed_host_check_action(e) \/ srpl_stashed_host_finished_action(e)
           \/ srpl_srp_client_ack_evaluate_action(e) \/ srpl_srp_client_update_send_action(e)
  BY <1>8, ReadyActs
<1>9. CASE \E h \in Hosts : update_finished(e, h)
  BY <1>9, ResultsKeep
<1>10. CASE Settle(e) \/ RunNextUpdate(e) \/ RunDeferred(e)
  BY <1>10, LoopKeeps
<1> QED BY <1>1, <1>2, <1>3, <1>4, <1>5, <1>6, <1>7, <1>8, <1>9, <1>10, Zenon DEF Run

LEMMA NextIInv == IInv /\ [Next]_vars => IInv'
<1> SUFFICES ASSUME IInv, [Next]_vars PROVE IInv'
  OBVIOUS
<1>1. CASE Establish \/ LoseConnection
  BY <1>1, EstablishKeeps
<1>2. CASE \E e \in E : Run(e)
  BY <1>2, RunKeeps
<1>3. CASE \E e \in E : srpl_disconnect(e)
  BY <1>3, LossKeeps
<1>4. CASE \E e \in E, h \in Hosts :
              \/ ClientUpdate(e, h) \/ ClientRemove(e, h) \/ lease_callback(e, h)
              \/ OtherUpdate(e, h) \/ update_failed(e, h)
  BY <1>4, EnvironmentKeeps, ResultsKeep
<1>5. CASE UNCHANGED vars
  BY <1>5, Untouched DEF vars, IInv
<1> QED BY <1>1, <1>2, <1>3, <1>4, <1>5, Zenon DEF Next, Environment

LEMMA Inductive == Spec => []IInv
BY InitIInv, NextIInv, PTL DEF Spec

-----------------------------------------------------------------------------
(* The theorems.                                                           *)

\* Type correctness: whatever the clients, mDNSResponder and the network do,
\* the connections, the host lists, the streams and the callbacks of both
\* servers keep the shape of the C structures they model.
THEOREM TypeCorrect == Spec => []TypeOK
<1>1. IInv => TypeOK
  BY DEF IInv, ConnOK, HostOK, AsyncOK, FinOK, NetOK, RestOK, TypeOK
<1> QED BY <1>1, Inductive, PTL

\* No state action of srp-replication.c follows a pointer to an attachment
\* (candidate, stashed host, current candidate, head of the client update
\* queue) that was freed by a disconnect or never set, for any number of
\* hosts, updates, faults and reconnections.
THEOREM AttachmentsPresent == Spec => []Attached
<1>1. IInv => Attached
  BY DEF IInv, ConnOK, Good, Attached
<1> QED BY <1>1, Inductive, PTL

\* The client update queue has at most one update in flight, and it is the
\* head, so an acknowledgement can only be for the head
\* (srpl_srp_client_ack_evaluate_action), for any number of queued updates.
THEOREM HeadOfQueueInFlight == Spec => []OnlyHeadSent
<1>1. IInv => OnlyHeadSent
  BY DEF IInv, ConnOK, Good, Fit, OnlyHeadSent
<1> QED BY <1>1, Inductive, PTL

=============================================================================
