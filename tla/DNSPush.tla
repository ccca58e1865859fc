------------------------------ MODULE DNSPush ------------------------------
(***************************************************************************)
(* The DNS Push client of mDNSResponder (mDNSCore/uDNS.c) over DNS         *)
(* Stateful Operations (DSO/dso.c) and its TCP transport                   *)
(* (DSO/dso-transport.c, the Network framework build).  A long-lived       *)
(* question looks for the push server of its zone, shares one connection   *)
(* to it with the other questions, subscribes, and falls back to polling   *)
(* when anything goes wrong.                                               *)
(*                                                                         *)
(* All questions are in one zone, served by one host.  Server objects are  *)
(* numbered: at most one is listed at a time, but a cancelled one lives on *)
(* until dso_idle.  A server object, its zone object, its dso_state_t, its *)
(* dso_connect_state_t and the far ends of its connections share the       *)
(* number.  Each address is one attempt to connect, with a connection of   *)
(* its own; the transport of the dso_state_t is given one of them, not     *)
(* always that of the attempt which succeeds, and may be replaced.         *)
(* Every step runs under the daemon's locks.                               *)
(***************************************************************************)
EXTENDS Integers, Sequences, FiniteSets, FiniteSetsExt

CONSTANTS
  Questions,      \* the DNSQuestion objects of the clients
  NameOf,         \* the name, type and class each of them asks for
  MaxServers,     \* bound on the push server objects alive at a time
  MaxOutstanding, \* max_outstanding_queries of a dso_state_t
  MaxAddresses,   \* bound on the addresses of a push server that are tried
  MaxAnswers,     \* bound on the answers on their way once a change is announced
  MaxStarts,      \* bound on mDNS_StartQuery calls
  MaxEvents,      \* bound on changes of addresses, faults, reconfigurations and wake-ups
  Free, Ignored   \* no outstanding query, and one whose context is NULL

Names == {NameOf[x] : x \in Questions}
Servers == 1..MaxServers
Slots == 1..MaxOutstanding
Attempts == 1..MaxAddresses
NoQuestion == Free

ASSUME PushAssumption ==
  /\ IsFiniteSet(Questions)
  /\ {MaxServers, MaxOutstanding, MaxAddresses, MaxAnswers, MaxStarts, MaxEvents} \subseteq Nat
  /\ MaxAddresses # 0
  /\ Free \notin Questions /\ Ignored \notin Questions \cup {Free}

VARIABLES
  q,       \* the questions: DuplicateOf, LLQ state, dnsPushServer and nta
  server,  \* the DNSPushServer and DNSPushZone objects
  dso,     \* the dso_state_t objects
  connect, \* the dso_connect_state_t objects and their nw_connections
  peer,    \* the push server's ends of the connections
  pinned,  \* the names with a cached answer marked DNSPushSubscribed
  bad,     \* an outstanding query points at a stopped question, or a NULL pointer was used
  starts,  \* questions started so far
  events   \* how much of MaxEvents is used up

vars == <<q, server, dso, connect, peer, pinned, bad, starts, events>>

NoServer == [refs |-> 0, listed |-> FALSE, zrefs |-> 0, zlisted |-> FALSE,
             state |-> "none", connection |-> FALSE, connectInfo |-> FALSE]

\* transport->connection is the connection of an attempt, or 0; reading are the
\* connections that this transport or an earlier one reads from.
NoDSO == [life |-> "none", session |-> FALSE, transport |-> "none", connection |-> 0,
          reading |-> {}, acts |-> {}, out |-> [i \in Slots |-> Free]]
NoConnect == [life |-> "none", lookup |-> FALSE, queue |-> 0, tried |-> 0,
              connecting |-> FALSE, current |-> 0, last_event |-> FALSE,
              nw |-> [a \in Attempts |-> "none"]]

\* The open connections, the names subscribed to on each, and the messages on
\* their way in either direction, oldest first; conn is the connection of each.
NoPeer == [open |-> {}, subs |-> {}, up |-> <<>>, down |-> <<>>]
Stopped == [on |-> FALSE, dup |-> NoQuestion, state |-> "Init", server |-> 0, nta |-> FALSE]

\* The steps below map a state, a record of the variables they may change.
Now == [q |-> q, server |-> server, dso |-> dso, connect |-> connect,
        peer |-> peer, pinned |-> pinned, bad |-> bad]

Become(S) ==
  /\ q' = S.q /\ server' = S.server /\ dso' = S.dso /\ connect' = S.connect
  /\ peer' = S.peer /\ pinned' = S.pinned /\ bad' = S.bad

\* What need not happen: a change of addresses counts one, anything else two.
Event(weight) == events + weight <= MaxEvents /\ events' = events + weight

Holders(S, s) == {x \in Questions : S.q[x].server = s}

-----------------------------------------------------------------------------
(* Reference counts and DSO messages.                                      *)

ReleaseServer(S, s, k) == [S EXCEPT !.server[s].refs = @ - k]

\* DNSPushZoneFinalize releases the zone's reference to its server.
ReleaseZone(S, s, k) ==
  LET z == S.server[s].zrefs - k
  IN  [S EXCEPT !.server[s].zrefs = z,
                !.server[s].refs = IF z = 0 THEN @ - 1 ELSE @]

\* ReleaseDNSPushZoneAndServerForQuestion for the questions X of server s.
ReleaseForQuestions(S, X, s) ==
  LET R == ReleaseServer(ReleaseZone(S, s, Cardinality(X)), s, Cardinality(X))
  IN  [R EXCEPT !.q = [x \in Questions |-> IF x \in X THEN [R.q[x] EXCEPT !.server = 0]
                                                      ELSE R.q[x]]]

\* A message, to be sent on the connection that the transport has.
Message(S, s, type, slot, n) ==
  [type |-> type, slot |-> slot, name |-> n, conn |-> S.dso[s].connection]

\* What is written to connection a arrives, at once or when it is ready.
Usable(S, s, a) == a \in S.peer[s].open \/ (a # 0 /\ S.connect[s].nw[a] = "starting")

\* dso_message_write: nothing is written without a connection.
Write(S, s, m) ==
  IF Usable(S, s, m.conn) THEN [S EXCEPT !.peer[s].up = Append(@, m)] ELSE S

\* DNSPushSendSubscriptionChange(mDNStrue).  The result of dso_make_message is
\* ignored: with a full table the TLV is written over the message header.  The
\* slot stands for the random message id, which differs from those in use.
SendSubscribe(S, s, x) ==
  LET free == {i \in Slots : S.dso[s].out[i] = Free}
      slot == Min(free)
  IN  IF S.dso[s].transport = "none" THEN S
      ELSE IF free = {} THEN Write(S, s, Message(S, s, "garbage", 0, NameOf[x]))
      ELSE Write([S EXCEPT !.dso[s].out[slot] = x], s,
                 Message(S, s, "subscribe", slot, NameOf[x]))

SendUnsubscribe(S, s, x) ==
  Write(S, s, Message(S, s, "unsubscribe", 0, NameOf[x]))

-----------------------------------------------------------------------------
(* Subscriptions.                                                          *)

\* StartLLQPolling
StartLLQPolling(S, x) == [S EXCEPT !.q[x].state = "Poll", !.q[x].nta = FALSE]

\* A record that was DNSPushSubscribed ages again.
Unpin(S, N) == [S EXCEPT !.pinned = @ \ N]

\* Mutation of Unsubscribe: dso_ignore_response drops the outstanding query.
Unsubscribe_frees_slot(S, x) ==
  LET s == S.q[x].server
      ignored == [S EXCEPT !.dso[s].out = [i \in Slots |->
                    IF S.dso[s].out[i] = x THEN Free ELSE S.dso[s].out[i]]]
      told == IF S.server[s].state \notin {"Connected", "SessionEstablished"} THEN S
              ELSE IF S.dso[s].session THEN SendUnsubscribe(ignored, s, x) ELSE ignored
      dropped == Unpin([told EXCEPT !.dso[s].acts = @ \ {x}], {NameOf[x]})
  IN  ReleaseForQuestions(IF S.server[s].connection THEN dropped ELSE S, {x}, s)

\* UnsubscribeQuestionFromDNSPushServer, without the fall back to polling.
Unsubscribe(S, x) ==
  LET s == S.q[x].server
      ignored == [S EXCEPT !.dso[s].out = [i \in Slots |->
                    IF S.dso[s].out[i] = x THEN Ignored ELSE S.dso[s].out[i]]]
      told == IF S.server[s].state \notin {"Connected", "SessionEstablished"} THEN S
              ELSE IF S.dso[s].session THEN SendUnsubscribe(ignored, s, x) ELSE ignored
      dropped == Unpin([told EXCEPT !.dso[s].acts = @ \ {x}], {NameOf[x]})
  IN  ReleaseForQuestions(IF S.server[s].connection THEN dropped ELSE S, {x}, s)

\* Mutation of UnsubscribeAll: the questions do not fall back to polling.
UnsubscribeAll_silent(S, s) ==
  FoldSet(LAMBDA x, R : Unsubscribe(R, x), S, Holders(S, s))

\* UnsubscribeAllQuestionsFromDNSPushServer
UnsubscribeAll(S, s) ==
  FoldSet(LAMBDA x, R : StartLLQPolling(Unsubscribe(R, x), x), S, Holders(S, s))

\* DNSPushZoneRemove and the unlinking of DNSPushServerRemove.
ServerRemove(S, s) ==
  LET R == IF S.server[s].zlisted THEN ReleaseZone(S, s, 1) ELSE S
  IN  IF S.server[s].listed
      THEN ReleaseServer([R EXCEPT !.server[s].zlisted = FALSE, !.server[s].listed = FALSE], s, 1)
      ELSE R

\* DNSPushServerCancel: the dso_state_t keeps its reference until dso_idle, the
\* dso_connect_state_t gives its up here, and its nw_connections are cancelled.
DNSPushServerCancel(S, s) ==
  LET R == ServerRemove(UnsubscribeAll(S, s), s)
      D == IF R.server[s].connection
           THEN [R EXCEPT !.server[s].connection = FALSE, !.dso[s].life = "cleanup"] ELSE R
  IN  IF R.server[s].connectInfo
      THEN ReleaseServer([D EXCEPT !.server[s].connectInfo = FALSE,
                                   !.connect[s] = [NoConnect EXCEPT !.life = "cleanup"]], s, 1)
      ELSE D

\* Mutation of Connected: the activities added while connecting are forgotten.
Connected_silent(S, s) == [S EXCEPT !.server[s].state = "Connected"]

\* kDSOEventType_Connected: a subscribe request for every activity.
Connected(S, s) ==
  FoldSet(LAMBDA x, R : SendSubscribe(R, s, x), [S EXCEPT !.server[s].state = "Connected"],
          S.dso[s].acts)

-----------------------------------------------------------------------------
(* Questions.                                                              *)

Primary(S, n) == {x \in Questions : S.q[x].on /\ NameOf[x] = n /\ S.q[x].dup = NoQuestion}

\* mDNS_StartQuery_internal: a duplicate of an earlier question is left alone.
Start(S, x) ==
  LET P == Primary(S, NameOf[x])
  IN  [S EXCEPT !.q[x] = [Stopped EXCEPT !.on = TRUE,
                            !.dup = IF P = {} THEN NoQuestion ELSE CHOOSE p \in P : TRUE]]

\* Mutation of HandOver: the old question keeps its dnsPushServer.
HandOver_shares(S, x, y) ==
  LET s == S.q[x].server
      R == [S EXCEPT !.q = [z \in Questions |->
               IF z = y THEN [S.q[x] EXCEPT !.dup = NoQuestion]
               ELSE IF z = x THEN [S.q[x] EXCEPT !.nta = FALSE]
               ELSE IF S.q[z].dup = x THEN [S.q[z] EXCEPT !.dup = y] ELSE S.q[z]]]
  IN  IF s # 0 /\ S.server[s].connection /\ x \in S.dso[s].acts
      THEN [R EXCEPT !.dso[s].acts = (@ \ {x}) \cup {y}]
      ELSE R

\* UpdateQuestionDuplicates and DNSPushUpdateQuestionDuplicate: y takes over
\* from x.  The activity follows, the context of an outstanding query does not.
HandOver(S, x, y) ==
  LET s == S.q[x].server
      R == [S EXCEPT !.q = [z \in Questions |->
               IF z = y THEN [S.q[x] EXCEPT !.dup = NoQuestion]
               ELSE IF z = x THEN [S.q[x] EXCEPT !.server = 0, !.nta = FALSE]
               ELSE IF S.q[z].dup = x THEN [S.q[z] EXCEPT !.dup = y] ELSE S.q[z]]]
  IN  IF s # 0 /\ S.server[s].connection /\ x \in S.dso[s].acts
      THEN [R EXCEPT !.dso[s].acts = (@ \ {x}) \cup {y}]
      ELSE R

\* mDNS_StopQuery_internal; the client may free the question afterwards.
Stop(S, x) ==
  LET dups == {y \in Questions : S.q[y].dup = x}
      R == IF dups # {} THEN HandOver(S, x, CHOOSE y \in dups : TRUE) ELSE S
      U == IF R.q[x].server # 0 THEN Unsubscribe(R, x) ELSE R
  IN  [U EXCEPT !.q[x] = Stopped,
                !.bad = @ \/ \E s \in Servers, i \in Slots :
                                U.dso[s].life = "live" /\ U.dso[s].out[i] = x]

StartQuery(x) ==
  /\ ~q[x].on /\ starts < MaxStarts
  /\ Become(Start(Now, x))
  /\ starts' = starts + 1 /\ UNCHANGED events

StopQuery(x) ==
  /\ q[x].on
  /\ Become(Stop(Now, x))
  /\ UNCHANGED <<starts, events>>

\* The question's server is not one it can be served by.
Mismatch(x) ==
  LET held == IF q[x].server = 0 THEN "none" ELSE server[q[x].server].state
  IN  CASE q[x].state = "Discovery" -> held # "none"
        [] q[x].state = "Connecting" ->
             held \notin {"InProgress", "Connected", "SessionEstablished"}
        [] q[x].state = "Established" -> held # "SessionEstablished"
        [] OTHER -> FALSE

\* uDNS_HandleLLQState, from the question's timer.
HandleLLQState(x) ==
  /\ q[x].on /\ q[x].dup = NoQuestion
  /\ \/ /\ q[x].state = "Init" \* DiscoverDNSPushServer
        /\ Become([Now EXCEPT !.q[x].state = "Discovery", !.q[x].nta = TRUE])
     \/ /\ Mismatch(x)
        /\ Become(StartLLQPolling(IF q[x].server # 0 THEN Unsubscribe(Now, x) ELSE Now, x))
  /\ UNCHANGED <<starts, events>>

\* DNSPushServerCreate: references of the caller, the dso_state_t, the
\* dso_connect_state_t, the list and the zone; zone references of the caller and
\* the list.  ok: dso_connect could start looking up the server's addresses.
ServerCreate(S, s, ok) ==
  [S EXCEPT !.server[s] = [refs |-> 5, listed |-> TRUE, zrefs |-> 2, zlisted |-> TRUE,
                           state |-> IF ok THEN "InProgress" ELSE "ConnectFailed",
                           connection |-> TRUE, connectInfo |-> TRUE],
            !.dso[s] = [NoDSO EXCEPT !.life = "live"],
            !.connect[s] = [NoConnect EXCEPT !.life = "live", !.lookup = ok]]

\* DNSPushZoneAndServerCopy: s is the listed server or a new one.
ZoneAndServerCopy(S, s, ok) ==
  IF S.server[s].listed
  THEN [S EXCEPT !.server[s].refs = @ + 1, !.server[s].zrefs = @ + 1]
  ELSE ServerCreate(S, s, ok)

\* SubscribeToDNSPushServer: an activity of that name must not exist yet.
Subscribe(S, x, s, ok) ==
  LET C == ZoneAndServerCopy(S, s, ok)
      A == [C EXCEPT !.dso[s].acts = @ \cup {x}]
      M == IF C.server[s].state \in {"Connected", "SessionEstablished"}
           THEN SendSubscribe(A, s, x) ELSE A
      H == [M EXCEPT !.q[x].server = s]
  IN  IF \E y \in C.dso[s].acts : NameOf[y] = NameOf[x]
      THEN StartLLQPolling(ReleaseServer(ReleaseZone(C, s, 1), s, 1), x)
      ELSE IF H.server[s].state \in {"InProgress", "Connected", "SessionEstablished"} THEN H
      ELSE DNSPushServerCancel(H, s)

Listed == {s \in Servers : server[s].listed}
Fresh == {s \in Servers : server[s] = NoServer}

\* DNSPushGotZoneData: no push server, or the one whose name the lookup gave.
GotZoneData(x) ==
  /\ q[x].on /\ q[x].nta
  /\ LET G == [Now EXCEPT !.q[x].nta = FALSE]
     IN  \/ Become(StartLLQPolling(G, x))
         \/ \E s \in (IF Listed # {} THEN Listed ELSE Fresh), ok \in BOOLEAN :
              Become(Subscribe([G EXCEPT !.q[x].state = "Connecting"], x, s, ok))
  /\ UNCHANGED <<starts, events>>

\* mDNSCoreRestartQueries on wake: ActivateUnicastQuery leaves dnsPushServer alone.
Wake ==
  /\ Event(2)
  /\ q' = [x \in Questions |-> IF q[x].on /\ q[x].dup = NoQuestion
                               THEN [q[x] EXCEPT !.state = "Init", !.nta = FALSE] ELSE q[x]]
  /\ UNCHANGED <<server, dso, connect, peer, pinned, bad, starts>>

\* The steps f for the questions X, one after the other.
ForEach(f(_, _), S, X) == FoldSet(LAMBDA x, R : f(R, x), S, X)

\* Querier_ProcessDNSServiceChanges, with a new DNS service for every question:
\* the questions are restarted in list order, a primary before its duplicates
\* (which the new service keeps apart until they are restarted too), and the
\* servers no question holds are cancelled.
Reconfigure ==
  /\ Event(2)
  /\ LET idle == {s \in Listed : Holders(Now, s) = {}}
         first == {x \in Questions : q[x].on /\ q[x].dup = NoQuestion}
         rest == {x \in Questions : q[x].on /\ q[x].dup # NoQuestion}
         R == ForEach(Stop, ForEach(Stop, Now, first), rest)
     IN  Become(ForEach(DNSPushServerCancel, ForEach(Start, ForEach(Start, R, first), rest), idle))
  /\ UNCHANGED starts

-----------------------------------------------------------------------------
(* Making the connection.                                                  *)

\* dso_connect_internal: the next address, if any.
ConnectInternal(S, s) ==
  LET c == S.connect[s]
  IN  IF c.queue > 0
      THEN [S EXCEPT !.connect[s] =
             [c EXCEPT !.queue = @ - 1, !.tried = @ + 1, !.connecting = TRUE,
                       !.current = c.tried + 1, !.nw[c.tried + 1] = "starting",
                       !.last_event = TRUE]]
      ELSE IF c.lookup THEN [S EXCEPT !.connect[s].last_event = TRUE]
      ELSE DNSPushServerCancel(S, s)

\* dso_inaddr_callback and dso_connect_state_process_address_change: no usable
\* address, an address added, one removed, or one removed that has been tried.
AddressCallback(s) ==
  LET c == connect[s]
      seen == [Now EXCEPT !.connect[s].last_event = TRUE]
      Changed(n) == LET S == [seen EXCEPT !.connect[s].queue = n]
                    IN  IF c.connecting THEN S ELSE ConnectInternal(S, s)
  IN  /\ c.lookup
      /\ \/ ~c.last_event /\ Become(seen) /\ UNCHANGED events
         \/ c.tried + c.queue = 0 /\ Become(Changed(1)) /\ UNCHANGED events
         \/ /\ Event(1)
            /\ \/ c.tried + c.queue \in 1..MaxAddresses - 1 /\ Become(Changed(c.queue + 1))
               \/ c.queue > 0 /\ Become(Changed(c.queue - 1))
               \/ c.tried > 0 /\ Become(Changed(c.queue))
      /\ UNCHANGED starts

\* The state handler of attempt a: nw_connection_state_waiting.
ConnectionWaiting(s, a) ==
  /\ connect[s].nw[a] = "starting"
  /\ connect' = [connect EXCEPT ![s].connecting = FALSE, ![s].nw[a] = "cancelling"]
  /\ UNCHANGED <<q, server, dso, peer, pinned, bad, starts, events>>

\* nw_connection_state_failed or _cancelled; a connection that was ready may
\* fail too.  The handler clears cs->connection, whichever attempt that is.
ConnectionFailed(s, a) ==
  /\ \/ connect[s].nw[a] \in {"starting", "cancelling"}
     \/ connect[s].nw[a] = "ready" /\ a \notin peer[s].open
  /\ Become(ConnectInternal([Now EXCEPT !.connect[s].connecting = FALSE, !.connect[s].current = 0,
                                        !.connect[s].nw[a] = "none"], s))
  /\ UNCHANGED <<starts, events>>

\* nw_connection_state_ready, dso_connection_succeeded and dso_transport_create:
\* a new transport gets cs->connection, which is NULL or a later attempt's when an
\* earlier attempt was cancelled meanwhile.  The transport it replaces reads on.
ConnectionReady(s, a) ==
  /\ connect[s].nw[a] = "starting"
  /\ LET given == connect[s].current
         S == [Now EXCEPT
           !.dso[s] = [dso[s] EXCEPT !.transport = "made", !.connection = given,
                                     !.reading = @ \cup ({given} \ {0})],
           !.peer[s] = [peer[s] EXCEPT !.open = @ \cup {a}],
           !.connect[s] = [connect[s] EXCEPT !.connecting = FALSE, !.current = 0, !.nw[a] = "ready",
                                             !.last_event = FALSE, !.lookup = FALSE]]
     IN  Become(Connected(S, s))
  /\ UNCHANGED <<starts, events>>

\* dso_transport_idle: 90 seconds without an event while not connecting.
ConnectTimeout(s) ==
  /\ connect[s].last_event /\ ~connect[s].connecting
  /\ Become(DNSPushServerCancel(Now, s))
  /\ UNCHANGED <<starts, events>>

\* DNSPushDSOCallback, kDSOEventType_Finalize: the server may be freed as well.
FinalizeDSO(S, s) ==
  LET R == ReleaseServer(S, s, 1)
  IN  IF R.server[s].refs = 0 THEN [R EXCEPT !.server[s] = NoServer] ELSE R

\* dso_idle and dso_transport_idle free what was cancelled; the finalized
\* transport closes its connection.
DSOIdle ==
  LET D == {s \in Servers : dso[s].life = "cleanup"}
      F == [Now EXCEPT
             !.dso = [s \in Servers |-> IF s \in D THEN NoDSO ELSE dso[s]],
             !.connect = [s \in Servers |-> IF connect[s].life = "cleanup" THEN NoConnect
                                                                         ELSE connect[s]],
             !.peer = [s \in Servers |-> IF s \in D THEN NoPeer ELSE peer[s]]]
  IN  /\ D # {}
      /\ Become(ForEach(FinalizeDSO, F, D))
      /\ UNCHANGED <<starts, events>>

-----------------------------------------------------------------------------
(* The session.                                                            *)

\* kDSOEventType_DSOResponse.  A refusal is charged to the server the question
\* holds; a response nobody waits for any more establishes the session anyway.
ReceiveResponse(S, s, slot, ok) ==
  LET x == S.dso[s].out[slot]
      R == [S EXCEPT !.dso[s].out[slot] = Free, !.dso[s].session = @ \/ ok]
  IN  IF x = Ignored THEN [R EXCEPT !.server[s].state = "SessionEstablished"]
      ELSE IF ~ok /\ S.q[x].server = 0 THEN [S EXCEPT !.bad = TRUE]
      ELSE IF ok THEN Unpin([R EXCEPT !.q[x].state = "Established",
                                      !.server[s].state = "SessionEstablished"], {NameOf[x]})
      ELSE StartLLQPolling([R EXCEPT !.server[S.q[x].server].state = "NoDNSPush"], x)

\* Mutation of ReceiveUpdate: the record is marked whether or not a question waits for it.
ReceiveUpdate_any(S, s, n, add, cached) ==
  IF ~add THEN Unpin(S, {n})
  ELSE IF cached THEN S ELSE [S EXCEPT !.pinned = @ \cup {n}]

\* DNSPushProcessResponse(s): for a question of that name which holds this
\* server.  A record in the cache already is refreshed, and not marked.
ReceiveUpdate(S, s, n, add, cached) ==
  IF \A x \in Holders(S, s) : NameOf[x] # n THEN S
  ELSE IF ~add THEN Unpin(S, {n})
  ELSE IF cached THEN S ELSE [S EXCEPT !.pinned = @ \cup {n}]

\* The messages that can be delivered next: the oldest of each connection.
Foremost(w) == {i \in DOMAIN w : \A j \in DOMAIN w : j < i => w[j].conn # w[i].conn}

\* The messages but the i-th.
Without(w, i) == [j \in 1..Len(w) - 1 |-> IF j < i THEN w[j] ELSE w[j + 1]]

Receive(s) ==
  /\ dso[s].life = "live"
  /\ \E i \in Foremost(peer[s].down) :
       LET m == peer[s].down[i]
           S == [Now EXCEPT !.peer[s].down = Without(@, i)]
       IN  /\ m.conn \in dso[s].reading
           /\ \/ m.type = "response" /\ Become(ReceiveResponse(S, s, m.slot, m.ok))
              \/ /\ m.type = "update"
                 /\ \E cached \in BOOLEAN : Become(ReceiveUpdate(S, s, m.name, m.ok, cached))
  /\ UNCHANGED <<starts, events>>

\* The connections whose pending read, or write, ends with an error.
Broken(s) == {a \in dso[s].reading : a \notin peer[s].open /\ connect[s].nw[a] # "starting"}

\* The read fails: dso_state_cancel, CancelDNSPushServerForDSO.
ReadFails(s) ==
  /\ dso[s].life = "live" /\ Broken(s) # {}
  /\ Become(DNSPushServerCancel(Now, s))
  /\ UNCHANGED <<starts, events>>

\* The push server answers a request, and gives up on a malformed message.
PeerReceive(s) ==
  /\ \E i \in Foremost(peer[s].up) :
       LET m == peer[s].up[i]
           P == [peer[s] EXCEPT !.up = Without(@, i)]
           Answer(ok) == [type |-> "response", slot |-> m.slot, name |-> m.name, conn |-> m.conn,
                          ok |-> ok]
       IN  /\ m.conn \in peer[s].open
           /\ \/ /\ m.type = "subscribe"
                 /\ peer' = [peer EXCEPT ![s] = [P EXCEPT !.subs = @ \cup {<<m.conn, m.name>>},
                                                          !.down = Append(@, Answer(TRUE))]]
                 /\ UNCHANGED events
              \/ /\ m.type = "subscribe" /\ Event(2)
                 /\ peer' = [peer EXCEPT ![s] = [P EXCEPT !.down = Append(@, Answer(FALSE))]]
              \/ /\ m.type = "unsubscribe"
                 /\ peer' = [peer EXCEPT ![s] = [P EXCEPT !.subs = @ \ {<<m.conn, m.name>>}]]
                 /\ UNCHANGED events
              \/ /\ m.type = "garbage"
                 /\ peer' = [peer EXCEPT ![s] = [P EXCEPT !.open = @ \ {m.conn}]]
                 /\ UNCHANGED events
  /\ UNCHANGED <<q, server, dso, connect, pinned, bad, starts>>

\* A change of a record someone subscribed to on connection a.
PeerUpdate(s, a, n, add) ==
  /\ a \in peer[s].open /\ <<a, n>> \in peer[s].subs
  /\ Len(peer[s].down) < MaxAnswers
  /\ peer' = [peer EXCEPT ![s].down =
                Append(@, [type |-> "update", slot |-> 0, name |-> n, conn |-> a, ok |-> add])]
  /\ UNCHANGED <<q, server, dso, connect, pinned, bad, starts, events>>

\* The push server or the network ends connection a.
PeerCloses(s, a) ==
  /\ a \in peer[s].open /\ Event(2)
  /\ peer' = [peer EXCEPT ![s].open = @ \ {a}]
  /\ UNCHANGED <<q, server, dso, connect, pinned, bad, starts>>

-----------------------------------------------------------------------------
Init ==
  /\ q = [x \in Questions |-> Stopped]
  /\ server = [s \in Servers |-> NoServer]
  /\ dso = [s \in Servers |-> NoDSO]
  /\ connect = [s \in Servers |-> NoConnect]
  /\ peer = [s \in Servers |-> NoPeer]
  /\ pinned = {}
  /\ bad = FALSE /\ starts = 0 /\ events = 0

Timers(x) == HandleLLQState(x) \/ GotZoneData(x)
Connecting(s) ==
  \/ AddressCallback(s) \/ ConnectTimeout(s)
  \/ \E a \in Attempts : ConnectionWaiting(s, a) \/ ConnectionFailed(s, a) \/ ConnectionReady(s, a)
Session(s) == Receive(s) \/ ReadFails(s)
Remote(s) ==
  \/ PeerReceive(s)
  \/ \E a \in Attempts : PeerCloses(s, a) \/ \E n \in Names, add \in BOOLEAN : PeerUpdate(s, a, n, add)

\* Nothing is said about what follows once a pointer is bad.
Next ==
  /\ ~bad
  /\ \/ \E x \in Questions : StartQuery(x) \/ StopQuery(x) \/ Timers(x)
     \/ Wake \/ Reconfigure \/ DSOIdle
     \/ \E s \in Servers : Connecting(s) \/ Session(s) \/ Remote(s)

\* The guards of the steps that are certain to be taken.
TimersDue(x) ==
  q[x].on /\ (q[x].nta \/ (q[x].dup = NoQuestion /\ (q[x].state = "Init" \/ Mismatch(x))))
ConnectingDue(s) ==
  \/ connect[s].lookup /\ (~connect[s].last_event \/ connect[s].tried + connect[s].queue = 0)
  \/ connect[s].last_event /\ ~connect[s].connecting
  \/ \E a \in Attempts : connect[s].nw[a] \in {"starting", "cancelling"}
SessionDue(s) ==
  \/ /\ dso[s].life = "live"
     /\ Broken(s) # {} \/ \E i \in DOMAIN peer[s].down : peer[s].down[i].conn \in dso[s].reading
  \/ \E i \in DOMAIN peer[s].up : peer[s].up[i].conn \in peer[s].open

\* Nothing stays due for ever: timers fire, the platform reports on lookups and
\* connection attempts, what was sent is read, and the push server answers.
\* None of these steps can be repeated for ever with its guard still true, so
\* this is their weak fairness.
Fairness ==
  /\ \A x \in Questions : []<>(bad \/ ~TimersDue(x))
  /\ \A s \in Servers : []<>(bad \/ ~ConnectingDue(s)) /\ []<>(bad \/ ~SessionDue(s))

Spec == Init /\ [][Next]_vars /\ Fairness

-----------------------------------------------------------------------------
(* Properties.                                                             *)

Messages == [type : {"subscribe", "unsubscribe", "garbage"}, slot : 0..MaxOutstanding, name : Names,
             conn : Attempts \cup {0}]
Answers == [type : {"response", "update"}, slot : 0..MaxOutstanding, name : Names,
            conn : Attempts \cup {0}, ok : BOOLEAN]

\* The variables have their types; no reference count ever drops below zero
\* (DNS_PUSH_RELEASE frees at zero and would wrap around below it), no more
\* than max_outstanding_queries responses are on their way, and each of them
\* answers a query that is still in the table of the dso_state_t.
TypeOK ==
  /\ \A x \in Questions :
       /\ q[x].dup \in Questions \cup {NoQuestion}
       /\ q[x].state \in {"Init", "Discovery", "Connecting", "Established", "Poll"}
       /\ q[x].server \in Servers \cup {0}
       /\ {q[x].on, q[x].nta} \subseteq BOOLEAN
  /\ \A s \in Servers :
       /\ {server[s].refs, server[s].zrefs} \subseteq Nat
       /\ dso[s].acts \subseteq Questions
       /\ dso[s].out \in [Slots -> Questions \cup {Free, Ignored}]
       /\ connect[s].queue + connect[s].tried <= MaxAddresses
       /\ peer[s].up \in Seq(Messages) /\ peer[s].down \in Seq(Answers)
       /\ \A i \in 1..Len(peer[s].down) :
            dso[s].life = "live" /\ peer[s].down[i].type = "response"
              => dso[s].out[peer[s].down[i].slot] # Free
  /\ pinned \subseteq Names

B(p) == IF p THEN 1 ELSE 0

\* Every reference to a DNSPushServer and a DNSPushZone is counted, and nothing
\* else is: through cancellation from any callback, hand-over to a duplicate,
\* reconfiguration and deferred finalization an object is neither freed while
\* something points at it nor kept when nothing does.  The activities of a
\* dso_state_t in use, which point at questions, are those of its holders.
ReferencesCounted ==
  \A s \in Servers :
    /\ server[s].zrefs = B(server[s].zlisted) + Cardinality(Holders(Now, s))
    /\ server[s].refs = B(server[s].listed) + B(server[s].zrefs > 0)
                        + Cardinality(Holders(Now, s)) + B(server[s].connectInfo)
                        + B(dso[s].life \in {"live", "cleanup"})
    /\ dso[s].life = "live" => dso[s].acts \subseteq Holders(Now, s)

\* A DNSPushSubscribed record never expires (RRExpireTime), so somebody must be
\* left who takes the mark off: a question for it that holds a server in use.
PushedRecordsBacked ==
  \A n \in pinned :
    \E x \in Questions : /\ q[x].on /\ NameOf[x] = n /\ q[x].server # 0
                         /\ server[q[x].server].listed
                         /\ dso[q[x].server].life = "live"

\* How a name is served, for a client: see PushService.
Mode(n) ==
  LET P == {x \in Questions : q[x].on /\ NameOf[x] = n /\ q[x].dup = NoQuestion}
  IN  IF P = {} THEN "off"
      ELSE IF \E x \in P : q[x].state = "Poll" THEN "poll"
      ELSE IF \E x \in P : q[x].state = "Established" /\ q[x].server # 0 THEN "push"
      ELSE "waiting"

Service == INSTANCE PushService WITH
  mode <- [n \in Names |-> Mode(n)],
  granted <- {n \in Names : \E s \in Servers, a \in Attempts :
                             dso[s].life = "live" /\ <<a, n>> \in peer[s].subs}

\* The client keeps what PushService promises.
Implements == Service!Spec

\* A connection attempt that was cancelled took the next attempt's connection
\* with it: the transport has none, and nothing is sent any more.
Wedged == \E s \in Servers : dso[s].transport = "made" /\ dso[s].connection = 0

\* While a question looks for a push server, connects or subscribes, no regular
\* query is sent for it.  It always comes to be served in one way or the other,
\* or is stopped, unless the transport is wedged or a stopped question is used.
Settles ==
  \A n \in Names : []<>(Mode(n) # "waiting" \/ bad \/ Wedged)
=============================================================================
