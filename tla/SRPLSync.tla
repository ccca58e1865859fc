------------------------------ MODULE SRPLSync ------------------------------
(***************************************************************************)
(* One SRP replication session between two SRP servers                     *)
(* (ServiceRegistration/srp-replication.c): the candidate exchange that    *)
(* synchronises the two host databases, the ready phase that forwards each *)
(* later SRP client update, and the part of the advertising proxy          *)
(* (srp-mdns-proxy.c) the session interacts with: the host list, the       *)
(* update in progress on each host, the queued updates and the             *)
(* host->srpl_connection mark.                                             *)
(*                                                                         *)
(* "cl" is the server whose connection is the outgoing one                 *)
(* (is_server false), "sv" the server that accepted it.  Each server is a  *)
(* single-threaded event loop.  One C state-action function is one TLA+    *)
(* action; a server whose connection is in a state that never waits        *)
(* (Transient), or that is inside update_finished (fin), runs on before    *)
(* anything else happens.  Handlers touch only their own server's state    *)
(* and append to the stream to the peer, so running them without           *)
(* interleaving the peer loses no behaviour.                               *)
(***************************************************************************)
EXTENDS Integers, Sequences, FiniteSets

CONSTANTS
    Hosts,      \* names SRP clients register
    KeyOf,      \* KeyOf[n]: the key that signs the n-th SRP update
    Home,       \* Home[h]: the servers that the SRP client of h talks to
    Jitter,     \* SRPL_UPDATE_JITTER_WINDOW
    MaxUpdates, \* bound: SRP updates issued (by clients and third servers)
    MaxOther,   \* bound: updates replicated from a third server
    MaxFail,    \* bound: updates mDNSResponder refuses
    MaxRemove,  \* bound: SRP removes (lease time zero) and expired leases
    MaxDrop,    \* bound: connection losses
    MaxBad,     \* bound: messages the receiver cannot use
    MaxFaults   \* bound: all of the last five together

ASSUME BoundsAssumption ==
    /\ {Jitter, MaxUpdates, MaxOther, MaxFail, MaxRemove, MaxDrop, MaxBad,
         MaxFaults} \subseteq Nat
    /\ Home \in [Hosts -> SUBSET {"cl", "sv"}]
    /\ KeyOf \in [0 .. MaxUpdates -> Nat]
    /\ "no host" \notin Hosts

VARIABLES
    conn,   \* conn[e]: the srpl_connection_t of server e
    host,   \* host[e][h]: the adv_host_t of h at server e
    async,  \* async[e]: the callbacks queued with ioloop_run_async
    fin,    \* fin[e]: the update_finished or update_failed call on the stack
    net,    \* net[e]: the DSO messages in flight to e, oldest first
    link,   \* is the TCP connection up?
    clock,  \* SRP updates issued so far; also the time of day
    used    \* how much of each bound has been used

vars == <<conn, host, async, fin, net, link, clock, used>>

-----------------------------------------------------------------------------
E == {"cl", "sv"}

Peer(e) == IF e = "cl" THEN "sv" ELSE "cl"

NoHost == "no host"

\* States whose action runs on entry and returns the next state at once.
Transient ==
    {"send_candidates_send", "candidate_check", "candidate_host_prepare",
     "candidate_host_re_evaluate", "candidate_host_apply",
     "send_candidates_received", "send_candidates_remaining_check",
     "next_candidate_send", "candidate_host_send",
     "send_candidates_response_send", "srp_client_update_send",
     "srp_client_ack_evaluate", "stashed_host_check", "stashed_host_apply",
     "stashed_host_finished", "disconnect"}

\* States that wait for an event.  "none": there is no srpl_connection_t.
\* "idle" also stands for the states in which the outgoing connection looks
\* for an address and connects.
Waiting ==
    {"none", "idle", "disconnect_wait", "send_candidates_wait",
     "candidate_host_wait", "candidate_host_contention_wait",
     "candidate_host_apply_wait", "next_candidate_send_wait",
     "candidate_host_response_wait", "ready", "send_candidates_message_wait"}

\* A pending SRP update: the message, the time it carries (zero when it came
\* from an SRP client) and where it came from.
Sources == {"client", "this", "other"}
Msgs == 0 .. MaxUpdates
Update == [msg : Msgs, time : Int, src : Sources]
NoFin == [host |-> NoHost, src |-> "client", failed |-> FALSE]
NoUpdate == [msg |-> 0, time |-> 0, src |-> "client"]

Faults == {"other", "fail", "remove", "drop", "bad", "all"}

Rcodes == {"noerror", "formerr", "servfail", "yxdomain"}

NoCandidate == [name |-> NoHost, time |-> 0, key |-> 0]
NoStash == [name |-> NoHost, msg |-> 0, time |-> 0, rcode |-> "noerror"]

\* A pointer to an adv_host_t: gen tells apart the objects that successively
\* carry the name h.
Ref(h, gen) == [host |-> h, gen |-> gen]
NoRef == Ref(NoHost, 0)

Connection(s) ==
    [state |-> s, candidate |-> NoCandidate, candidates |-> {},
     current |-> NoRef, not_generated |-> FALSE, queue |-> <<>>,
     stash |-> NoStash, answered |-> FALSE, outstanding |-> FALSE, synchronized |-> FALSE]

AbsentHost ==
    [st |-> "absent", gen |-> 0, key |-> 0, msg |-> 0, time |-> 0,
     update |-> NoUpdate, clients |-> <<>>, srpl |-> "none"]

-----------------------------------------------------------------------------
(* The host database of the advertising proxy.                             *)

srp_adv_host_valid(e, h) == host[e][h].st = "valid"

\* The pointer to the host object that server e has for h.
Here(e, h) == Ref(h, host[e][h].gen)

\* Is h busy with an update being advertised?
Updating(e, h) == host[e][h].update # NoUpdate

\* What is left of host r when its data are gone.
Gone(r, st) == [AbsentHost EXCEPT !.st = st, !.gen = r.gen]

\* A new host object for the name.
NewHost(r, key) == [Gone(r, "valid") EXCEPT !.gen = r.gen + 1, !.key = key]

\* prepare_update takes the oldest queued client update.
prepare_update(r) ==
    [r EXCEPT !.update = Head(r.clients), !.clients = Tail(r.clients)]

\* Mutation of srp_update_start: the mark is written whatever the source.
srp_update_start_marks_any(r, u) ==
    LET base == IF r.st = "valid" THEN r ELSE NewHost(r, KeyOf[u.msg])
        next == [base EXCEPT !.clients = Append(@, u), !.srpl = u.src]
    IN  IF next.update = NoUpdate THEN prepare_update(next) ELSE next

\* srp_update_start for an update the host's key admits: a host that is
\* absent or marked removed is created anew; the update is queued, and
\* prepared at once unless one is in progress.
srp_update_start(r, u) ==
    LET base == IF r.st = "valid" THEN r ELSE NewHost(r, KeyOf[u.msg])
        next == [base EXCEPT !.clients = Append(@, u),
                             !.srpl = IF u.src = "client" THEN @ ELSE u.src]
    IN  IF next.update = NoUpdate THEN prepare_update(next) ELSE next

\* Is the message already being applied, or queued (same message identifier)?
Retransmission(r, msg) ==
    /\ r.st = "valid"
    /\ \/ r.update # NoUpdate /\ r.update.msg = msg
       \/ \E i \in DOMAIN r.clients : r.clients[i].msg = msg

KeyAdmits(r, msg) == r.st = "valid" => r.key = KeyOf[msg]

\* The update in progress has been advertised: the host takes its message.
TakeMessage(r) == [r EXCEPT !.msg = r.update.msg]

\* srp_replication_advertise_finished clears the mark once the events of a
\* replicated update have been delivered.
ClearMark(r, src) == [r EXCEPT !.srpl = IF src = "client" THEN @ ELSE "none"]

\* The rest of update_finished, after the replication events were delivered:
\* the srpl_connection mark, the update time and the update list.
SettleFinished(r) ==
    [ClearMark(r, r.update.src) EXCEPT
        !.time = IF r.update.time # 0 THEN r.update.time ELSE clock,
        !.update = NoUpdate]

\* The rest of update_failed: a host that never had a lease goes away,
\* unless another update has been started or queued meanwhile.
SettleFailed(r, src) ==
    LET s == ClearMark(r, src)
    IN  IF s.msg = 0 /\ s.clients = <<>> /\ s.update = NoUpdate
        THEN Gone(s, "absent") ELSE s

-----------------------------------------------------------------------------
(* Sending, receiving and the helpers of the connection.                   *)

Quiet(e) == conn[e].state \notin Transient /\ fin[e] = NoFin

AllQuiet == \A e \in E : Quiet(e)

Use(what, max) ==
    /\ used[what] < max /\ used["all"] < MaxFaults
    /\ used' = [used EXCEPT ![what] = @ + 1, !["all"] = @ + 1]

\* The age of a registration travels as an offset from the sender's time of
\* day; the receiver subtracts it from its own, so a message in flight makes
\* the registration look younger.
Request(type, h, msg, age, key) ==
    [type |-> type, host |-> h, msg |-> msg, age |-> age, key |-> key,
     answer |-> "none"]

Response(type, answer) ==
    [type |-> type, host |-> NoHost, msg |-> 0, age |-> 0, key |-> 0,
     answer |-> answer]

\* What is written to a broken connection goes nowhere.
Transmit(e, m) ==
    net' = [net EXCEPT ![Peer(e)] = IF link THEN Append(@, m) ELSE @]

\* A request takes one of the DSO session's outstanding-query slots.
SendRequest(e, m, c) ==
    /\ Transmit(e, m)
    /\ conn' = [conn EXCEPT ![e] = [c EXCEPT !.outstanding = TRUE]]

\* A response carries the identifier of the last request received
\* (srpl_connection->message); when that one has been answered already, the
\* DSO layer of the peer finds no query for it and discards it.
SendResponse(e, type, answer, c) ==
    /\ Transmit(e, Response(IF c.answered THEN "unmatched_response" ELSE type,
                            answer))
    /\ conn' = [conn EXCEPT ![e] = [c EXCEPT !.answered = TRUE]]

To(c, s) == [c EXCEPT !.state = s]

\* Mutation of ToReady: an update in flight is sent again.
ToReady_resends(c) ==
    To(c, IF c.queue # <<>> THEN "srp_client_update_send" ELSE "ready")

\* Landing in ready: an unsent update at the head of the queue is sent now.
ToReady(c) ==
    To(c, IF c.queue # <<>> /\ ~Head(c.queue).sent
          THEN "srp_client_update_send" ELSE "ready")

\* srpl_connection_attachments_free.  The stashed host is not an attachment.
srpl_connection_attachments_free(c) ==
    [c EXCEPT !.candidate = NoCandidate, !.candidates = {},
              !.current = NoRef, !.queue = <<>>]

srpl_connection_discontinue(c) ==
    To([srpl_connection_attachments_free(c) EXCEPT !.not_generated = TRUE],
       "disconnect")

\* srpl_candidate_host_check for the candidate c at host record r.
srpl_candidate_host_check(r, c) ==
    IF r.st # "valid" THEN "yes"
    ELSE IF r.key # c.key THEN "conflict"
    ELSE IF r.time - c.time > Jitter THEN "no" ELSE "yes"

\* Mutation of srpl_reschedule_candidate: the scan starts one place early.
srpl_reschedule_candidate_from_current(c, p) ==
    c.not_generated \/ p \in c.candidates \/ p = c.current

\* Is p, a pointer to a host, on the list of candidates still to be sent?
srpl_reschedule_candidate(c, p) == c.not_generated \/ p \in c.candidates

\* Mutation of srpl_queue_srp_client_update: the entry goes to the front.
srpl_queue_srp_client_update_in_front(c, p) ==
    IF \E i \in DOMAIN c.queue : ~c.queue[i].sent /\ c.queue[i].ref = p
    THEN c
    ELSE [c EXCEPT !.queue = <<[ref |-> p, sent |-> FALSE]>> \o @]

srpl_queue_srp_client_update(c, p) ==
    IF \E i \in DOMAIN c.queue : ~c.queue[i].sent /\ c.queue[i].ref = p
    THEN c
    ELSE [c EXCEPT !.queue = Append(@, [ref |-> p, sent |-> FALSE])]

\* Head of the stream to e when e can take it.
Receives(e, type) ==
    AllQuiet /\ net[e] # <<>> /\ Head(net[e]).type = type

Consume(e) == net' = [net EXCEPT ![e] = Tail(@)]

-----------------------------------------------------------------------------
(* Session establishment and loss.                                         *)

\* A new session: the SRPLSession exchange (SRPLSession module) has ended
\* with the outgoing connection of "cl" accepted by "sv".
Establish ==
    /\ AllQuiet /\ ~link
    /\ conn["cl"].state = "idle" /\ conn["sv"].state = "none"
    /\ link' = TRUE
    /\ net' = [e \in E |-> <<>>]
    /\ conn' = [conn EXCEPT
          !["cl"] = [To(@, "send_candidates_send") EXCEPT !.outstanding = FALSE],
          !["sv"] = Connection("send_candidates_message_wait")]
    /\ UNCHANGED <<host, async, fin, clock, used>>

\* srpl_disconnected_callback: the incoming connection is disposed of; the
\* outgoing one keeps its attachments and goes to look for an address.
srpl_disconnected_callback(e, c) ==
    IF e = "sv" THEN Connection("none") ELSE To(c, "idle")

\* The TCP connection breaks; what was in flight is lost.
LoseConnection ==
    /\ AllQuiet /\ link
    /\ Use("drop", MaxDrop)
    /\ link' = FALSE
    /\ net' = [e \in E |-> <<>>]
    /\ UNCHANGED <<conn, host, async, fin, clock>>

\* An end notices that the connection is gone, after reading what arrived.
NoticeLoss(e) ==
    /\ AllQuiet /\ ~link /\ net[e] = <<>>
    /\ conn[e].state \notin {"none", "idle", "disconnect_wait"}
    /\ conn' = [conn EXCEPT ![e] = srpl_disconnected_callback(e, @)]
    /\ UNCHANGED <<host, async, fin, net, link, clock, used>>

\* The disconnect state: free the attachments and cancel the connection.
srpl_disconnect_action(e) ==
    /\ conn[e].state = "disconnect"
    /\ conn' = [conn EXCEPT ![e] =
          To(srpl_connection_attachments_free(@), "disconnect_wait")]
    /\ UNCHANGED <<host, async, fin, net, link, clock, used>>

\* The connection this end cancelled is gone.
srpl_disconnect_wait_action(e) ==
    /\ AllQuiet /\ conn[e].state = "disconnect_wait"
    /\ link' = FALSE
    /\ net' = [net EXCEPT ![e] = <<>>]
    /\ conn' = [conn EXCEPT ![e] = srpl_disconnected_callback(e, @)]
    /\ UNCHANGED <<host, async, fin, clock, used>>

\* A message the receiver cannot parse: srpl_disconnect.  The incoming side
\* first sends a retry delay, as a response to the last request it has kept: the
\* peer's DSO does not deliver it when that request has been answered.
srpl_disconnect(e) ==
    /\ AllQuiet /\ net[e] # <<>> /\ conn[e].state # "disconnect_wait"
    /\ Use("bad", MaxBad)
    /\ \/ net' = [net EXCEPT ![e] = Tail(@)]
       \/ /\ e = "sv" /\ link
          /\ net' = [net EXCEPT ![e] = Tail(@),
                                ![Peer(e)] = Append(@, Response("retry_delay", "none"))]
    /\ conn' = [conn EXCEPT ![e] = srpl_connection_discontinue(@)]
    /\ UNCHANGED <<host, async, fin, link, clock>>

srpl_dso_retry_delay(e) ==
    /\ Receives(e, "retry_delay") /\ conn[e].state # "disconnect_wait"
    /\ Consume(e)
    /\ conn' = [conn EXCEPT ![e] = srpl_connection_discontinue(@)]
    /\ UNCHANGED <<host, async, fin, link, clock, used>>

-----------------------------------------------------------------------------
(* The end that asked for candidates.                                      *)

srpl_send_candidates_send_action(e) ==
    /\ conn[e].state = "send_candidates_send"
    /\ SendRequest(e, Request("send_candidates", NoHost, 0, 0, 0),
                   To(conn[e], "send_candidates_wait"))
    /\ UNCHANGED <<host, async, fin, link, clock, used>>

\* Mutation of SendCandidatesResponse: the outgoing end skips its own turn.
SendCandidatesResponse_ready(e) ==
    /\ Receives(e, "send_candidates_response")
    /\ conn[e].state \in {"send_candidates_wait", "candidate_host_wait"}
    /\ Consume(e)
    /\ conn' = [conn EXCEPT ![e] =
          ToReady([conn[e] EXCEPT !.outstanding = FALSE, !.synchronized = TRUE])]
    /\ UNCHANGED <<host, async, fin, link, clock, used>>

\* "send candidates" response: the incoming end is now synchronised, the
\* outgoing end waits to be asked for its own candidates.  It can also
\* arrive while a host message is awaited, when the candidate went away.
SendCandidatesResponse(e) ==
    /\ Receives(e, "send_candidates_response")
    /\ conn[e].state \in {"send_candidates_wait", "candidate_host_wait"}
    /\ Consume(e)
    /\ LET c == [conn[e] EXCEPT !.outstanding = FALSE]
       IN  conn' = [conn EXCEPT ![e] =
              IF e = "sv" THEN ToReady([c EXCEPT !.synchronized = TRUE])
              ELSE To(c, "send_candidates_message_wait")]
    /\ UNCHANGED <<host, async, fin, link, clock, used>>

CandidateReceived(e) ==
    /\ Receives(e, "candidate")
    /\ conn[e].state \in {"send_candidates_wait", "candidate_host_wait"}
    /\ Consume(e)
    /\ LET m == Head(net[e])
           c == [conn[e] EXCEPT !.answered = FALSE, !.candidate =
                    [name |-> m.host, time |-> clock - m.age, key |-> m.key]]
       IN  conn' = [conn EXCEPT ![e] = To(c, "candidate_check")]
    /\ UNCHANGED <<host, async, fin, link, clock, used>>

srpl_candidate_check_action(e) ==
    /\ conn[e].state = "candidate_check"
    /\ LET c == conn[e].candidate
           d == srpl_candidate_host_check(host[e][c.name], c)
       IN  SendResponse(e, "candidate_response", d,
              To(conn[e], IF d = "yes" THEN "candidate_host_wait"
                          ELSE "send_candidates_wait"))
    /\ UNCHANGED <<host, async, fin, link, clock, used>>

\* A "host" message: its parts are stashed on the connection.
Stash(m) ==
    [name |-> m.host, msg |-> m.msg, time |-> clock - m.age, rcode |-> "noerror"]

CandidateHostReceived(e) ==
    /\ Receives(e, "host") /\ conn[e].state = "candidate_host_wait"
    /\ Consume(e)
    /\ conn' = [conn EXCEPT ![e] =
          [To(@, "candidate_host_prepare") EXCEPT
              !.stash = Stash(Head(net[e])), !.answered = FALSE]]
    /\ UNCHANGED <<host, async, fin, link, clock, used>>

\* Mutation of srpl_candidate_host_prepare_action: every host we have is
\* taken to be in contention.
srpl_candidate_host_prepare_action_waits(e) ==
    /\ conn[e].state = "candidate_host_prepare"
    /\ LET h == conn[e].candidate.name
       IN  conn' = [conn EXCEPT ![e] = To(@,
              IF ~srp_adv_host_valid(e, h) THEN "candidate_host_apply"
              ELSE "candidate_host_contention_wait")]
    /\ UNCHANGED <<host, async, fin, net, link, clock, used>>

srpl_candidate_host_prepare_action(e) ==
    /\ conn[e].state = "candidate_host_prepare"
    /\ LET h == conn[e].candidate.name
       IN  conn' = [conn EXCEPT ![e] = To(@,
              IF ~srp_adv_host_valid(e, h) THEN "candidate_host_apply"
              ELSE IF host[e][h].srpl # "none" \/ Updating(e, h)
                   THEN "candidate_host_contention_wait"
                   ELSE "candidate_host_re_evaluate")]
    /\ UNCHANGED <<host, async, fin, net, link, clock, used>>

srpl_candidate_host_re_evaluate_action(e) ==
    /\ conn[e].state = "candidate_host_re_evaluate"
    /\ LET c == conn[e].candidate
           d == srpl_candidate_host_check(host[e][c.name], c)
       IN  IF d = "yes"
           THEN /\ conn' = [conn EXCEPT ![e] = To(@, "candidate_host_apply")]
                /\ UNCHANGED net
           ELSE SendResponse(e, "host_response",
                             IF d = "no" THEN "noerror" ELSE "yxdomain",
                             To(conn[e], "send_candidates_wait"))
    /\ UNCHANGED <<host, async, fin, link, clock, used>>

-----------------------------------------------------------------------------
(* Applying a stashed host: srpl_connection_host_apply.                    *)

\* The "apply" states defer an advertise_finished event raised inside the
\* call to srp_dns_evaluate.
Deferred(h, rcode) == [kind |-> "advertise_finished", host |-> h, rcode |-> rcode]
NextUpdate(h) == [kind |-> "next_update", host |-> h, rcode |-> "noerror"]

StashedUpdate(e) ==
    [msg |-> conn[e].stash.msg, time |-> conn[e].stash.time, src |-> "this"]

\* The update is registered with mDNSResponder and will finish later.
ApplyStarts(e, next) ==
    LET h == conn[e].stash.name
    IN  /\ KeyAdmits(host[e][h], conn[e].stash.msg)
        /\ ~Retransmission(host[e][h], conn[e].stash.msg)
        /\ host' = [host EXCEPT ![e][h] = srp_update_start(@, StashedUpdate(e))]
        /\ conn' = [conn EXCEPT ![e] = To(@, next)]
        /\ UNCHANGED <<async, fin, net, link, clock, used>>

\* The same message is already in progress: srp_update_start reports servfail
\* (an event that is deferred), which also clears the mark of the host.
ApplyRetransmission(e, next) ==
    LET h == conn[e].stash.name
    IN  /\ KeyAdmits(host[e][h], conn[e].stash.msg)
        /\ Retransmission(host[e][h], conn[e].stash.msg)
        /\ host' = [host EXCEPT ![e][h].srpl = "none"]
        /\ async' = [async EXCEPT ![e] = Append(@, Deferred(h, "servfail"))]
        /\ conn' = [conn EXCEPT ![e] = To(@, next)]
        /\ UNCHANGED <<fin, net, link, clock, used>>

\* The message says nothing new (it is the one advertised, or renews it), so
\* update_finished runs inside the call and the event it broadcasts is deferred.
ApplyFinishesAtOnce(e, next) ==
    LET h == conn[e].stash.name
        r == host[e][h]
    IN  /\ r.st = "valid" /\ r.msg # 0 /\ KeyAdmits(r, conn[e].stash.msg)
        /\ ~Updating(e, h) /\ r.clients = <<>>
        /\ host' = [host EXCEPT ![e][h] =
              SettleFinished(TakeMessage(srp_update_start(@, StashedUpdate(e))))]
        /\ async' = [async EXCEPT ![e] = Append(@, Deferred(h, "noerror"))]
        /\ conn' = [conn EXCEPT ![e] = To(@, next)]
        /\ UNCHANGED <<fin, net, link, clock, used>>

\* srp_evaluate drops a message whose signature is not timely or not valid:
\* it reports success and no event follows.
ApplyIgnored(e, next) ==
    /\ Use("bad", MaxBad)
    /\ conn' = [conn EXCEPT ![e] = To(@, next)]
    /\ UNCHANGED <<host, async, fin, net, link, clock>>

\* srp_dns_evaluate rejects the message: a formerr response is sent.
ApplyRejected(e, next) ==
    /\ Use("bad", MaxBad)
    /\ SendResponse(e, "host_response", "formerr", To(conn[e], next))
    /\ UNCHANGED <<host, async, fin, link, clock>>

\* The update is refused by srp_update_start (another key owns the name): it
\* calls advertise_finished with no host, which srp-replication.c
\* dereferences.  The process dies and starts again with an empty database.
ApplyConflict(e) ==
    /\ ~KeyAdmits(host[e][conn[e].stash.name], conn[e].stash.msg)
    /\ host' = [host EXCEPT ![e] = [h \in Hosts |-> AbsentHost]]
    /\ conn' = [conn EXCEPT ![e] = Connection(IF e = "sv" THEN "none" ELSE "idle")]
    /\ async' = [async EXCEPT ![e] = <<>>]
    /\ fin' = [fin EXCEPT ![e] = NoFin]
    /\ net' = [net EXCEPT ![e] = <<>>]
    /\ link' = FALSE
    /\ UNCHANGED <<clock, used>>

srpl_candidate_host_apply_action(e) ==
    /\ conn[e].state = "candidate_host_apply"
    /\ \/ ApplyStarts(e, "candidate_host_apply_wait")
       \/ ApplyRetransmission(e, "candidate_host_apply_wait")
       \/ ApplyFinishesAtOnce(e, "candidate_host_apply_wait")
       \/ ApplyIgnored(e, "candidate_host_apply_wait")
       \/ ApplyRejected(e, "send_candidates_wait")
       \/ ApplyConflict(e)

-----------------------------------------------------------------------------
(* The end that was asked for candidates.                                  *)

SendCandidatesReceived(e) ==
    /\ Receives(e, "send_candidates")
    /\ conn[e].state = "send_candidates_message_wait"
    /\ Consume(e)
    /\ conn' = [conn EXCEPT ![e] =
          [To(@, "send_candidates_received") EXCEPT !.answered = FALSE]]
    /\ UNCHANGED <<host, async, fin, link, clock, used>>

\* The candidate list: every valid host.  Only a list that is not empty
\* marks the candidates as generated.
srpl_send_candidates_received_action(e) ==
    /\ conn[e].state = "send_candidates_received"
    /\ LET valid == {Here(e, h) : h \in {x \in Hosts : srp_adv_host_valid(e, x)}}
       IN  conn' = [conn EXCEPT ![e] =
              [To(conn[e], "send_candidates_remaining_check") EXCEPT
                  !.candidates = valid, !.current = NoRef,
                  !.not_generated = @ /\ valid = {}]]
    /\ UNCHANGED <<host, async, fin, net, link, clock, used>>

\* The list is in the order of the host list; the model takes any order.
srpl_candidates_remaining_check_action(e) ==
    /\ conn[e].state = "send_candidates_remaining_check"
    /\ \/ \E p \in conn[e].candidates :
             conn' = [conn EXCEPT ![e] =
                [To(conn[e], "next_candidate_send") EXCEPT
                    !.candidates = @ \ {p}, !.current = p]]
       \/ /\ conn[e].candidates = {}
          /\ conn' = [conn EXCEPT ![e] = To(@, "send_candidates_response_send")]
    /\ UNCHANGED <<host, async, fin, net, link, clock, used>>

srpl_next_candidate_send_action(e) ==
    /\ conn[e].state = "next_candidate_send"
    /\ LET h == conn[e].current.host
           r == host[e][h]
       IN  SendRequest(e, Request("candidate", h, 0, clock - r.time, r.key),
                       To(conn[e], "next_candidate_send_wait"))
    /\ UNCHANGED <<host, async, fin, link, clock, used>>

srpl_next_candidate_send_wait_action(e) ==
    /\ Receives(e, "candidate_response")
    /\ conn[e].state = "next_candidate_send_wait"
    /\ Consume(e)
    /\ conn' = [conn EXCEPT ![e] =
          [To(@, IF Head(net[e]).answer = "yes" THEN "candidate_host_send"
                 ELSE "send_candidates_remaining_check")
             EXCEPT !.outstanding = FALSE]]
    /\ UNCHANGED <<host, async, fin, link, clock, used>>

\* "host" message for h: the SRP update last applied and its update time.
HostMessage(e, h) ==
    Request("host", h, host[e][h].msg, clock - host[e][h].time, host[e][h].key)

CanSendHost(e, p) ==
    /\ p = Here(e, p.host)
    /\ srp_adv_host_valid(e, p.host)
    /\ host[e][p.host].msg # 0

srpl_candidate_host_send_action(e) ==
    /\ conn[e].state = "candidate_host_send"
    /\ LET p == conn[e].current
       IN  IF CanSendHost(e, p)
           THEN SendRequest(e, HostMessage(e, p.host),
                            To(conn[e], "candidate_host_response_wait"))
           ELSE /\ conn' = [conn EXCEPT ![e] = To(@, "send_candidates_remaining_check")]
                /\ UNCHANGED net
    /\ UNCHANGED <<host, async, fin, link, clock, used>>

srpl_candidate_host_response_wait_action(e) ==
    /\ Receives(e, "host_response")
    /\ conn[e].state = "candidate_host_response_wait"
    /\ Consume(e)
    /\ conn' = [conn EXCEPT ![e] =
          [To(@, "send_candidates_remaining_check") EXCEPT !.outstanding = FALSE]]
    /\ UNCHANGED <<host, async, fin, link, clock, used>>

srpl_send_candidates_response_send_action(e) ==
    /\ conn[e].state = "send_candidates_response_send"
    /\ SendResponse(e, "send_candidates_response", "noerror",
          IF e = "sv" THEN To(conn[e], "send_candidates_send")
          ELSE ToReady([conn[e] EXCEPT !.synchronized = TRUE]))
    /\ UNCHANGED <<host, async, fin, link, clock, used>>

-----------------------------------------------------------------------------
(* The ready phase.                                                        *)

\* srpl_connection_drop_state: the incoming end sends a retry delay first.
DropState(e) ==
    /\ conn' = [conn EXCEPT ![e] = To(@, "disconnect")]
    /\ net' = [net EXCEPT
          ![e] = Tail(@),
          ![Peer(e)] = IF e = "sv" /\ link
                       THEN Append(@, Response("retry_delay", "none")) ELSE @]

ReadyHostReceived(e) ==
    /\ Receives(e, "host") /\ conn[e].state = "ready"
    /\ \/ /\ conn[e].stash # NoStash
          /\ DropState(e)
       \/ /\ conn[e].stash = NoStash
          /\ Consume(e)
          /\ conn' = [conn EXCEPT ![e] =
                [To(@, "stashed_host_check") EXCEPT
                    !.stash = Stash(Head(net[e])), !.answered = FALSE]]
    /\ UNCHANGED <<host, async, fin, link, clock, used>>

\* Apply the stashed host unless the host is in contention; in contention,
\* wait in ready.
srpl_stashed_host_check_action(e) ==
    /\ conn[e].state = "stashed_host_check"
    /\ LET h == conn[e].stash.name
           r == host[e][h]
           contended == /\ srp_adv_host_valid(e, h)
                        /\ \/ Updating(e, h)
                           \/ r.srpl # "none"
                           \/ r.clients # <<>>
       IN  conn' = [conn EXCEPT ![e] =
              IF contended THEN ToReady(@) ELSE To(@, "stashed_host_apply")]
    /\ UNCHANGED <<host, async, fin, net, link, clock, used>>

\* Where srpl_stashed_host_apply_action goes when the update was accepted.
AfterStashedApply(e) == ToReady(conn[e]).state

srpl_stashed_host_apply_action(e) ==
    /\ conn[e].state = "stashed_host_apply"
    /\ \/ ApplyStarts(e, AfterStashedApply(e))
       \/ ApplyRetransmission(e, AfterStashedApply(e))
       \/ ApplyFinishesAtOnce(e, AfterStashedApply(e))
       \/ ApplyIgnored(e, AfterStashedApply(e))
       \/ ApplyRejected(e, "stashed_host_finished")
       \/ ApplyConflict(e)

srpl_stashed_host_finished_action(e) ==
    /\ conn[e].state = "stashed_host_finished"
    /\ SendResponse(e, "host_response", conn[e].stash.rcode,
                    ToReady([conn[e] EXCEPT !.stash = NoStash]))
    /\ UNCHANGED <<host, async, fin, link, clock, used>>

\* dso_message_received: a response that matches no outstanding query.
UnmatchedResponse(e) ==
    /\ Receives(e, "unmatched_response")
    /\ Consume(e)
    /\ UNCHANGED <<conn, host, async, fin, link, clock, used>>

ReadyHostResponse(e) ==
    /\ Receives(e, "host_response") /\ conn[e].state = "ready"
    /\ Consume(e)
    /\ conn' = [conn EXCEPT ![e] =
          [To(@, "srp_client_ack_evaluate") EXCEPT !.outstanding = FALSE]]
    /\ UNCHANGED <<host, async, fin, link, clock, used>>

\* Mutations of srpl_srp_client_ack_evaluate_action: the next update is sent
\* without looking whether there is one; or only when something else happens.
srpl_srp_client_ack_evaluate_action_sends(e) ==
    /\ conn[e].state = "srp_client_ack_evaluate"
    /\ conn' = [conn EXCEPT ![e] =
          [To(conn[e], "srp_client_update_send") EXCEPT !.queue = Tail(@)]]
    /\ UNCHANGED <<host, async, fin, net, link, clock, used>>

srpl_srp_client_ack_evaluate_action_rests(e) ==
    /\ conn[e].state = "srp_client_ack_evaluate"
    /\ conn' = [conn EXCEPT ![e] = [To(conn[e], "ready") EXCEPT !.queue = Tail(@)]]
    /\ UNCHANGED <<host, async, fin, net, link, clock, used>>

\* Pop the acknowledged update.  An acknowledgement with no sent update at
\* the head of the queue is a FAULT in the code; AckMatchesQueue shows that
\* it does not happen.
srpl_srp_client_ack_evaluate_action(e) ==
    /\ conn[e].state = "srp_client_ack_evaluate"
    /\ conn[e].queue # <<>> /\ Head(conn[e].queue).sent
    /\ conn' = [conn EXCEPT ![e] = ToReady([conn[e] EXCEPT !.queue = Tail(@)])]
    /\ UNCHANGED <<host, async, fin, net, link, clock, used>>

\* Mutation of srpl_srp_client_update_send_action: the entry is taken off the
\* queue when it is sent.
srpl_srp_client_update_send_action_pops(e) ==
    /\ conn[e].state = "srp_client_update_send"
    /\ LET p == Head(conn[e].queue).ref
           c == [conn[e] EXCEPT !.queue = Tail(@)]
       IN  IF CanSendHost(e, p)
           THEN SendRequest(e, HostMessage(e, p.host), To(c, "ready"))
           ELSE /\ conn' = [conn EXCEPT ![e] = ToReady(c)]
                /\ UNCHANGED net
    /\ UNCHANGED <<host, async, fin, link, clock, used>>

srpl_srp_client_update_send_action(e) ==
    /\ conn[e].state = "srp_client_update_send"
    /\ LET p == Head(conn[e].queue).ref
           sent == <<[ref |-> p, sent |-> TRUE]>> \o Tail(conn[e].queue)
       IN  IF CanSendHost(e, p)
           THEN SendRequest(e, HostMessage(e, p.host),
                            To([conn[e] EXCEPT !.queue = sent], "ready"))
           ELSE /\ conn' = [conn EXCEPT ![e] =
                      ToReady([conn[e] EXCEPT !.queue = Tail(@)])]
                /\ UNCHANGED net
    /\ UNCHANGED <<host, async, fin, link, clock, used>>

-----------------------------------------------------------------------------
(* The events of the advertising proxy.                                    *)

\* An SRP client registers or renews h at server e.
ClientUpdate(e, h) ==
    /\ AllQuiet /\ e \in Home[h]
    /\ clock < MaxUpdates /\ clock' = clock + 1
    /\ KeyAdmits(host[e][h], clock')
    /\ host' = [host EXCEPT ![e][h] =
          srp_update_start(@, [msg |-> clock', time |-> 0, src |-> "client"])]
    /\ UNCHANGED <<conn, async, fin, net, link, used>>

\* An SRP client removes its registration (lease time zero): host_invalidate.
\* The host entry stays on the list, marked removed.
ClientRemove(e, h) ==
    /\ AllQuiet /\ e \in Home[h]
    /\ srp_adv_host_valid(e, h) /\ ~Updating(e, h) /\ host[e][h].clients = <<>>
    /\ Use("remove", MaxRemove)
    /\ host' = [host EXCEPT ![e][h] = Gone(@, "removed")]
    /\ UNCHANGED <<conn, async, fin, net, link, clock>>

\* The lease of h runs out: the host is taken off the list, unless an update
\* is pending.  References to the object keep it alive.
lease_callback(e, h) ==
    /\ AllQuiet
    /\ host[e][h].st # "absent" /\ ~Updating(e, h) /\ host[e][h].clients = <<>>
    /\ Use("remove", MaxRemove)
    /\ host' = [host EXCEPT ![e][h] = Gone(@, "absent")]
    /\ UNCHANGED <<conn, async, fin, net, link, clock>>

\* Server e starts applying an update replicated from a third server.
OtherUpdate(e, h) ==
    /\ AllQuiet
    /\ ~Updating(e, h) /\ host[e][h].clients = <<>> /\ host[e][h].srpl = "none"
    /\ clock < MaxUpdates /\ clock' = clock + 1
    /\ KeyAdmits(host[e][h], clock')
    /\ Use("other", MaxOther)
    /\ host' = [host EXCEPT ![e][h] =
          srp_update_start(@, [msg |-> clock', time |-> clock', src |-> "other"])]
    /\ UNCHANGED <<conn, async, fin, net, link>>

\* srpl_candidate_host_contention_wait_action: an update of the host by the
\* candidate's name has finished.  A failed client update does not end the
\* wait (srpl_client_update_matches); its rcode is tested below.
EndsContention(c, h) ==
    c.state = "candidate_host_contention_wait" /\ c.candidate.name = h

\* The advertise_finished event, in the state the connection is in.
AdvertiseFinished(e, h, rcode) ==
    LET c == conn[e]
    IN  \/ /\ EndsContention(c, h)
           /\ conn' = [conn EXCEPT ![e] = To(c, "candidate_host_re_evaluate")]
           /\ UNCHANGED net
        \/ /\ c.state = "candidate_host_apply_wait"
           /\ SendResponse(e, "host_response", rcode,
                 To([c EXCEPT !.stash = NoStash], "send_candidates_wait"))
        \/ /\ c.state = "ready" /\ c.stash.name = h
           /\ conn' = [conn EXCEPT ![e] =
                 To([c EXCEPT !.stash.rcode = rcode], "stashed_host_finished")]
           /\ UNCHANGED net
        \/ /\ ~EndsContention(c, h)
           /\ c.state # "candidate_host_apply_wait"
           /\ ~(c.state = "ready" /\ c.stash.name = h)
           /\ UNCHANGED <<conn, net>>

\* srpl_srp_client_update_send_event_to_connection.  There is no connection
\* to deliver to while the incoming connection does not exist.
ClientUpdateFinished(e, h, rcode) ==
    LET c == conn[e]
        p == Here(e, h)
        q == IF rcode = "noerror" /\ ~srpl_reschedule_candidate(c, p)
             THEN srpl_queue_srp_client_update(c, p) ELSE c
    IN  conn' = [conn EXCEPT ![e] =
           IF c.state = "none" THEN c
           ELSE IF EndsContention(c, h) /\ rcode = "noerror"
                THEN To(q, "candidate_host_re_evaluate")
           ELSE IF c.state = "ready" THEN ToReady(q) ELSE q]

\* Deliver the result of the update in progress on h to the replication
\* code; a replicated update has nobody to tell when its mark is gone.
DeliverResult(e, h, rcode) ==
    LET r == host[e][h]
    IN  \/ /\ r.update.src = "client"
           /\ ClientUpdateFinished(e, h, rcode)
           /\ UNCHANGED net
        \/ /\ r.update.src # "client" /\ r.srpl # "none"
           /\ AdvertiseFinished(e, h, rcode)
        \/ /\ r.update.src # "client" /\ r.srpl = "none"
           /\ UNCHANGED <<conn, net>>

\* mDNSResponder has registered everything: update_finished, up to and
\* including the call of advertise_finished.
update_finished(e, h) ==
    /\ AllQuiet /\ Updating(e, h)
    /\ DeliverResult(e, h, "noerror")
    /\ host' = [host EXCEPT ![e][h] = TakeMessage(@)]
    /\ fin' = [fin EXCEPT ![e] =
          [host |-> h, src |-> host[e][h].update.src, failed |-> FALSE]]
    /\ UNCHANGED <<async, link, clock, used>>

\* mDNSResponder reports an error: update_failed takes the update off the
\* host before it calls advertise_finished.
update_failed(e, h) ==
    /\ AllQuiet /\ Updating(e, h)
    /\ Use("fail", MaxFail)
    /\ DeliverResult(e, h, "servfail")
    /\ host' = [host EXCEPT ![e][h].update = NoUpdate]
    /\ fin' = [fin EXCEPT ![e] =
          [host |-> h, src |-> host[e][h].update.src, failed |-> TRUE]]
    /\ UNCHANGED <<async, link, clock>>

\* What is left of update_finished or update_failed when the events they
\* delivered have been handled.
Settle(e) ==
    /\ conn[e].state \notin Transient /\ fin[e] # NoFin
    /\ LET h == fin[e].host
           r == host[e][h]
           more == ~fin[e].failed /\ r.clients # <<>>
       IN  /\ host' = [host EXCEPT ![e][h] =
                 IF fin[e].failed THEN SettleFailed(@, fin[e].src)
                 ELSE SettleFinished(@)]
           /\ async' = [async EXCEPT ![e] =
                 IF more THEN Append(@, NextUpdate(h)) ELSE @]
    /\ fin' = [fin EXCEPT ![e] = NoFin]
    /\ UNCHANGED <<conn, net, link, clock, used>>

\* Run the oldest callback queued with ioloop_run_async: next_update, or the
\* delivery of a deferred advertise_finished event.
RunNextUpdate(e) ==
    /\ AllQuiet /\ async[e] # <<>> /\ Head(async[e]).kind = "next_update"
    /\ LET h == Head(async[e]).host
       IN  host' = [host EXCEPT ![e][h] =
              IF ~Updating(e, h) /\ @.clients # <<>> THEN prepare_update(@) ELSE @]
    /\ async' = [async EXCEPT ![e] = Tail(@)]
    /\ UNCHANGED <<conn, fin, net, link, clock, used>>

RunDeferred(e) ==
    /\ AllQuiet /\ async[e] # <<>> /\ Head(async[e]).kind = "advertise_finished"
    /\ AdvertiseFinished(e, Head(async[e]).host, Head(async[e]).rcode)
    /\ async' = [async EXCEPT ![e] = Tail(@)]
    /\ UNCHANGED <<host, fin, link, clock, used>>

-----------------------------------------------------------------------------
Init ==
    /\ conn = [e \in E |-> Connection(IF e = "sv" THEN "none" ELSE "idle")]
    /\ host = [e \in E |-> [h \in Hosts |-> AbsentHost]]
    /\ async = [e \in E |-> <<>>]
    /\ fin = [e \in E |-> NoFin]
    /\ net = [e \in E |-> <<>>]
    /\ link = FALSE
    /\ clock = 0
    /\ used = [w \in Faults |-> 0]

\* What a server's code does once it is running: state actions, callbacks.
Run(e) ==
    \/ srpl_disconnect_action(e)
    \/ srpl_disconnect_wait_action(e)
    \/ NoticeLoss(e)
    \/ srpl_dso_retry_delay(e)
    \/ srpl_send_candidates_send_action(e)
    \/ SendCandidatesResponse(e)
    \/ CandidateReceived(e)
    \/ srpl_candidate_check_action(e)
    \/ CandidateHostReceived(e)
    \/ srpl_candidate_host_prepare_action(e)
    \/ srpl_candidate_host_re_evaluate_action(e)
    \/ srpl_candidate_host_apply_action(e)
    \/ SendCandidatesReceived(e)
    \/ srpl_send_candidates_received_action(e)
    \/ srpl_candidates_remaining_check_action(e)
    \/ srpl_next_candidate_send_action(e)
    \/ srpl_next_candidate_send_wait_action(e)
    \/ srpl_candidate_host_send_action(e)
    \/ srpl_candidate_host_response_wait_action(e)
    \/ srpl_send_candidates_response_send_action(e)
    \/ ReadyHostReceived(e)
    \/ srpl_stashed_host_check_action(e)
    \/ srpl_stashed_host_apply_action(e)
    \/ srpl_stashed_host_finished_action(e)
    \/ UnmatchedResponse(e)
    \/ ReadyHostResponse(e)
    \/ srpl_srp_client_ack_evaluate_action(e)
    \/ srpl_srp_client_update_send_action(e)
    \/ \E h \in Hosts : update_finished(e, h)
    \/ Settle(e)
    \/ RunNextUpdate(e)
    \/ RunDeferred(e)

\* What the environment may do.
Environment ==
    \/ LoseConnection
    \/ \E e \in E : srpl_disconnect(e)
    \/ \E e \in E, h \in Hosts :
          \/ ClientUpdate(e, h) \/ ClientRemove(e, h) \/ lease_callback(e, h)
          \/ OtherUpdate(e, h) \/ update_failed(e, h)

Next == Establish \/ (\E e \in E : Run(e)) \/ Environment

Spec == Init /\ [][Next]_vars

\* The event loops keep running, mDNSResponder answers every registration,
\* and an idle outgoing connection connects again.
FairSpec ==
    Spec /\ WF_vars(Establish) /\ \A e \in E : WF_vars(Run(e))

-----------------------------------------------------------------------------
(* Properties.                                                             *)

Names == Hosts \cup {NoHost}
Refs == [host : Hosts, gen : Nat]

ConnectionType ==
    [state : Transient \cup Waiting,
     candidate : [name : Names, time : Int, key : Nat],
     candidates : SUBSET Refs, current : Refs \cup {NoRef},
     not_generated : BOOLEAN,
     queue : Seq([ref : Refs, sent : BOOLEAN]),
     stash : [name : Names, msg : Msgs, time : Int, rcode : Rcodes],
     answered : BOOLEAN, outstanding : BOOLEAN, synchronized : BOOLEAN]

HostType ==
    [st : {"absent", "valid", "removed"}, gen : Nat, key : Nat, msg : Msgs,
     time : Int, update : Update, clients : Seq(Update),
     srpl : {"none", "this", "other"}]

MessageType ==
    [type : {"candidate", "host"}, host : Hosts, msg : Msgs, age : Int,
     key : Nat, answer : {"none"}]
    \cup
    [type : {"send_candidates", "send_candidates_response",
             "candidate_response", "host_response", "unmatched_response",
             "retry_delay"},
     host : {NoHost}, msg : {0}, age : {0}, key : {0},
     answer : Rcodes \cup {"none", "yes", "no", "conflict"}]

CallbackType ==
    [kind : {"next_update", "advertise_finished"}, host : Hosts, rcode : Rcodes]

FinType == [host : Hosts, src : Sources, failed : BOOLEAN] \cup {NoFin}

\* Every variable has the shape of the C structure it stands for.
TypeOK ==
    /\ conn \in [E -> ConnectionType]
    /\ host \in [E -> [Hosts -> HostType]]
    /\ async \in [E -> Seq(CallbackType)]
    /\ fin \in [E -> FinType]
    /\ net \in [E -> Seq(MessageType)]
    /\ link \in BOOLEAN
    /\ clock \in Msgs
    /\ used \in [Faults -> Nat]

\* States whose action follows srpl_connection->candidate, the stashed host,
\* the current candidate, or the head of the client update queue.
NeedsCandidate ==
    {"candidate_check", "candidate_host_wait", "candidate_host_prepare",
     "candidate_host_contention_wait", "candidate_host_re_evaluate"}
NeedsStash ==
    {"candidate_host_prepare", "candidate_host_contention_wait",
     "candidate_host_re_evaluate", "candidate_host_apply",
     "stashed_host_check", "stashed_host_apply"}
NeedsCurrent ==
    {"next_candidate_send", "next_candidate_send_wait", "candidate_host_send"}

AttachedTo(c) ==
    /\ c.state \in NeedsCandidate => c.candidate.name # NoHost
    /\ c.state \in NeedsStash => c.stash.name # NoHost
    /\ c.state \in NeedsCurrent => c.current # NoRef
    /\ c.state = "srp_client_update_send" => c.queue # <<>>

\* Attachments are freed by disconnects, replaced by later messages and kept
\* across reconnections; still, no state action ever follows a pointer to an
\* attachment that is not there.
Attached == \A e \in E : AttachedTo(conn[e])

\* The message types that the action of each waiting state takes; any other
\* message falls into UNEXPECTED_EVENT and is lost.
Accepts(s) ==
    {"retry_delay", "unmatched_response"} \cup
    CASE s \in {"send_candidates_wait"} -> {"send_candidates_response", "candidate"}
      [] s = "candidate_host_wait" -> {"send_candidates_response", "candidate", "host"}
      [] s = "next_candidate_send_wait" -> {"candidate_response"}
      [] s = "candidate_host_response_wait" -> {"host_response"}
      [] s = "send_candidates_message_wait" -> {"send_candidates"}
      [] s = "ready" -> {"host", "host_response"}
      [] OTHER -> {}

\* No message is ever lost in UNEXPECTED_EVENT: whatever arrives on an
\* established session arrives in a state whose action handles it.
NoUnexpectedMessage ==
    \A e \in E :
        AllQuiet /\ net[e] # <<>> /\ conn[e].state # "disconnect_wait"
            => Head(net[e]).type \in Accepts(conn[e].state)

\* A host response received in ready always finds the update it answers at
\* the head of the client update queue, marked sent: the two FAULTs of
\* srpl_srp_client_ack_evaluate_action never happen.
AckMatchesQueue ==
    \A e \in E : conn[e].state = "srp_client_ack_evaluate"
        => conn[e].queue # <<>> /\ Head(conn[e].queue).sent

\* Whenever a request is about to be sent, the session's one outstanding
\* query slot is free (dso_make_message would fail, and
\* srpl_dso_message_setup ignores its failure).
OneOutstandingRequest ==
    \A e \in E :
        conn[e].state \in {"send_candidates_send", "next_candidate_send",
                           "candidate_host_send"}
        \/ (conn[e].state = "srp_client_update_send"
              /\ CanSendHost(e, Head(conn[e].queue).ref))
        => ~conn[e].outstanding

\* Nothing is left to do on the session: both ends are in ready and no
\* message, callback or update is pending.
Settled ==
    /\ link /\ AllQuiet
    /\ \A e \in E : /\ conn[e].state = "ready"
                    /\ net[e] = <<>> /\ async[e] = <<>>
                    /\ \A h \in Hosts : ~Updating(e, h) /\ host[e][h].clients = <<>>

\* When a session has settled, every update that either end queued for the
\* other has been answered.
QueueDrained == Settled => \A e \in E : conn[e].queue = <<>>

\* When a session has settled, the two servers hold the same registration for
\* every host that both accepted from the same key.
Agreement ==
    Settled => \A h \in Hosts :
        LET a == host["cl"][h]  b == host["sv"][h]
        IN  \/ a.msg = b.msg
            \/ a.st = "valid" /\ b.st = "valid" /\ a.key # b.key

HeadOnly(q) == \A i \in DOMAIN q : q[i].sent => i = 1

\* Only the head of a client update queue can have been sent: a host response
\* always answers the head (srpl_srp_client_ack_evaluate_action), and an update
\* that arrives while one is in flight waits its turn.
OnlyHeadSent == \A e \in E : HeadOnly(conn[e].queue)

\* Whatever the SRP clients do, the session comes to rest with nothing left
\* to send, and stays there once the clients stop.
Converges == <>[](Settled /\ QueueDrained)

-----------------------------------------------------------------------------
(* What the comments in the source say; each is refuted by a run.          *)

\* srp_replication_advertise_finished: "host should never be NULL".  It is
\* when the name of the replicated host belongs to another key.
HostNeverNull ==
    \A e \in E :
        conn[e].state \in {"candidate_host_apply", "stashed_host_apply"}
            => KeyAdmits(host[e][conn[e].stash.name], conn[e].stash.msg)

\* The time host h of e has once the update_finished call in progress is over.
CurrentTime(e, h) ==
    IF fin[e].host = h /\ ~fin[e].failed
    THEN SettleFinished(host[e][h]).time ELSE host[e][h].time

\* srpl_candidate_host_re_evaluate_action re-evaluates because "an update may
\* have arrived locally": a candidate is never applied over a registration
\* that is more than the jitter window newer.
ReEvaluatesCurrentTime ==
    \A e \in E :
        LET c == conn[e].candidate
        IN  conn[e].state = "candidate_host_apply" /\ srp_adv_host_valid(e, c.name)
                => CurrentTime(e, c.name) - c.time <= Jitter

\* A host update that was in contention when it arrived is applied when the
\* contention ends ("in this case, we want to now apply the update"), so none
\* is left when the session has settled.
StashEmpty == Settled => \A e \in E : conn[e].stash = NoStash

\* candidate_host_apply_wait: "we exit the state for the send_candidates_wait
\* state when we receive an advertise_finished event", and such an event comes.
ApplyWaitEnds ==
    \A e \in E : conn[e].state = "candidate_host_apply_wait"
                    ~> conn[e].state # "candidate_host_apply_wait"

=============================================================================
