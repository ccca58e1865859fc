# Specifications of mDNSResponder

This directory holds TLA+ specifications of the parts of this repository whose
correctness depends on the order in which things happen: the replication
protocol between SRP servers (`ServiceRegistration/srp-replication.c`), from
the election of a session to the exchange inside it, together with the part of
the advertising proxy it drives (`ServiceRegistration/srp-mdns-proxy.c`); the
Multicast DNS core (`mDNSCore/mDNS.c`), where a host claims and defends a name
and where a querier caches what another host publishes; and the DNS Push client
(`mDNSCore/uDNS.c` over `DSO/`).

`PROJECT.json` lists the components, the runs, the source lines behind every
definition, the deviations found, the hazards and the theorems.

## 1. The system

The repository is a family of programs around DNS Service Discovery.

| Part | State it keeps | Operations | Talks to |
|---|---|---|---|
| mDNS core (`mDNSCore/mDNS.c`) | resource records being probed or announced, questions, cache | register, query, receive packet, timer | platform layers, IPC daemon |
| Unicast core (`uDNS.c`) | DNS servers, NAT mappings, LLQs, dynamic updates | query, update, retransmit | mDNS core |
| Client IPC (`uds_daemon.c`, `dnssd_clientstub.c`) | request lists per client | register, browse, resolve | mDNS core |
| DSO (`DSO/dso.c`, `dso-transport.c`) | sessions, outstanding queries, keepalive timers | send, receive, time out | replication, discovery proxy |
| Advertising proxy (`srp-mdns-proxy.c`) | host list, update in progress and queued updates per host, leases | SRP update, registration callbacks, lease timer | mDNSResponder, replication |
| SRP replication (`srp-replication.c`) | domains, instances, two connections per instance, a state machine per connection | discovery, connect, elect, exchange candidates, forward updates | peer servers, advertising proxy |
| SRP client (`srp-client.c`) | hosts, registrations, server list, retransmission timers | register, renew, remove, fail over | SRP servers |
| Discovery proxy and relay, DNS update proxy | subscriptions per connection, updates in flight | push, query, update | DSO, DNS |
| Border router (`route.c`, `cti-services.c`) | prefixes, router advertisements, Thread network data | timers, interface events | platform |
| Platform layers, command line clients | sockets, interfaces | I/O | everything |

An SRP client registers its host and services with *one* SRP server. The
advertising proxy of that server registers them with mDNSResponder, one update
at a time per host; updates that arrive meanwhile are queued on the host. The
replication protocol copies registrations to every other server:

1. every server discovers its peers, connects to each, and of the two
   connections of a pair the one made by the server with the larger id is kept;
2. on that session the outgoing end asks for candidates, the incoming end
   offers each of its hosts (name, key, age) and sends the hosts the other end
   wants; then the roles are swapped;
3. both ends are then in `ready`, and every update a client makes is forwarded
   as a host message and answered.

What is hard:

* a server is one event loop, but its state actions run *inside* the callbacks
  of the advertising proxy: `update_finished` calls the replication code in the
  middle of its own bookkeeping, and the replication code can start the next
  update on the same host before that call returns;
* three independent things end an update: mDNSResponder, a failure, and a call
  that finds nothing to do and finishes at once; their events are delivered
  immediately in one case and through `ioloop_run_async` in the other;
* an SRP client update and a replicated update can meet on the same host;
* a TCP connection can break at any moment. An orderly disconnect frees the
  attachments of the connection (candidate, candidate list, queue), a loss
  frees nothing on the outgoing side;
* a session has one outstanding DSO query in each direction, and nothing but
  the order of the states guarantees it;
* two servers connect to each other at the same time, each before or after it
  has learned the other's address, and a connection that is cancelled is heard
  of again later, in a callback that may come after its successor was made;
* in Multicast DNS nobody is in charge: hosts that start at the same time, a
  packet that is lost and two links that are joined must all be resolved by
  timing, tie-breaks and the answers that happen to be sent;
* the cache is changed by announcements, goodbyes and flush bits that arrive
  within the same second, while questions come and go and deliveries to them
  are delayed;
* the DNS Push client keeps objects that refer to each other (questions, zones,
  servers, DSO states, connection attempts) and lets go of them from timers,
  read errors and configuration changes, in any order.

What makes each component correct:

* *session*: each message meets a state that takes it; an answer meets the
  request it answers; no state follows a pointer that is not there; the session
  comes to rest; at rest, the databases agree;
* *advertising proxy*: every client update is answered once; an update is
  started only when none is in progress; queued updates are eventually run;
  a lease that expires takes the host away and nothing else;
* *election*: of two connections between two servers exactly one survives, and
  when it is lost another one is made;
* *SRP client*: a registration is renewed before its lease ends, whichever
  server answers and whatever is lost;
* *DSO*: every query gets exactly one of a response, a timeout or a drop;
* *mDNS probing*: of two hosts that probe for a name at most one keeps it, and
  the other one finds another;
* *mDNS cache*: clients are told exactly what the cache holds, and in the end
  what is published; what is published is not forgotten while it is asked for;
* *DNS Push*: a question is served by push or by polling, a record that does
  not expire has a subscription behind it, and objects live exactly as long as
  they are referred to.

## 2. Modules

| Module | What it is |
|---|---|
| `SRPLSync` | one replication session between two servers, with the advertising proxy of both |
| `MCSRPLSync` | the constants used by the runs |
| `SRPLSyncProofs` | proofs about the state of each end of `SRPLSync` |
| `SRPLProtocolProofs` | proofs about the conversation of the two ends; extends `SRPLSyncProofs` |
| `SRPLSession` | how two servers come to one session; gives `Establish` of `SRPLSync` its meaning |
| `MDNSProbe` | hosts that probe for, announce and defend a name on one link |
| `MDNSCache` | one set of records, from the host that publishes it to the clients of another |
| `DNSPush` | the DNS Push client, its DSO sessions and connections, and a push server |
| `PushService` | what the DNS Push client promises about each name; `DNSPush` implements it |
| `MCSRPLSession`, `MCMDNSProbe`, `MCMDNSCache`, `MCDNSPush` | the constants used by the runs |
| `SRPLSessionProofs`, `MDNSProbeProofs`, `MDNSCacheProofs` | proofs about the modules they are named after |
| `DNSPushProofs` | the inductive invariant of `DNSPush`, what the operators on its state and the actions do to it, and the theorems |
| `PushServiceProofs` | that `DNSPush` implements `PushService`; extends `DNSPushProofs` |
| `FoldInduction` | that a fold over a set keeps what its steps keep, used by the proofs about `DNSPush` and `MDNSCache` |

### SRPLSync

The outgoing end of the session is the server `"cl"`, the incoming end `"sv"`.

| Variable | Code |
|---|---|
| `conn[e]` | `srpl_connection_t`: state, `candidate`, `candidates` (with `current_candidate` and `candidates_not_generated`), `client_update_queue`, `stashed_host`, whether the last request received has been answered, whether the DSO query slot is taken, `database_synchronized` |
| `host[e][h]` | `adv_host_t`: absent, valid or removed; a generation number that tells apart successive objects of one name (so that a kept pointer to an old one is recognised); key; the message last advertised; `update_time`; the update in progress; the queued client updates; `srpl_connection` |
| `async[e]` | callbacks queued with `ioloop_run_async` |
| `fin[e]` | the call of `update_finished` or `update_failed` that is on the stack |
| `net[e]` | DSO messages on the way to `e` |
| `link` | the TCP connection |
| `clock` | updates issued so far. It is both the identity of a message and the time of day |
| `used` | how much of each fault bound is used up |

Every C state action is one TLA+ action with the same name. A state that the
code leaves at once (`Transient`) blocks everything else until its action has
run, as does an `update_finished` that has not returned; a handler touches only
its own server and appends to the stream to the peer, so nothing is lost by not
interleaving the peer with it. `update_finished` is two actions, up to the
events it delivers (`update_finished`) and after them (`Settle`), because the
state actions that those events trigger run in between: this is where several
of the deviations of section 5 live.

`srp_update_start` is a function of the host record. What `srp_dns_evaluate`
makes of a stashed message is a choice of six outcomes (`ApplyStarts`,
`ApplyRetransmission`, `ApplyFinishesAtOnce`, `ApplyIgnored`, `ApplyRejected`,
`ApplyConflict`), each guarded by the condition the code tests. An age is sent
as an offset and turned back into a time by the receiver's clock, as in the
code, so a message in flight makes a registration look younger.

`Establish` stands for everything up to the end of the SRPL session exchange.
`LoseConnection` empties both streams; `NoticeLoss(e)` is the disconnect
callback, which each end runs in its own time. `srpl_disconnect` is the
reaction to a message that cannot be parsed. The incoming end then sends a retry
delay as a response to the last request it kept, which may have been answered
before; the peer's DSO does not deliver such a response, so the retry delay is
sent or is not (`ServerDrops` in `SRPLSession` is the same).

Abstractions: a host has one key and no service instances; the order of the
candidate list is arbitrary; the two clocks are one; a removal is taken only
when no update of the host is pending, although the code invalidates the host
whatever is pending; whether an update says anything new is a choice
(`ApplyStarts` or `ApplyFinishesAtOnce`); a client retransmission changes nothing;
`OtherUpdate` stands for a session with a third server and supplies the update
and the mark of such a session, not its messages, and starts only when no other
update of the host is pending; timers (60 s, 300 s) are
"eventually". A server that dereferences a null host is taken to restart with an
empty database (`ApplyConflict`).

### SRPLSession

A link `<<s, p>>` is what server `s` keeps about `p` and the connections it
made to `p`.

| Variable | Code |
|---|---|
| `id[s]` | `server_id` |
| `inst[l]` | `srpl_instance_t` and its outgoing `srpl_connection_t`: the advertised id, `num_copies`, `discontinuing`, the address and `cur_address`, `reconnect_timeout`, `incoming`, the state of the outgoing connection and which TCP connection it has |
| `wire[l][k]` | a TCP connection: the state of its two ends, whether the server end was cancelled (`cut`), the session message on its way up and the answer or retry delay on its way down |
| `regens`, `faults` | bounds used up |

`NextAddressGet` is the state action that finds an address or waits;
`Discover`, `AddressAdd`, `BrowseRemove`, `AddressQueryFails` and
`AddressRemove` are the DNS-SD callbacks; `srpl_dso_server_message` holds a
connection from an unknown address (`HoldUnclaimed`) or associates it and
evaluates the ids (`Associate`, `Evaluated`, `NewIds`); the rest are the
callbacks of connections and the timers. A cancelled connection calls its
disconnected callback later, as in `macos-ioloop.c`. A timer fires when nothing
is in flight (`Quiet`): the shortest is half a minute. Abstractions: one address
per server; the advertised id is that of the moment it is resolved; what runs
in a session is the one state `session`.

### MDNSProbe

Time is explicit, in ticks of the probe interval (250 ms). `host[h]` is the
record of host `h` (name, `kDNSRecordTypeUnique` or `Verified`, `ProbeCount`,
`AnnounceCount`, when it is due and at which interval, `ProbingConflictCount`,
the pending answer with its requester, the time since `LastMCTime`) and the
fields of its `mDNS` structure (`SuppressProbes`, `NumFailedProbes`). `net`
holds packets, each for one receiver, for at most `MaxDelay` ticks.
`mDNS_Execute` is `SendQueries` and `SendResponses` in the order of the code,
and what is due is done before time passes. `mDNSCoreReceive` is `ProcessQuery`
(tie-break, answer by unicast or multicast, or nothing) or `ReceiveResponse`
(back to probing, pause, rename, or nothing). The environment is a third party
that asks (`Query`), the loss of a packet, an interface that comes up again
(`mDNS_RegisterInterface`), and a link that is split at first (`Bridge`).
Abstractions: one record per host, its rdata being the number of the host, and
registered with the normal activation (the slow and fast ones, and the random
delay of the first probes by `SuppressQueries`, are left out);
renaming is adding one to the name; random delays are a choice of 0 or 1 tick;
hosts do not change their rdata.

### MDNSCache

Time is in seconds, and a packet arrives in the second it is sent in. `unique`
says whether the set carries the cache flush bit; `auth[v]` is the publisher's
record with rdata `v`, `cache[v]` the querier's (time left, whether a flush or a
goodbye has shortened its life, `UnansweredQueries`, `CRActiveQuestion`,
`DelayDelivery`); `qs` are the questions in list order with `NewQuestions` and
`CurrentAnswers`, `poll` the time to the next query of the first of them (the
others are its duplicates), `told[c][v]` what client `c` has heard. The
publisher registers, updates, deregisters, sleeps or disappears; the querier's
steps are `mDNSCoreReceiveResponse`, `CheckCache`, `AnswerNewQuestion`,
`mDNS_StartQuery`, `mDNS_StopQuery` and `SendQueries`, each composed of
operators on its state that have the names of the functions they translate.
Abstractions: one name and type, one TTL; a question for an interface, the
sharing of questions between hosts, queries that ask for a unicast answer and
such answers are left out; the random part of the refresh times is zero.
`mDNS_Update` leaves out the update credits, which delay an update after many
(`UpdateBlocked`); going to sleep is the branch of `BeginSleepProcessing` without
a sleep proxy; whether a shared record is delivered late is decided at the end of
the packet, not at the record's place in it; a record nobody asks for is purged
when it has expired, where the code also has a schedule per cache slot.

### DNSPush and PushService

| Variable | Code |
|---|---|
| `q[x]` | `DNSQuestion`: active, `DuplicateOf`, LLQ state, `dnsPushServer`, the zone lookup `nta` |
| `server[s]` | `DNSPushServer` and its `DNSPushZone`: reference counts, whether they are on their lists, `connectState`, `connection`, `connectInfo` |
| `dso[s]` | `dso_state_t`: live or to be cleaned up, session established, transport and the connection it has, the connections it or an earlier transport reads from, activities, the table of outstanding queries |
| `connect[s]` | `dso_connect_state_t`: lookup, queued and tried addresses, `connecting`, `connection`, and the state of the `nw_connection` of each attempt |
| `peer[s]` | the push server's ends: the open connections, the subscriptions on each, and the messages on their way in both directions, each on one connection |
| `pinned` | names with a cached answer marked `DNSPushSubscribed` |
| `bad` | an outstanding query names a question that was stopped, or a null server was followed |

A step of the code that calls others is a function on the whole state
(`Unsubscribe`, `UnsubscribeAll`, `ServerRemove`, `DNSPushServerCancel`, ...),
so the order of the calls is that of the code. `Stop` includes the hand-over to
a duplicate, `Reconfigure` restarts every question as
`Querier_ProcessDNSServiceChanges` does, and `DSOIdle` finalizes what was
cancelled. After `bad` the code's behaviour is undefined, and the model stops.

Each address is an attempt with a connection of its own, and the number of
attempts is not limited. The handlers of all attempts share `cs->connection`: a
late "cancelled" of the first clears it while the second is starting and starts
the third, and when the second is ready `dso_connection_succeeded` gives the
transport whatever is there, nothing or the third connection. When that is ready
as well, a second transport replaces the first, which goes on reading. A message
is therefore tied to the connection its transport had when it was written, order
is kept within a connection only, and a read or write error on any of them
cancels the `dso_state_t`.

Abstractions: one zone and one host that serves it, so a server has one zone;
regular queries of a polling question are not modelled; the push server
announces a change only while fewer than `MaxAnswers` messages are on their way
to the client. A question is always given a new DNS service by a
reconfiguration (without one the code cancels the server as well). `DSOIdle` may
run at any time there is something to free, and is not fair: the daemon runs it
while a push server is listed. Left out are DSO keepalive and retry-delay messages
and the timers behind them, the limit of 60 000 unsent bytes (about a thousand
subscriptions), and the allocation failures that leave `connectInfo` NULL. Host
names that are address literals do not come up: the name is printed with a
final dot, which `inet_pton` does not accept.

`PushService` has three variables per name: how it is served (off, waiting,
push, poll), whether the server grants it, and whether an answer is pinned. It
says that a name is served by push only while it is granted, that the end of a
connection takes every name it served to polling in the same step, and that
nothing that cannot expire survives the last question or the connection.
`DNSPush` maps `mode` to the state of the primary question of a name and
`granted` to the subscriptions at the far end of connections in use.

## 3. Runs

The parameters of the `SRPLSync` runs are the hosts, the key that signs each update, the
servers each client talks to (`Separate`: one server each, `Roaming`: both),
`MaxUpdates` and one bound per kind of fault; `MaxFaults` bounds their sum.

| Run | Specification and bounds | Checks |
|---|---|---|
| `session_faults` | `Spec`; one roaming host, three updates, the last with another key; one fault of any kind | `TypeOK`, `Attached`, `NoUnexpectedMessage`, `AckMatchesQueue`, `OneOutstandingRequest`, `OnlyHeadSent` |
| `convergence` | `FairSpec`; two hosts, one client at each server, two updates, no fault | `QueueDrained`, `Agreement`, `Converges` |
| `lost_update` | `Spec`; as `convergence`, one lost connection | refutes `Agreement` |
| `apply_wait_hangs` | `FairSpec`; one host, two updates, one lost connection | refutes `ApplyWaitEnds` |
| `null_host` | `Spec`; one roaming host, two keys | refutes `HostNeverNull` |
| `re_evaluation_is_stale` | `Spec`; one roaming host | refutes `ReEvaluatesCurrentTime` |
| `contended_update_dropped` | `Spec`; one roaming host | refutes `StashEmpty` |
| `election` | `SRPLSession`; two servers, three ids, two connections in each direction, one regenerated id, one fault of any kind (216 000 states) | `TypeOK`, `OneSession`, `IncomingTracked`, `SessionKept`, `ElectionCompletes` |
| `idle_after_disconnect` | `SRPLSession`; two servers, two ids, no fault | refutes `ReconnectsAfterDisconnect` |
| `probing` | `MDNSProbe`; two hosts, packets delayed by up to a tick, one fault (687 000 states) | `TypeOK`, `UniqueOwner`, `OnlyOwnerEvicts`, `EventuallyUnique` |
| `caching` | `MDNSCache`; two records, one client, three changes or losses (1.06 million states) | `TypeOK`, `ClientViewMatchesCache`, `AnswersNeverUndercounted`, `NoResurrection`, `LiveRecordKept`, `ViewConverges` |
| `push` | `DNSPush`; three questions for two names, one server object at a time, one outstanding query, three addresses, two starts, `MaxEvents` 3: three changes of addresses, or one change and one fault, reconfiguration or wake-up (421 000 states) | `TypeOK`, `ReferencesCounted`, `PushedRecordsBacked`, `Implements`, `Settles` |

Why these bounds are enough for what is asked: contention, retransmission,
queueing behind an update in flight and a rescheduled candidate each need two
updates on one host or two hosts; a third update leaves one to arrive after
them. One fault hits every point of a complete session, including both
candidate exchanges and the ready phase, and the session is then established
again. The same run with two faults (5.7 million states, about five minutes)
also passes.

In `election` the initial ids range over all pairs, equal ones included, and
discovery happens in any order at both servers; one fault can hit every state
of either connection. In `probing` one fault is a lost packet, a restart or a
split link, each at any moment; the constants scale down what only repeats (one
announcement instead of four, two failures to rate limiting instead of 15, a
window of three ticks for counting them), and a quarter of the TTL is longer
than the second that the rules compare it with. In `caching` the TTL is the
shortest that gives the four refresh queries a second each; `caching` with two
clients and two events (559 000 states) passes as well. In `push` two questions
share a name, so that there are duplicates, and two names compete for the one
place in the table of outstanding queries. A change of
addresses counts one against `MaxEvents`, anything else two: two further
addresses are what it takes for a transport to get the connection of another
attempt and to be replaced, and one further address is what it takes for a
transport to get none; a fault may come with it at any point. Two starts are a
pair of duplicates or of competing names. The instance with two addresses, three
starts and two changes of addresses or one fault (596 000 states) passes as well,
and the invariants hold with `MaxEvents` 4, which has two faults (2.9 million
states).

Deadlock is not checked where the system may rest: a session that has settled,
with its clients done, has nothing to do, and so have two elected servers and a
push client whose bounds are used up. `probing` and `caching` check it: time
never stops there.

Fairness. `FairSpec` has weak fairness on `Run(e)`, the event loop of each
server: callbacks that are ready are run, a state with an action takes it, and
mDNSResponder answers every registration (the code waits for it without a
timeout). `Establish` is fair because the outgoing end retries for ever
(`srpl_reconnect_wait_action`). Nothing the environment does (clients, faults)
is fair.

`SRPLSession`: discovery and the network are weakly fair; timers are strongly
fair, because a timer that was set fires whatever else happens, and `Quiet` only
says that it does so after the traffic of the moment. `MDNSProbe`: the event
loop, time and delivery are weakly fair; so is `Bridge`, without which hosts on
two links may keep one name, and `Query`, because a conflict of two verified
records shows only when one of them is multicast. `MDNSCache`: what is due gets
done (`[]<>Idle`) and time passes. `DNSPush`: no timer, platform callback or
message stays due for ever; this is written as `[]<>` of the negated guard,
which for these steps, none of which can repeat for ever with its guard still
true, is their weak fairness.

## 4. What is proved

Every theorem holds for every value of the constants that the named assumption
of its module allows, not only for those of the run. No other assumption is
made, except that `NamesAreUnique` and `OnlyOwnersEvict` state theirs
(`Punctual`), and `QueuesDrain` its own (`Undisturbed`, `Unbroken`).

| Module | Theorem | States |
|---|---|---|
| `SRPLSyncProofs` | `TypeCorrect`, `AttachmentsPresent`, `HeadOfQueueInFlight` | `TypeOK`, `Attached`, `OnlyHeadSent` |
| `SRPLProtocolProofs` | `EveryMessageIsTaken`, `AcknowledgementsMatch`, `SlotIsFree`, `QueuesDrain` | `NoUnexpectedMessage`, `AckMatchesQueue`, `OneOutstandingRequest`, `QueueDrained` |
| `SRPLSessionProofs` | `TypeCorrect`, `ElectionIsSafe`, `IncomingIsTracked`, `SessionIsKept` | `TypeOK`, `OneSession`, `IncomingTracked`, and the action property `SessionKept` |
| `DNSPushProofs` | `TypeCorrect`, `ReferencesAreCounted`, `PushedRecordsAreBacked` | `TypeOK`, `ReferencesCounted`, `PushedRecordsBacked` |
| `PushServiceProofs` | `PushServiceIsKept` | `Implements`, the refinement of `PushService` |
| `MDNSCacheProofs` | `TypeCorrect`, `ViewMatchesCache`, `AnswersAreCounted`, `NothingIsRevived` | `TypeOK`, `ClientViewMatchesCache`, `AnswersNeverUndercounted`, `NoResurrection` |
| `MDNSProbeProofs` | `TypeCorrect`, `NamesAreUnique`, `OnlyOwnersEvict` | `TypeOK`, `UniqueOwner`, and the action property `OnlyOwnerEvicts` |

### The state of a replication session (`SRPLSyncProofs`)

`BoundsAssumption`: the bounds are natural numbers, the constant functions have
their domains, the placeholder `"no host"` is no host.

The inductive invariant `IInv` is the conjunction of one part per variable. Its
core is `Good(c)` for each connection: `Fit(c)` (type and queue discipline,
whatever the state) and `AttachedTo(c)` (what the state needs). None of the
three is inductive alone: `Attached` needs that the messages in flight name a
host (type of `net`) and that an entry is on the queue whenever
`srp_client_update_send` is entered; `OnlyHeadSent` needs that a send marks the
head of a queue known not to be empty, which is `Attached`; and the type of a
request needs the type of the queue entry it is made from. The lemmas go from
one connection (`ToPlain`, `ToReadyGood`, `QueueUpdateFit`, `SentFit`), to one
host record (`UpdateStartType`, `SettleType`), to the sending operators
(`SendRequestKeeps`, `SendResponseKeeps`), to groups of actions (`LossKeeps`,
`CandidatesKeep`, `ApplyKeeps`, ...), to `NextIInv`.

### The conversation of a replication session (`SRPLProtocolProofs`)

Same assumption. Whether a message is expected depends on both ends and both
streams, so the invariant `Conversation` has two layers, and `IInv` beneath it.

* What holds at one end whatever became of the other (`SlotOK`, `StreamOK`): in
  which states the query slot is free and the last request unanswered, and what
  the stream to an end in a given state can hold. These parts survive the loss
  of the connection, when the two ends are no longer in step.
* Where the two ends are while both are up (`Together`): one asks for the
  candidates of the other (`Asking`), the accepting end turns from answering to
  asking (`Turning`), the connecting end is ready before the other knows
  (`Finishing`), or both are ready (`Ready`). `Flow` says that each update in
  the ready phase is in exactly one place: on its way, being applied, or
  acknowledged on the way back.

Streams are described up to the messages every state takes, the retry delay and
the response that matches no query: `Silent`, `Carries` one message, `CarriesTwo`
in this order, or `ReadyStream`. That is what makes the induction finite, since
any number of such messages may lie in between. The attempt to prove it showed
one thing the first formulation lacked: the accepting end must have *answered*
"send candidates" before it asks in its turn, else its answer could be sent for
a request that is not there.

Before it was proved, `Conversation` was checked with TLC as an invariant on the
instance of `session_faults` and on one with two hosts on separate servers.

### The queues of an unbroken session (`SRPLProtocolProofs`, second part)

`QueuesDrain` says that nothing is left on the queue of either end when the
session has settled. The code keeps this only while nothing disturbs the
session, as TLC shows, and the theorem says so:

* `Undisturbed`: there is no third server whose updates end the wait of this
  session (`MaxOther`), no message that cannot be used (`MaxBad`), and each
  client talks to one of the two servers. With roaming clients a contended
  update stays stashed, is never acknowledged, and the queue behind it stays.
* `Unbroken`: a connection that is there is not lost. After a loss, the head of
  the queue stays marked as sent (section 5).

What remains is any number of hosts, client updates, updates that fail, removals
and leases that run out, at any time, with any keys and any jitter of the time
stamps; and a session that fails before the connection is there.

A queue that is not drained must be shown to have a reason. The invariant
`Settling` follows it around the session: the head that has been sent holds the
query slot (`QueueOK`), so by `Flow` of `Conversation` the update is in the
stream, or stashed at the peer, or its acknowledgement is in the stream back.
While it is stashed, something at the peer will end the wait (`EventOK`): an
update of that host in progress, or the deferred event
`srpl_deferred_advertise_finished_event`. And there is at most one such thing,
for the right host, else the event of one host would be taken for the other's.
`EventOK` in turn needs that a stashed host is one whose clients talk to the peer
(`StashOK`), so that the record has no client update in the way (`RecordOK`), and
that is so because in the ready phase an end sends only hosts of its own clients
(`Homed`). An end that is closing is excluded: it has given up the session and
the queue with it. `Settling` was checked with TLC on three instances (failures,
removals and expiries, two hosts) before it was proved.

### The election (`SRPLSessionProofs`)

`SessionAssumption`: finitely many servers and connection slots, ids and slots
are positive numbers, the bounds are natural numbers.

`TypeCorrect` rests on `Linked`: the instance holds exactly the one connection
whose client end is live, and has one exactly in the states that need it.
`OneSession` needs `Elections`: on a connection that its client has not closed,
the id on its way is the client's own, and the server end is in session only if
its own id is smaller; two sessions in opposite directions would need each id to
be smaller than the other. `IncomingTracked` and `SessionKept` need `Faultless`:
before the first fault no timer of an instance runs, a link has at most one
connection, and the session is the one the peer has noted. `SessionKept` is a
property of steps and is proved action by action from these.

### DNS Push (`DNSPushProofs`)

`PushAssumption`: finitely many questions, the bounds are natural numbers, at
least one address, and the marks in the table of outstanding queries are no
questions. `MaxAddresses` is not zero because the first address a lookup returns
is always taken (the proof fails without it); above that it may be any number.

A step of this module is a composition of functions on the whole state, so the
invariant `Sound(S)` is stated on states and every function gets a lemma that
says what it makes of a sound state (`Dropped`, `Shrunk`, `LetGo`, `Cancelled`,
`Moved`, `StoppedIn`, `StartedIn`). In between, a state is sound except for the
references of one server, which the parameter `extra` of `At` counts.
`ReferencesCounted` is not inductive: it needs that a server is listed,
connected and in use all at once (`Joined`), that its activities are those of
its holders, that what was cancelled is quiet (`Quiet`), that duplicates hold
nothing (`Asked`), and that at most one server is listed (`Single`).
`PushedRecordsBacked` needs the same and `Backed`. The part of `TypeOK` about
messages needs `Matched`: requests and responses in flight have a slot each, and
it is not free.

### The promise of the DNS Push client (`PushServiceProofs`)

Same assumption. `Implements` maps the state of the client to that of the
service: the mode of a name is the LLQ state of its primary question, a name is
granted when a push server whose `dso_state_t` is in use has its subscription,
and `pinned` is the same in both.

`Sound` does not say that what is served by push is granted: that takes the
order of the messages. A response that grants a subscription is taken at face
value whenever it arrives, and an unsubscribe written before it was read would
make it a promise the push server no longer keeps. `Serving` is what is added:

* `OnePrimary`: of the questions in use for a name one is no duplicate, so the
  name has one mode;
* `NotPolling`: a question whose zone lookup runs does not poll, so the answer
  does not take it out of a mode the service thinks it is in;
* `QueriesInUse`: an outstanding query that is not marked as ignored belongs to
  a primary question in use. When a question is stopped and hands over to a
  duplicate the code leaves the query pointing at it, which is the flaw of
  section 5; `bad` records it, and the parts that speak of messages are about
  the behaviours up to then;
* `RequestsLast`, `ResponsesLast`, `PushedLast`: a request or a response is
  about the name of its question, and a subscription asked for, granted, or in
  use is not ended by a later message on its way to the push server. With several
  connections this is said of one of them: a subscription lasts (`Lasting`) when
  there is a connection that has it and on which nothing on its way ends it
  (`LastsOn`), since an unsubscribe on one connection does not end what was
  granted on another.

The lemmas go the same way as those of `Sound`: what one message sent or read
does to these parts (`GrantingSend`, `GrantingRead`, `GrantingAnswer`,
`GrantingHear`, `GrantingClosed`), what the functions on the state do
(`AskGrants`, `UnsubscribeGrants`, `StopGrants`, `CancelServes`), which changes
of modes, grants and records are which step of the service (`FallStep`,
`LoseStep`, `PushStep`, ...), and one lemma per action (`ReceiveServes`,
`GotZoneDataServes`, `ReconfigureServes`, ...), which shows both that `Serving`
is kept and that the step is matched. `Serving` was checked with TLC on the
instance of `push` before it was proved. The three loops of a change of
configuration are one step of the service: all questions are stopped, at most
one server is cancelled since at most one is listed, and all are started again.

### The cache (`MDNSCacheProofs`)

`CacheAssumption`: finitely many values and clients, positive counts, and a TTL
that is a positive multiple of 20, so that the refresh times at 80, 85, 90 and
95 per cent of it fall on whole seconds.

`Good` is an invariant of the querier's state: new questions are at the end of
the list, `CurrentAnswers` of an answered question is at least the number of
cached records, a record that an answered question heard of is active
(`CRActiveQuestion`), and each client has heard of exactly the records that it
should have. That the records are active is needed for the rest: a record that
is not active is removed without telling anybody. The theorem covers any number
of clients and questions, where the run has one client.

### Probing (`MDNSProbeProofs`)

`ProbeAssumption`: finitely many hosts numbered from 1, positive limits, a
quarter of the TTL longer than the second the rules compare it with, and the
relation between the two platform flags. `TypeOK` contains the ranges of the
counters of a record; that they do not leave them needs the guards of
`SendQueries`, `SendResponses` and the conflict handling together.

That names are unique is a matter of time: three probes, 250 ms apart, and the
answers to them must outrun the one who probes. `NamesAreUnique` assumes
`Punctual`: early probes can ask for a unicast answer
(`CanReceiveUnicastOn5353`), and a packet arrives within a probe interval of the
tick it is sent in. Both are needed: without faults, TLC finds two owners of one
name with a delay of two intervals, and with the flag off, and with a delay of
two intervals a stale answer also makes a host rename (`OnlyOwnerEvicts`).

`Peaceful` is the invariant, about two hosts of one name at a time (`Rivals`),
with the time `Elapsed` since the first probe of a record.

* If one holds the name and the other probes, the other is `Warned`: its first
  probe, which asks for a unicast answer, is on its way and as old as the
  probing; or the holder is marked to answer it (or several hosts, then by
  multicast); or an answer, or a probe that wins the tie-break, is on its way
  and at most a tick younger. Each of these runs out before the third interval
  does.
* If both probe, the loser of the tie-break has not heard any probe the winner
  sent since its own first one, or it would have paused; so these are still on
  their way (`Raced`), hence young, hence the two are at most as far apart as
  `Warned` needs when either of them verifies its name first. When the winner
  does, its announcement, sent in the same `mDNS_Execute`, is part of the
  argument.
* An answer on its way comes from a host that still holds the name (`Truthful`):
  without faults a verified name is never given up, because the conflict that
  would reset it needs a second owner. `OnlyOwnerEvicts` follows from this part.

`Peaceful` was checked with TLC on the instance of `probing` (and with three
hosts and no faults over the first five million states) before it was proved;
the proof is for any number of hosts.

### Folds

The loops over questions, servers and records are folds over sets
(`FoldSet`), which take the elements in an unspecified order. `FoldInduction`
proves that a fold keeps a property that each of its steps keeps. The step and
the property are constants of that module, and each loop is an instance of it:
this is how induction is had although a theorem with an operator as a parameter
cannot be used. Since nothing is known about the order, what is proved of a loop
holds for each.

### Only model-checked

* Liveness (`Converges`, `ApplyWaitEnds`, `ElectionCompletes`,
  `ReconnectsAfterDisconnect`, `EventuallyUnique`, `ViewConverges`, `Settles`):
  the proof system does not treat fairness.
* `Agreement`: it holds for the constants of `convergence`. The code does not
  keep it when a connection is lost (section 5), and TLC also finds it violated
  when updates may fail, registrations may be removed or clients roam: the
  hypotheses of `QueuesDrain` would not be enough for it, and a proof needs a
  second invariant, about which message each end holds.
* `LiveRecordKept`: it rests on the schedule of refresh queries, on how the
  delays of queries, answers and retries add up against the TTL, and holds for
  the bounds of the run.

## 5. Deviations found

Each is a disagreement between the code and a comment in it, shown by a run.

* `null_host`: a replicated update for a name that belongs to another key makes
  `srp_update_start` call `advertise_finished` with no host; "host should never
  be NULL".
* `re_evaluation_is_stale`: the re-evaluation after contention runs before
  `update_time` is stored, so it uses the time from before the update it waited
  for.
* `contended_update_dropped`: an update that arrives in `ready` during
  contention stays stashed and is never applied; the next one finds the stash
  occupied and drops the session.
* `apply_wait_hangs`: when the end of one replicated update starts the next on
  the same host, the first one's cleanup clears the mark of the second, and the
  exchange waits for ever.
* `lost_update`: after a lost connection the head of the queue stays marked as
  sent and what is behind it is not sent in later sessions.

* `idle_after_disconnect`: an incoming connection that waited for its address to
  become known is claimed and cancelled in the same call; if our own connection
  ends before that cancellation is noticed, it goes idle because of it, and
  neither server connects again.

Others are in the model and visible in its behaviours without a run of their
own; `PROJECT.json` lists them as hazards with the reason: `apply_wait` taking
the event of any host, the failed client update that does not end `contention_wait`, the
`candidates_not_generated` flag after an empty exchange, the removed host added
again by a candidate exchange. In the newer modules:

* `SRPLSession`: after two regenerations of equal ids, sessions in both
  directions persist (`OneSession` says `regens = 0`); the last copy of an
  instance that goes away does not start the discontinue timer; the callback of
  an old incoming connection clears `instance->incoming` of its successor after
  a fault (`IncomingTracked` says `faults = 0`).
* `MDNSProbe`: with `CanReceiveUnicastOn5353` false, `UniqueOwner` is violated
  without any loss, because a multicast answer to a probe is suppressed within a
  second of the last one.
* `MDNSCache`: `CurrentAnswers` stays too large after a record whose delivery was
  delayed expires; a question that comes late in the life of a record leaves it
  so few refreshes that one lost packet removes a live record
  (`LiveRecordKept` says `losses = 0`; it comes back, by `ViewConverges`).
* `DNSPush`: the response to an outstanding query reaches a question that was
  stopped after handing over to a duplicate (`bad`); the cancelled event of one
  attempt clears the connection of the next (`Wedged`), or the transport gets the
  connection of a later attempt than the one that is ready; a subscription sent with
  a full table is malformed, and the server ends the connection; a refused or
  woken question polls while it still holds a server or a subscription.

## 6. Not modelled

* Replication: servers with several addresses, domains, more than two servers
  (except `OtherUpdate`), and the composition of `SRPLSession` with `SRPLSync`
  in one state space: the second starts where the first reaches `session`.
* Advertising proxy: the registration callbacks between `prepare_update` and
  `update_finished`, service instances, and the re-registration after
  mDNSResponder restarts.
* Multicast DNS: several interfaces, sleep proxy, service registration with its
  dependent records, local-only records, duplicate question and answer
  suppression between queriers, truncated queries, the daemon's own clients
  stopping questions from inside a callback.
* Unicast DNS: server selection, plain queries and retransmission, dynamic
  update, NAT traversal. DSO: keepalive and inactivity timers, listeners.
* Memory: allocation failures; reference counts except those of `DNSPush`.
* The rest of the repository: see the table of section 1 and `PROJECT.json`.
  Wire formats, platform I/O and the command line tools will stay out: they are
  data and system calls, not order.

## 7. Plan

Models still worth writing, in this order:

1. `SRPLReplica`: the abstract specification of a replicated registration
   (update at one server, delivery at the other), with `SRPLSync` without
   faults shown to implement it.
2. `AdvProxy`: `srp-mdns-proxy.c` in detail, for one host with service
   instances. Properties: every client update is answered exactly once; queued
   updates are run; nothing is registered for a host that is gone.
3. `SrpClient`: registration, retransmission with backoff, renewal and failover
   of `srp-client.c`, against a server that loses and delays.

Proofs, in this order:

1. `SRPLSync`: `Agreement` under the hypotheses of `QueuesDrain` and without
   failures and removals. On top of `Settling` it takes an invariant for each host
   and the server its client talks to: the peer has not been offered the host,
   or an update is noted on the queue, or the message is at the peer or on its way.
2. `MDNSCache`: `LiveRecordKept` without losses, from the schedule of refresh
   queries.
