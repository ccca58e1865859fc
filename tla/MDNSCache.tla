----------------------------- MODULE MDNSCache -----------------------------
(***************************************************************************)
(* The life of an RRset in the Multicast DNS core (mDNSCore/mDNS.c), from  *)
(* the host that publishes it to the clients of another host: records are  *)
(* announced, updated, said goodbye for and asked for again; the querier   *)
(* caches them, refreshes them before they expire, flushes the ones that   *)
(* were replaced, and tells the questions of its clients what came and     *)
(* what went.  All records have one name and type and differ in rdata.     *)
(*                                                                         *)
(* Time advances in ticks of a second, and a packet arrives in the second  *)
(* it is sent in unless it is lost.  A record counts as received "just     *)
(* now" (less than a second ago) until the next tick.                      *)
(***************************************************************************)
EXTENDS Integers, Sequences, FiniteSets, SequencesExt

CONSTANTS
  Values,               \* rdata a record of the set may have
  Clients,              \* clients that may ask for the set
  TTL,                  \* seconds a record lives in the cache
  InitialAnnounceCount, \* announcements of a new record (4)
  GoodbyeCount,         \* goodbyes of a record that goes (3)
  MaxQuestionInterval,  \* longest time between two queries (3600)
  MaxEvents             \* bound on packets lost and changes of the set

ASSUME CacheAssumption ==
  /\ IsFiniteSet(Values) /\ IsFiniteSet(Clients)
  /\ TTL \in Nat /\ TTL > 0 /\ TTL % 20 = 0
  /\ {InitialAnnounceCount, GoodbyeCount, MaxQuestionInterval} \subseteq Nat \ {0}
  /\ MaxEvents \in Nat

VARIABLES
  unique,  \* the records are unique: they carry the cache flush bit
  auth,    \* per rdata, the publisher's record
  cache,   \* per rdata, the querier's cache record
  qs,      \* the querier's questions, in list order
  poll,    \* when the first question is sent again
  told,    \* per client and rdata, adds minus removes delivered
  net,     \* packets in flight
  losses,  \* packets lost so far
  changes  \* changes of the published set so far

vars == <<unique, auth, cache, qs, poll, told, net, losses, changes>>
publisher == <<auth, changes>>
querier == <<cache, qs, poll, told>>

MaxUnansweredQueries == 4
OneSecond == 1
RefreshStep == TTL \div 20

Unregistered == [st |-> "none", announces |-> 0, interval |-> 0, wait |-> 0,
                 marked |-> FALSE, sinceMC |-> 0, sent |-> FALSE, old |-> {}]

NoRecord == [in |-> FALSE, left |-> 0, tagged |-> FALSE, fresh |-> FALSE,
             unanswered |-> 0, active |-> FALSE, delay |-> 0, waiting |-> FALSE]

Live == {v \in Values : auth[v].st = "live"}
Cached == {v \in Values : cache[v].in}

Less(n) == IF n = 0 THEN 0 ELSE n - 1
AtMost(n, m) == IF n < m THEN n ELSE m

-----------------------------------------------------------------------------
(* The publisher *)

NewAuthRecord(old) ==
  [Unregistered EXCEPT !.st = "live", !.announces = InitialAnnounceCount,
                       !.old = old]

\* Calls of the applications on either host happen between packets: one made
\* while a packet is in flight commutes with the sending or the receiving of
\* the packet, whichever is at the other host.
MayCall == net = {}
MayChange == MayCall /\ losses + changes < MaxEvents

mDNS_Register(v) ==
  /\ auth[v].st = "none" /\ MayChange
  /\ auth' = [auth EXCEPT ![v] = NewAuthRecord({})]
  /\ changes' = changes + 1
  /\ UNCHANGED <<unique, querier, net, losses>>

\* The record with rdata v gets rdata w.  A shared record that was announced
\* retracts its old data in the packet that announces the new.
mDNS_Update(v, w) ==
  /\ auth[v].st = "live" /\ auth[w].st = "none" /\ MayChange
  /\ LET old == IF unique THEN {}
                ELSE auth[v].old \cup (IF auth[v].sent THEN {v} ELSE {})
     IN auth' = [auth EXCEPT ![v] = Unregistered, ![w] = NewAuthRecord(old \ {w})]
  /\ changes' = changes + 1
  /\ UNCHANGED <<unique, querier, net, losses>>

\* A shared record that was announced says goodbye; a unique one just goes.
mDNS_Deregister(v) ==
  /\ auth[v].st = "live" /\ MayChange
  /\ auth' = [auth EXCEPT ![v] =
       IF ~unique /\ @.sent
       THEN [Unregistered EXCEPT !.st = "leaving", !.announces = GoodbyeCount,
                                 !.interval = 2]
       ELSE Unregistered]
  /\ changes' = changes + 1
  /\ UNCHANGED <<unique, querier, net, losses>>

\* Going to sleep, every record that was sent is retracted, unique ones with
\* the cache flush bit.
BeginSleepProcessing ==
  /\ Live # {} /\ MayChange
  /\ net' = net \cup {[kind |-> "response", live |-> {}, flush |-> unique,
                       bye |-> {v \in Live : auth[v].sent}]}
  /\ auth' = [v \in Values |-> Unregistered]
  /\ changes' = changes + 1
  /\ UNCHANGED <<unique, querier, losses>>

\* The publisher leaves the network without a word.
Crash ==
  /\ Live # {} /\ MayChange
  /\ auth' = [v \in Values |-> Unregistered]
  /\ changes' = changes + 1
  /\ UNCHANGED <<unique, querier, net, losses>>

TimeToAnnounceThisRecord(v) == auth[v].announces > 0 /\ auth[v].wait = 0

HalfwayToAnnounce(v) ==
  auth[v].announces > 0 /\ 2 * auth[v].wait <= auth[v].interval

\* Mutation of Announced: a unique record is announced without the rest of its set.
Announced_alone == {v \in Live : TimeToAnnounceThisRecord(v)}

\* The live records that are announced: the ones that are due, the ones half
\* way there with an interval no longer, and for unique records the whole set.
Announced ==
  LET due == {v \in Live : TimeToAnnounceThisRecord(v)}
      early == {v \in Live : HalfwayToAnnounce(v)
                 /\ \E u \in due : auth[v].interval <= auth[u].interval}
  IN IF unique /\ due # {} THEN Live ELSE due \cup early

Answered ==
  LET marked == {v \in Live : auth[v].marked}
  IN IF unique /\ marked # {} THEN Live ELSE marked

Leaving == {v \in Values : auth[v].st = "leaving" /\ TimeToAnnounceThisRecord(v)}

NextInterval(i) == IF i = 0 THEN 1 ELSE 2 * i

AfterSend(v) ==
  LET r == auth[v]
      clean == [r EXCEPT !.marked = FALSE, !.sinceMC = 0, !.sent = TRUE, !.old = {}]
  IN IF v \in Leaving
     THEN IF r.announces = 1 THEN Unregistered
          ELSE [r EXCEPT !.announces = @ - 1, !.wait = r.interval]
     ELSE IF v \in Announced /\ HalfwayToAnnounce(v)
     THEN [clean EXCEPT !.announces = @ - 1, !.interval = NextInterval(@),
                        !.wait = NextInterval(r.interval)]
     ELSE IF v \in Announced \cup Answered THEN clean ELSE r

SendResponses ==
  LET sent == Announced \cup Answered
      bye == Leaving \cup UNION {auth[v].old : v \in sent}
  IN /\ sent \cup bye # {}
     /\ net' = net \cup {[kind |-> "response", live |-> sent, bye |-> bye \ sent,
                          flush |-> unique]}
     /\ auth' = [v \in Values |-> AfterSend(v)]
     /\ UNCHANGED <<unique, querier, losses, changes>>

\* An answer is planned for every record that is not among the known answers
\* and was not multicast in the last second.
ProcessQuery(m) ==
  /\ m.kind = "query"
  /\ auth' = [v \in Values |->
       IF v \in Live \ m.known /\ auth[v].sinceMC >= OneSecond
       THEN [auth[v] EXCEPT !.marked = TRUE]
       ELSE [auth[v] EXCEPT !.marked = @ /\ v \notin m.known]]
  /\ net' = net \ {m}
  /\ UNCHANGED <<unique, querier, losses, changes>>

-----------------------------------------------------------------------------
(* The querier.  Its steps are built from operators on the state           *)
(* s = [cache, qs, poll, told] of the querier.                             *)

Querier == [cache |-> cache, qs |-> qs, poll |-> poll, told |-> told]

Becomes(s) ==
  /\ cache' = s.cache /\ qs' = s.qs /\ poll' = s.poll /\ told' = s.told

\* The questions before NewQuestions.
IsAnswered(q) == ~q.new
SomeAnswered(s) == \E i \in DOMAIN s.qs : IsAnswered(s.qs[i])
AnsweredClients(s) == {s.qs[i].client : i \in {j \in DOMAIN s.qs : IsAnswered(s.qs[j])}}

CountAnswers(s, n) ==
  [s EXCEPT !.qs = [i \in DOMAIN s.qs |->
     IF IsAnswered(s.qs[i])
     THEN [s.qs[i] EXCEPT !.answers = IF @ + n < 0 THEN 0 ELSE @ + n]
     ELSE s.qs[i]]]

Tell(s, clients, v, n) ==
  [s EXCEPT !.told = [c \in Clients |->
     IF c \in clients THEN [s.told[c] EXCEPT ![v] = @ + n] ELSE s.told[c]]]

\* A record that becomes active late has missed some of its refresh queries.
AdjustUnansweredQueries(r) ==
  LET rem == AtMost(r.left \div RefreshStep, MaxUnansweredQueries)
  IN IF r.left = 0 \/ r.unanswered >= MaxUnansweredQueries
        \/ MaxUnansweredQueries - r.unanswered <= rem
     THEN r
     ELSE [r EXCEPT !.unanswered = MaxUnansweredQueries - (IF rem = 0 THEN 1 ELSE rem)]

\* Mutation of Activate: CRActiveQuestion is not set.
Activate_never(r) == AdjustUnansweredQueries(r)

Activate(r) == IF r.active THEN r
               ELSE [AdjustUnansweredQueries(r) EXCEPT !.active = TRUE]

\* ResetQuestionState: a unique answer stops the polling.
Settled == [interval |-> MaxQuestionInterval, wait |-> MaxQuestionInterval]
Restarted == [interval |-> 0, wait |-> 0]

SettleQuestion(s) == IF unique THEN [s EXCEPT !.poll = Settled] ELSE s

\* AnswerCurrentQuestionWithResourceRecord(QC_add) for these questions, the
\* first of the list among them unless it is waiting to be answered.  Only the
\* first is an ActiveQuestion, whose polling an answer stops; the others are
\* duplicates of it.
AnswerQuestions(s, clients, v) ==
  LET first == s.qs # << >> /\ s.qs[1].client \in clients
      kept == IF first THEN [s EXCEPT !.cache[v] = Activate(@)] ELSE s
      asked == IF first THEN SettleQuestion(kept) ELSE kept
  IN IF s.cache[v].waiting THEN asked ELSE Tell(asked, clients, v, 1)

CacheRecordDeferredAdd(s, v) ==
  LET due == [s EXCEPT !.cache[v].waiting = FALSE, !.cache[v].delay = 0]
  IN AnswerQuestions(due, AnsweredClients(s), v)

SoonToExpire(s) == {v \in Values : s.cache[v].in /\ s.cache[v].left <= OneSecond}

\* CheckForSoonToExpireRecords: wait until the last of them is gone.
Delay(s) == CHOOSE d \in {s.cache[v].left : v \in SoonToExpire(s)} :
              \A v \in SoonToExpire(s) : s.cache[v].left <= d

DelayDelivery(s, v) ==
  [s EXCEPT !.cache[v].waiting = TRUE, !.cache[v].delay = Delay(s)]

\* mDNSCoreReceiveCacheCheck and RefreshCacheRecord for a record that is
\* cached already.
Refresh(s, v) ==
  SettleQuestion([s EXCEPT !.cache[v].left = TTL, !.cache[v].tagged = FALSE,
                           !.cache[v].fresh = TRUE, !.cache[v].unanswered = 0])

\* Mutation of CreateNewCacheEntry: CurrentAnswers is not incremented.
CreateNewCacheEntry_uncounted(s, v) ==
  [s EXCEPT !.cache[v] = [NoRecord EXCEPT !.in = TRUE, !.left = TTL, !.fresh = TRUE,
                                          !.waiting = TRUE]]

\* CreateNewCacheEntry and CacheRecordAdd; the delivery is decided at the end
\* of the packet.
CreateNewCacheEntry(s, v) ==
  CountAnswers([s EXCEPT !.cache[v] =
    [NoRecord EXCEPT !.in = TRUE, !.left = TTL, !.fresh = TRUE,
                     !.waiting = TRUE]], 1)

ReceiveLive(s, v) == IF s.cache[v].in THEN Refresh(s, v) ELSE CreateNewCacheEntry(s, v)

\* A goodbye leaves the record a second, and never extends its life.
Expiring(r) == [r EXCEPT !.left = OneSecond, !.tagged = TRUE,
                         !.unanswered = MaxUnansweredQueries]

ReceiveGoodbye(s, v) ==
  IF s.cache[v].in /\ s.cache[v].left > OneSecond
  THEN [s EXCEPT !.cache[v] = [Expiring(@) EXCEPT !.fresh = TRUE]]
  ELSE s

\* Mutation of FlushRecord: a goodbye of this second counts as a new record.
FlushRecord_revives(r, bye) ==
  IF ~r.in THEN r
  ELSE IF r.fresh THEN [r EXCEPT !.left = TTL]
  ELSE IF bye THEN [r EXCEPT !.left = 0]
  ELSE IF r.left > OneSecond THEN [Expiring(r) EXCEPT !.fresh = FALSE]
  ELSE r

\* The effect of the cache flush bit on a record of the set.  Records that
\* the packet brought, or that came less than a second ago, are kept; one that
\* the same packet said goodbye for goes at once; the others get a second.
FlushRecord(r, bye) ==
  IF ~r.in THEN r
  ELSE IF r.fresh /\ r.left > OneSecond THEN [r EXCEPT !.left = TTL]
  ELSE IF bye THEN [r EXCEPT !.left = 0]
  ELSE IF r.left > OneSecond THEN [Expiring(r) EXCEPT !.fresh = FALSE]
  ELSE r

Flush(s, m, said) ==
  IF m.flush /\ (m.live # {} \/ \E v \in m.bye : s.cache[v].in)
  THEN [s EXCEPT !.cache = [v \in Values |->
          FlushRecord(s.cache[v], v \in said)]]
  ELSE s

DeliverNew(s, v) ==
  IF SoonToExpire(s) # {} THEN DelayDelivery(s, v) ELSE CacheRecordDeferredAdd(s, v)

Over(Op(_, _), s, set) == FoldSet(LAMBDA v, t : Op(t, v), s, set)

mDNSCoreReceiveResponse(m) ==
  /\ m.kind = "response"
  /\ LET new == m.live \ Cached
         said == {v \in m.bye : cache[v].in /\ cache[v].left > OneSecond}
         parted == Over(ReceiveGoodbye, Querier, m.bye)
         received == Over(ReceiveLive, parted, m.live)
     IN Becomes(Over(DeliverNew, Flush(received, m, said), new))
  /\ net' = net \ {m}
  /\ UNCHANGED <<unique, publisher, losses>>

\* Mutation of CacheRecordRmv: a delayed record that expires is taken back though nobody heard of it.
CacheRecordRmv_always(s, v) ==
  Tell(CountAnswers(s, -1), AnsweredClients(s), v, -1)

\* CacheRecordRmv and CheckCacheExpiration for one record.  A record that no
\* client heard of yet goes without a remove.
CacheRecordRmv(s, v) ==
  LET counted == CountAnswers(s, -1)
  IN IF s.cache[v].waiting THEN counted ELSE Tell(counted, AnsweredClients(s), v, -1)

\* Mutation of ExpireRecord: the record is released without CacheRecordRmv.
ExpireRecord_untold(s, v) == [s EXCEPT !.cache[v] = NoRecord]

ExpireRecord(s, v) ==
  LET asked == IF unique THEN [s EXCEPT !.poll = Restarted] ELSE s
      gone == IF s.cache[v].active THEN CacheRecordRmv(asked, v) ELSE s
  IN [gone EXCEPT !.cache[v] = NoRecord]

CheckRecord(s, v) ==
  IF s.cache[v].left = 0 THEN ExpireRecord(s, v)
  ELSE IF s.cache[v].waiting /\ s.cache[v].delay = 0 THEN CacheRecordDeferredAdd(s, v)
  ELSE s

CheckCacheExpiration(s) ==
  Over(CheckRecord, s, {v \in Values : s.cache[v].in})

CacheCheckDue ==
  \E v \in Cached : \/ cache[v].active /\ cache[v].left = 0
                    \/ cache[v].waiting /\ cache[v].delay = 0

CheckCache ==
  /\ CacheCheckDue
  /\ Becomes(CheckCacheExpiration(Querier))
  /\ UNCHANGED <<unique, publisher, net, losses>>

\* The question that NewQuestions points at.
FirstNew(s) == CHOOSE i \in DOMAIN s.qs :
                 s.qs[i].new /\ \A j \in 1 .. i - 1 : ~s.qs[j].new

AnswerNewQuestion ==
  /\ \E i \in DOMAIN qs : qs[i].new
  /\ LET s == CheckCacheExpiration(Querier)
         i == FirstNew(s)
         known == {v \in Values : s.cache[v].in /\ s.cache[v].left > 0}
         asked == [client |-> s.qs[i].client, new |-> FALSE,
                   answers |-> Cardinality(known)]
         old == [s EXCEPT !.qs = [j \in DOMAIN s.qs |-> IF j = i THEN asked ELSE s.qs[j]]]
         Answer(t, v) == AnswerQuestions(t, {asked.client}, v)
     IN Becomes([Over(Answer, old, known) EXCEPT
          !.poll = IF i = 1 /\ ~(unique /\ known # {}) THEN Restarted ELSE @])
  /\ UNCHANGED <<unique, publisher, net, losses>>

mDNS_StartQuery(c) ==
  /\ MayCall
  /\ \A i \in DOMAIN qs : qs[i].client # c
  /\ qs' = Append(qs, [client |-> c, new |-> TRUE, answers |-> 0])
  /\ poll' = IF qs = << >> THEN Restarted ELSE poll
  /\ UNCHANGED <<unique, publisher, cache, told, net, losses>>

\* The next question of the list takes over; records that answered the
\* stopped one stay active if some answered question is left.
mDNS_StopQuery(c) ==
  /\ MayCall
  /\ \E i \in DOMAIN qs :
       /\ qs[i].client = c
       /\ qs' = RemoveAt(qs, i)
       /\ LET left == \E j \in DOMAIN qs' : ~qs'[j].new
          IN cache' = [v \in Values |-> [cache[v] EXCEPT !.active = @ /\ (i # 1 \/ left)]]
  /\ told' = [told EXCEPT ![c] = [v \in Values |-> 0]]
  /\ UNCHANGED <<unique, publisher, poll, net, losses>>

RefreshDue(r) ==
  /\ r.in /\ r.active /\ r.unanswered < MaxUnansweredQueries
  /\ r.left <= RefreshStep * (MaxUnansweredQueries - r.unanswered)

QueryDue ==
  /\ qs # << >> /\ ~qs[1].new
  /\ poll.wait = 0 \/ \E v \in Values : RefreshDue(cache[v])

\* BuildQuestion lists the shared records whose half-life is over a second
\* away as known answers, and expects the others to be answered.
KnownAnswers ==
  {v \in Cached : ~unique /\ ~cache[v].tagged /\ cache[v].left > TTL \div 2 + OneSecond}

NextPoll ==
  LET i == AtMost(IF poll.interval = 0 THEN 1 ELSE 3 * poll.interval,
                  MaxQuestionInterval)
  IN [interval |-> i, wait |-> i]

SendQueries ==
  /\ QueryDue
  /\ net' = net \cup {[kind |-> "query", known |-> KnownAnswers]}
  /\ cache' = [v \in Values |->
       IF v \in Cached \ KnownAnswers
       THEN [cache[v] EXCEPT !.unanswered = AtMost(@ + 1, MaxUnansweredQueries)]
       ELSE cache[v]]
  /\ poll' = IF 2 * poll.wait <= poll.interval THEN NextPoll ELSE poll
  /\ UNCHANGED <<unique, publisher, qs, told, losses>>

-----------------------------------------------------------------------------
(* The network and time *)

Lose(m) ==
  /\ losses + changes < MaxEvents
  /\ losses' = losses + 1
  /\ net' = net \ {m}
  /\ UNCHANGED <<unique, publisher, querier>>

SendDue == Announced \cup Answered \cup Leaving # {}

Idle ==
  /\ net = {} /\ ~SendDue /\ ~CacheCheckDue /\ ~QueryDue
  /\ \A i \in DOMAIN qs : ~qs[i].new

Tick ==
  /\ Idle
  /\ auth' = [v \in Values |-> [auth[v] EXCEPT !.wait = Less(@),
                !.sinceMC = IF auth[v].st = "live" THEN OneSecond ELSE 0]]
  /\ cache' = [v \in Values |-> [cache[v] EXCEPT !.left = Less(@),
                !.delay = Less(@), !.fresh = FALSE]]
  /\ poll' = [poll EXCEPT !.wait = IF qs = << >> THEN @ ELSE Less(@)]
  /\ UNCHANGED <<unique, qs, told, net, losses, changes>>

-----------------------------------------------------------------------------
Init ==
  /\ unique \in BOOLEAN
  /\ auth = [v \in Values |-> Unregistered]
  /\ cache = [v \in Values |-> NoRecord]
  /\ qs = << >>
  /\ poll = Restarted
  /\ told = [c \in Clients |-> [v \in Values |-> 0]]
  /\ net = {} /\ losses = 0 /\ changes = 0

Next ==
  \/ \E v \in Values : mDNS_Register(v)
  \/ \E v, w \in Values : mDNS_Update(v, w)
  \/ \E v \in Values : mDNS_Deregister(v)
  \/ BeginSleepProcessing
  \/ Crash
  \/ SendResponses
  \/ \E m \in net : ProcessQuery(m)
  \/ \E m \in net : mDNSCoreReceiveResponse(m)
  \/ CheckCache
  \/ AnswerNewQuestion
  \/ \E c \in Clients : mDNS_StartQuery(c)
  \/ \E c \in Clients : mDNS_StopQuery(c)
  \/ SendQueries
  \/ \E m \in net : Lose(m)
  \/ Tick

\* Both event loops do what is due and packets that are not lost arrive;
\* time passes.
Fairness == []<>Idle /\ SF_vars(Tick)

Spec == Init /\ [][Next]_vars /\ Fairness

-----------------------------------------------------------------------------
AuthRecord ==
  [st : {"none", "live", "leaving"}, announces : Nat, interval : Nat,
   wait : Nat, marked : BOOLEAN, sinceMC : 0..OneSecond, sent : BOOLEAN,
   old : SUBSET Values]

CacheRecord ==
  [in : BOOLEAN, left : 0..TTL, tagged : BOOLEAN, fresh : BOOLEAN,
   unanswered : 0..MaxUnansweredQueries, active : BOOLEAN,
   delay : 0..OneSecond, waiting : BOOLEAN]

Packets ==
  [kind : {"response"}, live : SUBSET Values, bye : SUBSET Values, flush : BOOLEAN]
  \cup [kind : {"query"}, known : SUBSET Values]

(***************************************************************************)
(* Type correctness; also that an inactive or absent record is told apart  *)
(* from one a question depends on (CRActiveQuestion), and that every       *)
(* client hears of a record at most once more than it is withdrawn.        *)
(***************************************************************************)
TypeOK ==
  /\ unique \in BOOLEAN
  /\ auth \in [Values -> AuthRecord]
  /\ cache \in [Values -> CacheRecord]
  /\ qs \in Seq([client : Clients, new : BOOLEAN, answers : Nat])
  /\ poll \in [interval : 0..MaxQuestionInterval, wait : 0..MaxQuestionInterval]
  /\ told \in [Clients -> [Values -> 0..1]]
  /\ net \subseteq Packets
  /\ {losses, changes, losses + changes} \subseteq 0..MaxEvents

Questions(c) == {i \in DOMAIN qs : qs[i].client = c /\ ~qs[i].new}

Heard(c) == {v \in Values : told[c][v] = 1}

(***************************************************************************)
(* Between cache checks, the clients whose questions have been answered    *)
(* have been told of exactly the records in the cache whose delivery is    *)
(* not delayed: adds and removes match the cache however they are          *)
(* deferred, suppressed or merged.                                         *)
(***************************************************************************)
ClientViewMatchesCache ==
  \A c \in Clients :
    Heard(c) = IF Questions(c) = {} THEN {}
               ELSE {v \in Cached : ~cache[v].waiting}

(***************************************************************************)
(* CurrentAnswers never falls below the number of cached records that      *)
(* answer the question, so that a record that expires always has an answer *)
(* to take back (CacheRecordRmv logs "How can CurrentAnswers already be    *)
(* zero" otherwise).                                                       *)
(***************************************************************************)
AnswersNeverUndercounted ==
  \A i \in DOMAIN qs : ~qs[i].new => qs[i].answers >= Cardinality(Cached)

OnlyPublished == Cardinality(Live) = changes

(***************************************************************************)
(* When records are only published and nothing is lost, no client that is  *)
(* asking ever sees one go: each is refreshed before it expires, even if   *)
(* the question came late in its life, and the cache flush bit of another  *)
(* record of the set does not take it away.                                *)
(***************************************************************************)
LiveRecordKept ==
  [][\A c \in Clients, v \in Values :
       losses = 0 /\ OnlyPublished /\ told[c][v] = 1 /\ Questions(c)' # {}
         => told'[c][v] = 1]_vars

(***************************************************************************)
(* A record that was said goodbye for or flushed is gone within a second   *)
(* unless it is received again: neither another record of the set nor the  *)
(* cache flush bit of a later packet of the same second gives it back its  *)
(* life (the comment on the cache flush bit in mDNSCoreReceiveResponse).   *)
(***************************************************************************)
NoResurrection == \A v \in Values : cache[v].tagged => cache[v].left <= OneSecond

(***************************************************************************)
(* However packets are lost and whether a record is updated, withdrawn     *)
(* with or without a goodbye or lost with its host, a client that keeps    *)
(* asking is in the end told exactly what is published.                    *)
(***************************************************************************)
ViewConverges ==
  \A c \in Clients : <>[](Questions(c) # {}) => <>[](Heard(c) = Live)
=============================================================================
