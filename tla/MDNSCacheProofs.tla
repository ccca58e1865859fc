-------------------------- MODULE MDNSCacheProofs --------------------------
(***************************************************************************)
(* TypeOK, ClientViewMatchesCache, AnswersNeverUndercounted and            *)
(* NoResurrection hold for every set of rdata, every set of clients, every *)
(* TTL and every number of losses and changes.  The inductive invariant is *)
(* stated on the record [cache, qs, poll, told] that the steps of the      *)
(* querier map, and each operator of a step is shown to keep it.           *)
(***************************************************************************)
EXTENDS MDNSCache, FiniteSetTheorems, SequenceTheorems, TLAPS

-----------------------------------------------------------------------------
(* The inductive invariant.                                                *)

QuestionRecord == [client : Clients, new : BOOLEAN, answers : Nat]
Polls == [interval : 0..MaxQuestionInterval, wait : 0..MaxQuestionInterval]
States ==
  [cache : [Values -> CacheRecord], qs : Seq(QuestionRecord), poll : Polls,
   told : [Clients -> [Values -> 0..1]]]

\* The records of the cache of s.
Known(s) == {v \in Values : s.cache[v].in}

\* A client asks once, and new questions are at the end of the list, so that the
\* first question is answered if one is.
Ordered(l) ==
  /\ \A i, j \in DOMAIN l : l[i].client = l[j].client => i = j
  /\ \A i, j \in DOMAIN l : i < j /\ l[i].new => l[j].new

\* A cache record: an absent one is blank, one on its way out stays there, and
\* one that an answered question has heard of is active.
RecordGood(r, asked) ==
  /\ ~r.in => r = NoRecord
  /\ r.tagged => r.left <= OneSecond
  /\ asked /\ r.in /\ ~r.waiting => r.active

\* What a client has heard of a record.
Hears(heard, r) == IF heard /\ r.in /\ ~r.waiting THEN 1 ELSE 0

Counted(s) ==
  \A i \in DOMAIN s.qs : ~s.qs[i].new => s.qs[i].answers >= Cardinality(Known(s))

Good(s) ==
  /\ s \in States /\ Ordered(s.qs) /\ Counted(s)
  /\ \A v \in Values : RecordGood(s.cache[v], SomeAnswered(s))
  /\ \A c \in Clients, v \in Values : s.told[c][v] = Hears(c \in AnsweredClients(s), s.cache[v])

Published ==
  /\ unique \in BOOLEAN /\ auth \in [Values -> AuthRecord] /\ net \subseteq Packets
  /\ losses \in Nat /\ changes \in Nat /\ losses + changes <= MaxEvents

-----------------------------------------------------------------------------
\* The fields of the querier's state are its variables.
LEMMA QuerierIs ==
  Querier.cache = cache /\ Querier.qs = qs /\ Querier.poll = poll /\ Querier.told = told
  BY DEF Querier

\* A step that becomes a state of the querier is a step to that state.
LEMMA BecomesIs ==
  ASSUME NEW t \in States, Becomes(t) PROVE Querier' = t
  BY DEF Becomes, Querier, States

\* The cache can be counted.
LEMMA KnownFinite ==
  ASSUME NEW s PROVE IsFiniteSet(Known(s)) /\ Cardinality(Known(s)) \in Nat
<1>1. Known(s) \in SUBSET Values
  BY DEF Known
<1> QED BY <1>1, CacheAssumption, FS_Subset, FS_CardinalityType

\* An absent record and a question that has just been started have their types.
LEMMA NoneTyped == NoRecord \in CacheRecord /\ Restarted \in Polls /\ Settled \in Polls
  BY CacheAssumption DEF NoRecord, CacheRecord, Restarted, Settled, Polls, OneSecond,
     MaxUnansweredQueries

\* The invariant holds before anything was asked or published.
LEMMA InitGood == Init => Good(Querier) /\ Published
<1> SUFFICES ASSUME Init PROVE Good(Querier) /\ Published
  OBVIOUS
<1>1. Published
  BY CacheAssumption DEF Init, Published, Unregistered, AuthRecord, OneSecond
<1>2. Querier \in States
  BY NoneTyped DEF Init, Querier, States
<1>3. Ordered(qs) /\ Counted(Querier) /\ AnsweredClients(Querier) = {}
  BY QuerierIs DEF Init, Ordered, Counted, AnsweredClients
<1>4. \A v \in Values : RecordGood(cache[v], SomeAnswered(Querier)) /\ ~cache[v].in
  BY DEF Init, RecordGood, NoRecord
<1>5. \A c \in Clients, v \in Values : told[c][v] = Hears(c \in AnsweredClients(Querier), cache[v])
  BY <1>4 DEF Init, Hears
<1> QED BY <1>1, <1>2, <1>3, <1>4, <1>5, QuerierIs DEF Good

\* The invariant gives the types.
LEMMA GoodTyped == Good(Querier) /\ Published => TypeOK
<1> SUFFICES ASSUME Good(Querier), Published PROVE TypeOK
  OBVIOUS
<1>1. Querier \in States
  BY DEF Good
<1>2. /\ cache \in [Values -> CacheRecord] /\ qs \in Seq([client : Clients, new : BOOLEAN, answers : Nat])
      /\ poll \in [interval : 0..MaxQuestionInterval, wait : 0..MaxQuestionInterval]
      /\ told \in [Clients -> [Values -> 0..1]]
  BY <1>1, QuerierIs DEF States, QuestionRecord, Polls
<1>3. {losses, changes, losses + changes} \subseteq 0..MaxEvents
  BY CacheAssumption DEF Published
<1> QED BY <1>2, <1>3 DEF TypeOK, Published

\* The invariant gives that clients have heard of what is in the cache.
LEMMA GoodViewed == Good(Querier) => ClientViewMatchesCache
<1> SUFFICES ASSUME Good(Querier), NEW c \in Clients
             PROVE  Heard(c) = IF Questions(c) = {} THEN {} ELSE {v \in Cached : ~cache[v].waiting}
  BY DEF ClientViewMatchesCache
<1>1. c \in AnsweredClients(Querier) <=> Questions(c) # {}
  BY QuerierIs DEF AnsweredClients, Questions, IsAnswered
<1>2. \A v \in Values : told[c][v] = Hears(Questions(c) # {}, cache[v])
  BY <1>1, QuerierIs DEF Good
<1> QED BY <1>2 DEF Heard, Cached, Hears

\* The invariant gives that answers are not undercounted.
LEMMA GoodCounted == Good(Querier) => AnswersNeverUndercounted
  BY QuerierIs DEF Good, Counted, Known, AnswersNeverUndercounted, Cached

\* The invariant gives that no record is given back its life.
LEMMA GoodGone == Good(Querier) => NoResurrection
  BY QuerierIs DEF Good, RecordGood, NoResurrection

-----------------------------------------------------------------------------
(* What the operators of a step change.                                    *)

\* t has the questions of s, in the same order and equally far.
SameList(s, t) ==
  /\ DOMAIN t.qs = DOMAIN s.qs
  /\ \A i \in DOMAIN s.qs : t.qs[i].client = s.qs[i].client /\ t.qs[i].new = s.qs[i].new

\* Nothing of t but what concerns record v differs from s.
Apart(s, t, v) ==
  /\ SameList(s, t)
  /\ \A u \in Values \ {v} : /\ t.cache[u] = s.cache[u]
                             /\ \A c \in Clients : t.told[c][u] = s.told[c][u]

\* Which clients are answered depends on that only.
LEMMA SameAnswered ==
  ASSUME NEW s, NEW t, SameList(s, t)
  PROVE  AnsweredClients(t) = AnsweredClients(s) /\ SomeAnswered(t) = SomeAnswered(s)
  BY DEF SameList, AnsweredClients, SomeAnswered, IsAnswered

\* A step for one record.
LEMMA OneRecord ==
  ASSUME NEW s, Good(s), NEW v \in Values, NEW t \in States, Apart(s, t, v), Counted(t),
         RecordGood(t.cache[v], SomeAnswered(s)),
         \A c \in Clients : t.told[c][v] = Hears(c \in AnsweredClients(s), t.cache[v])
  PROVE  Good(t)
<1>1. AnsweredClients(t) = AnsweredClients(s) /\ SomeAnswered(t) = SomeAnswered(s)
  BY SameAnswered DEF Apart
<1>2. Ordered(t.qs)
  BY DEF Good, Ordered, Apart, SameList
<1>3. \A u \in Values : RecordGood(t.cache[u], SomeAnswered(t))
  BY <1>1 DEF Good, Apart
<1>4. \A c \in Clients, u \in Values : t.told[c][u] = Hears(c \in AnsweredClients(t), t.cache[u])
  BY <1>1 DEF Good, Apart
<1> QED BY <1>2, <1>3, <1>4 DEF Good

\* Which record is known, as far as v goes.
LEMMA KnownApart ==
  ASSUME NEW s, NEW t, NEW v \in Values, \A u \in Values \ {v} : t.cache[u] = s.cache[u],
         s.cache[v].in \in BOOLEAN, t.cache[v].in \in BOOLEAN
  PROVE  Cardinality(Known(t)) = Cardinality(Known(s))
           + (IF t.cache[v].in THEN 1 ELSE 0) - (IF s.cache[v].in THEN 1 ELSE 0)
<1>1. CASE t.cache[v].in = s.cache[v].in
  <2>1. Known(t) = Known(s)
    BY <1>1 DEF Known
  <2> QED BY <1>1, <2>1, KnownFinite
<1>2. CASE t.cache[v].in = TRUE /\ s.cache[v].in = FALSE
  <2>1. Known(t) = Known(s) \cup {v} /\ v \notin Known(s)
    BY <1>2 DEF Known
  <2>2. Cardinality(Known(t)) = Cardinality(Known(s)) + 1
    BY <2>1, KnownFinite, FS_AddElement
  <2> QED BY <1>2, <2>2, KnownFinite
<1>3. CASE t.cache[v].in = FALSE /\ s.cache[v].in = TRUE
  <2>1. Known(t) = Known(s) \ {v} /\ v \in Known(s)
    BY <1>3 DEF Known
  <2>2. Cardinality(Known(t)) = Cardinality(Known(s)) - 1
    BY <2>1, KnownFinite, FS_RemoveElement
  <2> QED BY <1>3, <2>2, KnownFinite
<1> QED BY <1>1, <1>2, <1>3

\* The next query does not matter.
LEMMA PollGood ==
  ASSUME NEW s, Good(s), NEW p \in Polls
  PROVE  LET t == [s EXCEPT !.poll = p]
         IN  Good(t) /\ t.cache = s.cache /\ t.qs = s.qs /\ t.told = s.told
<1> DEFINE t == [s EXCEPT !.poll = p]
<1>1. s \in States
  BY DEF Good
<1>2. t \in States /\ t.cache = s.cache /\ t.qs = s.qs /\ t.told = s.told
  BY <1>1 DEF States
<1> HIDE DEF t
<1>3. Known(t) = Known(s) /\ AnsweredClients(t) = AnsweredClients(s) /\ SomeAnswered(t) = SomeAnswered(s)
  BY <1>2 DEF Known, AnsweredClients, SomeAnswered
<1>4. Good(t)
  BY <1>2, <1>3 DEF Good, Counted
<1> QED BY <1>2, <1>4 DEF t

\* A unique answer stops the polling and nothing else.
LEMMA SettleGood ==
  ASSUME NEW s, Good(s)
  PROVE  /\ Good(SettleQuestion(s)) /\ SettleQuestion(s).cache = s.cache
         /\ SettleQuestion(s).qs = s.qs /\ SettleQuestion(s).told = s.told
<1>1. CASE unique
  <2>1. SettleQuestion(s) = [s EXCEPT !.poll = Settled]
    BY <1>1 DEF SettleQuestion
  <2> QED BY <2>1, PollGood, NoneTyped
<1>2. CASE ~unique
  BY <1>2 DEF SettleQuestion
<1> QED BY <1>1, <1>2

\* A record of the cache is replaced.
PutRecord(s, v, r) == [s EXCEPT !.cache = [s.cache EXCEPT ![v] = r]]

\* Nothing but that.
LEMMA PutRecordIs ==
  ASSUME NEW s \in States, NEW v \in Values, NEW r \in CacheRecord
  PROVE  /\ PutRecord(s, v, r) \in States /\ PutRecord(s, v, r).cache[v] = r
         /\ \A u \in Values \ {v} : PutRecord(s, v, r).cache[u] = s.cache[u]
         /\ PutRecord(s, v, r).qs = s.qs /\ PutRecord(s, v, r).poll = s.poll
         /\ PutRecord(s, v, r).told = s.told
  BY DEF PutRecord, States

\* A record keeps its place in the cache and with the clients, but gets another
\* time to live, is refreshed or becomes active.
LEMMA AgeGood ==
  ASSUME NEW s, Good(s), NEW v \in Values, NEW r \in CacheRecord,
         r.in = s.cache[v].in, r.waiting = s.cache[v].waiting, RecordGood(r, SomeAnswered(s))
  PROVE  Good(PutRecord(s, v, r)) /\ Apart(s, PutRecord(s, v, r), v)
<1> DEFINE t == PutRecord(s, v, r)
<1>1. s \in States /\ s.cache[v] \in CacheRecord
  BY DEF Good, States
<1>2. /\ t \in States /\ t.cache[v] = r /\ t.qs = s.qs /\ t.told = s.told
      /\ \A u \in Values \ {v} : t.cache[u] = s.cache[u]
  BY <1>1, PutRecordIs
<1> HIDE DEF t
<1>3. Apart(s, t, v)
  BY <1>2 DEF Apart, SameList
<1>4. Known(t) = Known(s)
  BY <1>2 DEF Known
<1>5. Counted(t)
  BY <1>2, <1>4 DEF Counted, Good
<1>6. \A c \in Clients : t.told[c][v] = Hears(c \in AnsweredClients(s), t.cache[v])
  BY <1>2 DEF Good, Hears
<1>7. Good(t)
  BY <1>2, <1>3, <1>5, <1>6, OneRecord
<1> QED BY <1>3, <1>7 DEF t

\* CurrentAnswers is adjusted, and nothing else.
Recounted(s, t, n) ==
  /\ t \in States /\ SameList(s, t)
  /\ t.cache = s.cache /\ t.poll = s.poll /\ t.told = s.told
  /\ \A i \in DOMAIN s.qs : ~s.qs[i].new => t.qs[i].answers >= s.qs[i].answers + n

\* CountAnswers does that, and no count falls below zero.
LEMMA CountIs ==
  ASSUME NEW s \in States, NEW n \in Int
  PROVE  Recounted(s, CountAnswers(s, n), n)
<1> DEFINE Adjusted(q) == IF IsAnswered(q) THEN [q EXCEPT !.answers = IF @ + n < 0 THEN 0 ELSE @ + n] ELSE q
           l == [i \in DOMAIN s.qs |-> Adjusted(s.qs[i])]
           t == CountAnswers(s, n)
<1>1. s.qs \in Seq(QuestionRecord) /\ DOMAIN s.qs = 1..Len(s.qs) /\ Len(s.qs) \in Nat
  BY DEF States
<1>2. ASSUME NEW i \in DOMAIN s.qs
      PROVE  /\ Adjusted(s.qs[i]) \in QuestionRecord /\ Adjusted(s.qs[i]).client = s.qs[i].client
             /\ Adjusted(s.qs[i]).new = s.qs[i].new
             /\ ~s.qs[i].new => Adjusted(s.qs[i]).answers >= s.qs[i].answers + n
  <2>1. PICK q \in QuestionRecord : q = s.qs[i]
    BY <1>1, <1>2
  <2>2. q.answers \in Nat
    BY DEF QuestionRecord
  <2>3. CASE q.new
    BY <2>1, <2>3 DEF IsAnswered
  <2>4. CASE ~q.new
    <3> DEFINE k == IF q.answers + n < 0 THEN 0 ELSE q.answers + n
    <3>1. k \in Nat /\ k >= q.answers + n
      BY <2>2
    <3>2. Adjusted(q) = [q EXCEPT !.answers = k]
      BY <2>4 DEF IsAnswered
    <3> HIDE DEF k
    <3> QED BY <2>1, <3>1, <3>2 DEF QuestionRecord
  <2> QED BY <2>3, <2>4
<1>3. t = [s EXCEPT !.qs = l]
  BY Zenon DEF CountAnswers
<1> HIDE DEF Adjusted
<1>4. l \in Seq(QuestionRecord) /\ DOMAIN l = DOMAIN s.qs /\ \A i \in DOMAIN s.qs : l[i] = Adjusted(s.qs[i])
  BY <1>1, <1>2
<1> HIDE DEF l, t
<1>5. t \in States /\ t.qs = l /\ t.cache = s.cache /\ t.poll = s.poll /\ t.told = s.told
  BY <1>3, <1>4 DEF States
<1>6. SameList(s, t)
  BY <1>2, <1>4, <1>5 DEF SameList
<1>7. \A i \in DOMAIN s.qs : ~s.qs[i].new => t.qs[i].answers >= s.qs[i].answers + n
  BY <1>2, <1>4, <1>5
<1> QED BY <1>5, <1>6, <1>7 DEF t, Recounted

\* Clients are told of record v once more, or once less, and nothing else happens.
Notified(s, t, C, v, n) ==
  /\ t \in States /\ t.qs = s.qs /\ t.cache = s.cache /\ t.poll = s.poll
  /\ \A c \in Clients, u \in Values :
       t.told[c][u] = IF c \in C /\ u = v THEN s.told[c][v] + n ELSE s.told[c][u]

\* Tell does that, as long as no client hears of a record twice.
LEMMA TellIs ==
  ASSUME NEW s \in States, NEW C \in SUBSET Clients, NEW v \in Values, NEW n \in Int,
         \A c \in C : s.told[c][v] + n \in 0..1
  PROVE  Notified(s, Tell(s, C, v, n), C, v, n)
<1> DEFINE f == [c \in Clients |-> IF c \in C THEN [s.told[c] EXCEPT ![v] = @ + n] ELSE s.told[c]]
           t == Tell(s, C, v, n)
<1>1. s.told \in [Clients -> [Values -> 0..1]]
  BY DEF States
<1>2. f \in [Clients -> [Values -> 0..1]]
  BY <1>1
<1>3. \A c \in Clients, u \in Values :
        f[c][u] = IF c \in C /\ u = v THEN s.told[c][v] + n ELSE s.told[c][u]
  BY <1>1
<1>4. t = [s EXCEPT !.told = f]
  BY Zenon DEF Tell
<1> HIDE DEF f, t
<1>5. t \in States /\ t.told = f /\ t.qs = s.qs /\ t.cache = s.cache /\ t.poll = s.poll
  BY <1>2, <1>4 DEF States
<1> QED BY <1>3, <1>5 DEF t, Notified

\* CurrentAnswers is a number.
LEMMA AnswersTyped ==
  ASSUME NEW s \in States, NEW i \in DOMAIN s.qs
  PROVE  s.qs[i] \in QuestionRecord /\ s.qs[i].answers \in Nat
<1>1. s.qs[i] \in QuestionRecord
  BY DEF States
<1> QED BY <1>1 DEF QuestionRecord

\* Clients that are answered are clients.
LEMMA AnsweredTyped ==
  ASSUME NEW s \in States PROVE AnsweredClients(s) \in SUBSET Clients
<1>1. \A i \in DOMAIN s.qs : s.qs[i] \in QuestionRecord
  BY DEF States
<1>2. \A i \in DOMAIN s.qs : s.qs[i].client \in Clients
  BY <1>1 DEF QuestionRecord
<1> QED BY <1>2 DEF AnsweredClients

\* The refresh steps left of a record's life are a natural number: a step is not zero.
LEMMA StepsLeft == ASSUME NEW n \in 0..TTL PROVE n \div RefreshStep \in Nat
<1>1. TTL \in Nat /\ TTL > 0 /\ TTL % 20 = 0
  BY CacheAssumption
<1>2. PICK k \in Int : k = TTL \div 20 /\ k > 0
  BY <1>1
<1> QED BY <1>2 DEF RefreshStep

\* Becoming active changes nothing else but the number of queries without answer.
LEMMA ActivateIs ==
  ASSUME NEW r \in CacheRecord
  PROVE  /\ Activate(r) \in CacheRecord /\ Activate(r).active
         /\ Activate(r).in = r.in /\ Activate(r).waiting = r.waiting
         /\ Activate(r).left = r.left /\ Activate(r).tagged = r.tagged
<1>1. CASE r.active
  BY <1>1 DEF Activate
<1>2. CASE ~r.active
  <2> DEFINE a == AdjustUnansweredQueries(r)
  <2>1. /\ a \in CacheRecord /\ a.in = r.in /\ a.waiting = r.waiting /\ a.left = r.left
        /\ a.tagged = r.tagged
    <3> DEFINE rem == AtMost(r.left \div RefreshStep, MaxUnansweredQueries)
               n == MaxUnansweredQueries - (IF rem = 0 THEN 1 ELSE rem)
    <3>1. r.left \div RefreshStep \in Nat
      BY StepsLeft DEF CacheRecord
    <3>2. rem \in 0..MaxUnansweredQueries
      BY <3>1 DEF AtMost, MaxUnansweredQueries
    <3>3. n \in 0..MaxUnansweredQueries
      BY <3>2 DEF MaxUnansweredQueries
    <3>4. a = r \/ a = [r EXCEPT !.unanswered = n]
      BY Zenon DEF AdjustUnansweredQueries
    <3> HIDE DEF n, a
    <3> QED BY <3>3, <3>4 DEF CacheRecord
  <2>2. Activate(r) = [a EXCEPT !.active = TRUE]
    BY <1>2 DEF Activate
  <2> HIDE DEF a
  <2> QED BY <2>1, <2>2 DEF CacheRecord
<1> QED BY <1>1, <1>2

\* What AnswerCurrentQuestionWithResourceRecord leaves: the clients have heard of
\* v, unless it is waiting, and v is active if the first question is among them.
Told(s, t, C, v) ==
  /\ t \in States /\ t.qs = s.qs
  /\ \A u \in Values \ {v} : t.cache[u] = s.cache[u]
  /\ t.cache[v].in = s.cache[v].in /\ t.cache[v].waiting = s.cache[v].waiting
  /\ t.cache[v].left = s.cache[v].left /\ t.cache[v].tagged = s.cache[v].tagged
  /\ (s.cache[v].active \/ (s.qs # << >> /\ s.qs[1].client \in C)) => t.cache[v].active
  /\ \A c \in Clients, u \in Values :
       t.told[c][u] = IF c \in C /\ u = v /\ ~s.cache[v].waiting THEN s.told[c][v] + 1
                      ELSE s.told[c][u]

\* AnswerQuestions does that.
LEMMA AnswerIs ==
  ASSUME NEW s \in States, NEW C \in SUBSET Clients, NEW v \in Values,
         ~s.cache[v].waiting => \A c \in C : s.told[c][v] = 0
  PROVE  Told(s, AnswerQuestions(s, C, v), C, v)
<1> DEFINE first == s.qs # << >> /\ s.qs[1].client \in C
           kept == IF first THEN [s EXCEPT !.cache[v] = Activate(@)] ELSE s
           asked == IF first THEN SettleQuestion(kept) ELSE kept
           t == AnswerQuestions(s, C, v)
<1>1. s.cache[v] \in CacheRecord
  BY DEF States
<1>2. /\ kept \in States /\ kept.qs = s.qs /\ kept.told = s.told
      /\ \A u \in Values \ {v} : kept.cache[u] = s.cache[u]
      /\ kept.cache[v].in = s.cache[v].in /\ kept.cache[v].waiting = s.cache[v].waiting
      /\ kept.cache[v].left = s.cache[v].left /\ kept.cache[v].tagged = s.cache[v].tagged
      /\ s.cache[v].active \/ first => kept.cache[v].active
  <2>1. CASE first
    <3> DEFINE r == Activate(s.cache[v])
    <3>1. kept = PutRecord(s, v, r)
      BY <2>1, Zenon DEF PutRecord
    <3>2. /\ r \in CacheRecord /\ r.active /\ r.in = s.cache[v].in /\ r.waiting = s.cache[v].waiting
          /\ r.left = s.cache[v].left /\ r.tagged = s.cache[v].tagged
      BY <1>1, ActivateIs
    <3> HIDE DEF r, kept
    <3> QED BY <2>1, <3>1, <3>2, PutRecordIs
  <2>2. CASE ~first
    BY <2>2
  <2> QED BY <2>1, <2>2
<1> HIDE DEF kept
<1>3. asked \in States /\ asked.qs = kept.qs /\ asked.told = kept.told /\ asked.cache = kept.cache
  <2>1. /\ [kept EXCEPT !.poll = Settled] \in States /\ [kept EXCEPT !.poll = Settled].qs = kept.qs
        /\ [kept EXCEPT !.poll = Settled].told = kept.told
        /\ [kept EXCEPT !.poll = Settled].cache = kept.cache
    BY <1>2, NoneTyped DEF States
  <2> QED BY <1>2, <2>1 DEF SettleQuestion
<1>4. t = IF s.cache[v].waiting THEN asked ELSE Tell(asked, C, v, 1)
  BY Zenon DEF AnswerQuestions, kept
<1> HIDE DEF asked, t, first
<1>5. CASE s.cache[v].waiting
  <2>1. t = asked
    BY <1>4, <1>5
  <2> QED BY <1>2, <1>3, <1>5, <2>1 DEF Told, t, first
<1>6. CASE ~s.cache[v].waiting
  <2>1. t = Tell(asked, C, v, 1)
    BY <1>4, <1>6
  <2>2. \A c \in C : asked.told[c][v] + 1 \in 0..1
    BY <1>2, <1>3, <1>6
  <2>3. Notified(asked, t, C, v, 1)
    BY <1>3, <2>1, <2>2, TellIs
  <2> QED BY <1>2, <1>3, <1>6, <2>3 DEF Told, Notified, t, first
<1> QED BY <1>1, <1>5, <1>6 DEF CacheRecord

-----------------------------------------------------------------------------
(* The steps for one record.                                               *)

\* If a question is answered the first one is.
LEMMA FirstAnswered ==
  ASSUME NEW s, Good(s), SomeAnswered(s)
  PROVE  s.qs # << >> /\ s.qs[1].client \in AnsweredClients(s)
<1>1. s.qs \in Seq(QuestionRecord) /\ DOMAIN s.qs = 1..Len(s.qs) /\ Len(s.qs) \in Nat
  BY DEF Good, States
<1>2. PICK i \in DOMAIN s.qs : ~s.qs[i].new
  BY DEF SomeAnswered, IsAnswered
<1>3. 1 \in DOMAIN s.qs /\ ~s.qs[1].new
  BY <1>1, <1>2 DEF Good, Ordered
<1> QED BY <1>1, <1>3 DEF AnsweredClients, IsAnswered

\* A record that waits, or does no longer, is a record.
LEMMA WaitingTyped ==
  ASSUME NEW r \in CacheRecord, NEW b \in BOOLEAN, NEW d \in 0..OneSecond
  PROVE  LET w == [[r EXCEPT !.waiting = b] EXCEPT !.delay = d]
         IN  /\ w \in CacheRecord /\ w.waiting = b /\ w.in = r.in /\ w.left = r.left
             /\ w.tagged = r.tagged /\ w.active = r.active
  BY DEF CacheRecord

\* A record that waited is delivered to all clients that are answered.
LEMMA DeferredAddGood ==
  ASSUME NEW s, Good(s), NEW v \in Values, s.cache[v].in, s.cache[v].waiting
  PROVE  LET t == CacheRecordDeferredAdd(s, v)
         IN  Good(t) /\ Apart(s, t, v) /\ t.cache[v].in /\ t.cache[v].left = s.cache[v].left
<1> DEFINE r == [[s.cache[v] EXCEPT !.waiting = FALSE] EXCEPT !.delay = 0]
           due == PutRecord(s, v, r)
           C == AnsweredClients(s)
           t == CacheRecordDeferredAdd(s, v)
<1>1. s \in States /\ s.cache[v] \in CacheRecord /\ C \in SUBSET Clients
  BY AnsweredTyped DEF Good, States
<1>2. /\ r \in CacheRecord /\ r.waiting = FALSE /\ r.in = s.cache[v].in /\ r.left = s.cache[v].left
      /\ r.tagged = s.cache[v].tagged /\ r.active = s.cache[v].active
  <2>1. 0 \in 0..OneSecond
    BY DEF OneSecond
  <2> QED BY <1>1, <2>1, WaitingTyped
<1>3. [s EXCEPT !.cache[v].waiting = FALSE, !.cache[v].delay = 0] = due
  BY <1>1 DEF PutRecord, States
<1>4. t = AnswerQuestions(due, C, v)
  BY <1>3 DEF CacheRecordDeferredAdd
<1> HIDE DEF r
<1>5. /\ due \in States /\ due.cache[v] = r /\ due.qs = s.qs /\ due.told = s.told
      /\ \A u \in Values \ {v} : due.cache[u] = s.cache[u]
  BY <1>1, <1>2, PutRecordIs
<1> HIDE DEF due, t, C
<1>6. \A c \in Clients : s.told[c][v] = 0
  BY DEF Good, Hears
<1>7. Told(due, t, C, v)
  BY <1>1, <1>4, <1>5, <1>6, AnswerIs
<1>8. t \in States /\ Apart(s, t, v)
  BY <1>2, <1>5, <1>7 DEF Told, Apart, SameList
<1>9. t.cache[v].in = s.cache[v].in /\ t.cache[v].left = s.cache[v].left
      /\ t.cache[v].waiting = FALSE /\ t.cache[v].tagged = s.cache[v].tagged
  BY <1>2, <1>5, <1>7 DEF Told
<1>10. Known(t) = Known(s)
  BY <1>8, <1>9 DEF Known, Apart
<1>11. Counted(t)
  BY <1>5, <1>7, <1>10 DEF Good, Counted, Told
<1>12. RecordGood(t.cache[v], SomeAnswered(s))
  <2>1. SomeAnswered(s) => t.cache[v].active
    BY <1>5, <1>7, FirstAnswered DEF Told, C
  <2> QED BY <1>9, <2>1 DEF Good, RecordGood
<1>13. \A c \in Clients : t.told[c][v] = Hears(c \in AnsweredClients(s), t.cache[v])
  BY <1>2, <1>5, <1>6, <1>7, <1>9 DEF Told, Hears, C
<1>14. Good(t)
  BY <1>8, <1>11, <1>12, <1>13, OneRecord
<1> QED BY <1>8, <1>9, <1>14 DEF t

\* A delay is at most a second.
LEMMA DelayTyped ==
  ASSUME NEW s \in States, SoonToExpire(s) # {} PROVE Delay(s) \in 0..OneSecond
<1> DEFINE D == {s.cache[v].left : v \in SoonToExpire(s)}
<1>1. PICK u : u \in SoonToExpire(s)
  OBVIOUS
<1>2. \A v \in SoonToExpire(s) : s.cache[v].left \in 0..1
  <2> TAKE v \in SoonToExpire(s)
  <2>1. s.cache[v] \in CacheRecord /\ s.cache[v].left <= 1
    BY DEF SoonToExpire, States, OneSecond
  <2> QED BY <2>1 DEF CacheRecord
<1>3. \E d \in D : \A v \in SoonToExpire(s) : s.cache[v].left <= d
  <2>1. CASE \E v \in SoonToExpire(s) : s.cache[v].left = 1
    BY <1>2, <2>1
  <2>2. CASE \A v \in SoonToExpire(s) : s.cache[v].left # 1
    <3>1. \A v \in SoonToExpire(s) : s.cache[v].left <= s.cache[u].left
      BY <1>1, <1>2, <2>2
    <3> QED BY <1>1, <3>1
  <2> QED BY <2>1, <2>2
<1>4. Delay(s) \in D
  BY <1>3, Zenon DEF Delay
<1> QED BY <1>2, <1>4 DEF OneSecond

\* A new record is delivered, now or later.
LEMMA DeliverNewGood ==
  ASSUME NEW s, Good(s), NEW v \in Values, s.cache[v].in, s.cache[v].waiting
  PROVE  Good(DeliverNew(s, v)) /\ Apart(s, DeliverNew(s, v), v)
<1>1. s \in States /\ s.cache[v] \in CacheRecord
  BY DEF Good, States
<1>2. CASE SoonToExpire(s) # {}
  <2> DEFINE r == [[s.cache[v] EXCEPT !.waiting = TRUE] EXCEPT !.delay = Delay(s)]
  <2>1. DeliverNew(s, v) = PutRecord(s, v, r)
    BY <1>1, <1>2 DEF DeliverNew, DelayDelivery, PutRecord, States
  <2>2. Delay(s) \in 0..OneSecond
    BY <1>1, <1>2, DelayTyped
  <2>3. /\ r \in CacheRecord /\ r.in = s.cache[v].in /\ r.waiting = TRUE
        /\ r.tagged = s.cache[v].tagged /\ r.left = s.cache[v].left
    BY <1>1, <2>2, WaitingTyped
  <2> HIDE DEF r
  <2>4. RecordGood(r, SomeAnswered(s)) /\ r.waiting = s.cache[v].waiting
    BY <1>1, <2>3 DEF Good, RecordGood, CacheRecord
  <2> QED BY <2>1, <2>3, <2>4, AgeGood
<1>3. CASE SoonToExpire(s) = {}
  BY <1>3, DeferredAddGood DEF DeliverNew
<1> QED BY <1>2, <1>3

\* A record that is received again gets its whole life back.
LEMMA RefreshGood ==
  ASSUME NEW s, Good(s), NEW v \in Values, s.cache[v].in
  PROVE  Good(Refresh(s, v)) /\ Apart(s, Refresh(s, v), v)
<1> DEFINE r == [[[[s.cache[v] EXCEPT !.left = TTL] EXCEPT !.tagged = FALSE] EXCEPT !.fresh = TRUE]
                 EXCEPT !.unanswered = 0]
           t == PutRecord(s, v, r)
<1>1. s \in States /\ s.cache[v] \in CacheRecord
  BY DEF Good, States
<1>2. Refresh(s, v) = SettleQuestion(t)
  <2>1. [s EXCEPT !.cache[v].left = TTL, !.cache[v].tagged = FALSE,
                  !.cache[v].fresh = TRUE, !.cache[v].unanswered = 0] = t
    BY <1>1 DEF PutRecord, States
  <2> QED BY <2>1 DEF Refresh
<1>3. /\ r \in CacheRecord /\ r.in = s.cache[v].in /\ r.waiting = s.cache[v].waiting
      /\ r.active = s.cache[v].active /\ r.tagged = FALSE
  <2>1. TTL \in 0..TTL /\ 0 \in 0..MaxUnansweredQueries
    BY CacheAssumption DEF MaxUnansweredQueries
  <2>2. PICK c \in CacheRecord : c = s.cache[v]
    BY <1>1
  <2>3. r = [[[[c EXCEPT !.left = TTL] EXCEPT !.tagged = FALSE] EXCEPT !.fresh = TRUE]
             EXCEPT !.unanswered = 0]
    BY <2>2
  <2> HIDE DEF r
  <2> QED BY <2>1, <2>2, <2>3 DEF CacheRecord
<1> HIDE DEF r
<1>4. RecordGood(r, SomeAnswered(s))
  BY <1>3 DEF RecordGood, Good
<1>5. Good(t) /\ Apart(s, t, v)
  BY <1>3, <1>4, AgeGood
<1> HIDE DEF t
<1> QED BY <1>2, <1>5, SettleGood DEF Apart, SameList

\* A new record is counted for the questions and waits for the end of the packet.
LEMMA CreateGood ==
  ASSUME NEW s, Good(s), NEW v \in Values, ~s.cache[v].in
  PROVE  LET t == CreateNewCacheEntry(s, v)
         IN  Good(t) /\ Apart(s, t, v) /\ t.cache[v].in /\ t.cache[v].waiting
<1> DEFINE r == [NoRecord EXCEPT !.in = TRUE, !.left = TTL, !.fresh = TRUE, !.waiting = TRUE]
           k == PutRecord(s, v, r)
           t == CreateNewCacheEntry(s, v)
<1>1. s \in States /\ s.cache[v] \in CacheRecord /\ s.cache[v].in = FALSE
  BY DEF Good, States, CacheRecord
<1>2. t = CountAnswers(k, 1)
  BY Zenon DEF CreateNewCacheEntry, PutRecord
<1>3. r \in CacheRecord /\ r.in = TRUE /\ r.waiting = TRUE /\ r.tagged = FALSE
  <2>1. PICK n \in CacheRecord : n = NoRecord /\ n.tagged = FALSE
    BY NoneTyped DEF NoRecord
  <2>2. TTL \in 0..TTL
    BY CacheAssumption
  <2>3. r = [n EXCEPT !.in = TRUE, !.left = TTL, !.fresh = TRUE, !.waiting = TRUE]
    BY <2>1
  <2> HIDE DEF r
  <2> QED BY <2>1, <2>2, <2>3 DEF CacheRecord
<1> HIDE DEF r
<1>4. /\ k \in States /\ k.cache[v] = r /\ k.qs = s.qs /\ k.told = s.told
      /\ \A u \in Values \ {v} : k.cache[u] = s.cache[u]
  BY <1>1, <1>3, PutRecordIs
<1> HIDE DEF k, t
<1>5. Recounted(k, t, 1)
  BY <1>2, <1>4, CountIs
<1>6. t \in States /\ Apart(s, t, v) /\ t.cache[v] = r
  BY <1>4, <1>5 DEF Recounted, Apart, SameList
<1>7. Counted(t)
  <2>1. Cardinality(Known(t)) = Cardinality(Known(s)) + 1
    <3>1. Cardinality(Known(t)) = Cardinality(Known(s)) + 1 - 0
      BY <1>1, <1>3, <1>6, KnownApart DEF Apart
    <3> QED BY <3>1, KnownFinite
  <2>2. ASSUME NEW i \in DOMAIN s.qs, ~s.qs[i].new
        PROVE  t.qs[i].answers >= Cardinality(Known(t))
    <3>1. s.qs[i].answers >= Cardinality(Known(s))
      BY <2>2 DEF Good, Counted
    <3>2. t.qs[i].answers >= s.qs[i].answers + 1
      BY <1>4, <1>5, <2>2 DEF Recounted
    <3>3. s.qs[i].answers \in Nat /\ t.qs[i].answers \in Nat
      BY <1>1, <1>6, <2>2, AnswersTyped DEF Apart, SameList
    <3> QED BY <2>1, <3>1, <3>2, <3>3, KnownFinite
  <2> QED BY <1>6, <2>2 DEF Counted, Apart, SameList
<1>8. RecordGood(t.cache[v], SomeAnswered(s))
  BY <1>3, <1>6 DEF RecordGood
<1>9. \A c \in Clients : t.told[c][v] = Hears(c \in AnsweredClients(s), t.cache[v])
  BY <1>1, <1>3, <1>4, <1>5, <1>6 DEF Recounted, Good, Hears
<1>10. Good(t)
  BY <1>6, <1>7, <1>8, <1>9, OneRecord
<1> QED BY <1>3, <1>6, <1>10 DEF t

\* A record on its way out stays a record, and is on its way out.
LEMMA ExpiringIs ==
  ASSUME NEW r \in CacheRecord, NEW b \in BOOLEAN
  PROVE  LET w == [Expiring(r) EXCEPT !.fresh = b]
         IN  /\ w \in CacheRecord /\ w.in = r.in /\ w.waiting = r.waiting /\ w.active = r.active
             /\ w.left = OneSecond
<1>1. OneSecond \in 0..TTL /\ MaxUnansweredQueries \in 0..MaxUnansweredQueries
  BY CacheAssumption DEF OneSecond, MaxUnansweredQueries
<1> QED BY <1>1 DEF Expiring, CacheRecord

\* A goodbye shortens a life and nothing else.
LEMMA GoodbyeGood ==
  ASSUME NEW s, Good(s), NEW v \in Values
  PROVE  LET t == ReceiveGoodbye(s, v)
         IN  /\ Good(t) /\ Apart(s, t, v)
             /\ t.cache[v].in = s.cache[v].in /\ t.cache[v].waiting = s.cache[v].waiting
<1>1. s \in States /\ s.cache[v] \in CacheRecord
  BY DEF Good, States
<1>2. CASE s.cache[v].in /\ s.cache[v].left > OneSecond
  <2> DEFINE r == [Expiring(s.cache[v]) EXCEPT !.fresh = TRUE]
  <2>1. ReceiveGoodbye(s, v) = PutRecord(s, v, r)
    BY <1>2, Zenon DEF ReceiveGoodbye, PutRecord
  <2>2. /\ r \in CacheRecord /\ r.in = s.cache[v].in /\ r.waiting = s.cache[v].waiting
        /\ r.active = s.cache[v].active /\ r.left = OneSecond
    BY <1>1, ExpiringIs
  <2> HIDE DEF r
  <2>3. RecordGood(r, SomeAnswered(s))
    BY <1>2, <2>2 DEF Good, RecordGood, OneSecond
  <2>4. Good(PutRecord(s, v, r)) /\ Apart(s, PutRecord(s, v, r), v) /\ PutRecord(s, v, r).cache[v] = r
    BY <1>1, <2>2, <2>3, AgeGood, PutRecordIs
  <2> QED BY <2>1, <2>2, <2>4
<1>3. CASE ~(s.cache[v].in /\ s.cache[v].left > OneSecond)
  BY <1>3 DEF ReceiveGoodbye, Apart, SameList
<1> QED BY <1>2, <1>3

\* Another time to live changes nothing else.
LEMMA LeftTyped ==
  ASSUME NEW r \in CacheRecord, NEW n \in 0..TTL
  PROVE  LET w == [r EXCEPT !.left = n]
         IN  /\ w \in CacheRecord /\ w.in = r.in /\ w.waiting = r.waiting /\ w.active = r.active
             /\ w.left = n /\ w.tagged = r.tagged
  BY DEF CacheRecord

\* The cache flush bit: what is flushed goes, what is refreshed was not going, and a
\* record keeps its place with the clients.
LEMMA FlushRecordIs ==
  ASSUME NEW r \in CacheRecord, NEW bye, NEW asked, RecordGood(r, asked)
  PROVE  LET w == FlushRecord(r, bye)
         IN  w \in CacheRecord /\ w.in = r.in /\ w.waiting = r.waiting /\ RecordGood(w, asked)
<1>1. TTL \in 0..TTL /\ 0 \in 0..TTL
  BY CacheAssumption
<1>2. CASE ~r.in
  BY <1>2 DEF FlushRecord
<1>3. CASE r.in /\ r.fresh /\ r.left > OneSecond
  <2>1. FlushRecord(r, bye) = [r EXCEPT !.left = TTL] /\ ~r.tagged
    BY <1>3 DEF FlushRecord, RecordGood, CacheRecord, OneSecond
  <2> DEFINE w == [r EXCEPT !.left = TTL]
  <2>2. /\ w \in CacheRecord /\ w.in = r.in /\ w.waiting = r.waiting /\ w.active = r.active
        /\ w.left = TTL /\ w.tagged = r.tagged
    BY <1>1, LeftTyped
  <2> HIDE DEF w
  <2>3. RecordGood(w, asked)
    BY <1>3, <2>1, <2>2 DEF RecordGood
  <2> QED BY <2>1, <2>2, <2>3 DEF w
<1>4. CASE r.in /\ ~(r.fresh /\ r.left > OneSecond) /\ bye
  <2>1. FlushRecord(r, bye) = [r EXCEPT !.left = 0]
    BY <1>4 DEF FlushRecord
  <2> DEFINE w == [r EXCEPT !.left = 0]
  <2>2. /\ w \in CacheRecord /\ w.in = r.in /\ w.waiting = r.waiting /\ w.active = r.active
        /\ w.left = 0 /\ w.tagged = r.tagged
    BY <1>1, LeftTyped
  <2> HIDE DEF w
  <2>3. RecordGood(w, asked)
    BY <1>4, <2>1, <2>2 DEF RecordGood, OneSecond
  <2> QED BY <2>1, <2>2, <2>3 DEF w
<1>5. CASE r.in /\ ~r.fresh /\ ~bye /\ r.left > OneSecond
  <2>1. FlushRecord(r, bye) = [Expiring(r) EXCEPT !.fresh = FALSE]
    BY <1>5 DEF FlushRecord
  <2> DEFINE w == [Expiring(r) EXCEPT !.fresh = FALSE]
  <2>2. /\ w \in CacheRecord /\ w.in = r.in /\ w.waiting = r.waiting /\ w.active = r.active
        /\ w.left = OneSecond
    BY ExpiringIs
  <2> HIDE DEF w
  <2>3. RecordGood(w, asked)
    BY <1>5, <2>2 DEF RecordGood, OneSecond
  <2> QED BY <2>1, <2>2, <2>3 DEF w
<1>6. CASE r.in /\ ~bye /\ ~(r.left > OneSecond)
  BY <1>6 DEF FlushRecord
<1> QED BY <1>2, <1>3, <1>4, <1>5, <1>6

\* Flushing keeps the invariant, and every record in its place.
LEMMA FlushGood ==
  ASSUME NEW s, Good(s), NEW m, NEW said
  PROVE  LET t == Flush(s, m, said)
         IN  /\ Good(t) /\ SameList(s, t)
             /\ \A v \in Values : t.cache[v].in = s.cache[v].in /\ t.cache[v].waiting = s.cache[v].waiting
<1> DEFINE f == [v \in Values |-> FlushRecord(s.cache[v], v \in said)]
           t == [s EXCEPT !.cache = f]
<1>1. s \in States /\ s.cache \in [Values -> CacheRecord]
  BY DEF Good, States
<1>2. ASSUME NEW v \in Values
      PROVE  /\ f[v] \in CacheRecord /\ f[v].in = s.cache[v].in /\ f[v].waiting = s.cache[v].waiting
             /\ RecordGood(f[v], SomeAnswered(s))
  <2>1. f[v] = FlushRecord(s.cache[v], v \in said)
    OBVIOUS
  <2>2. RecordGood(s.cache[v], SomeAnswered(s))
    BY DEF Good
  <2> HIDE DEF f
  <2> QED BY <1>1, <2>1, <2>2, FlushRecordIs
<1>3. f \in [Values -> CacheRecord]
  BY <1>2
<1> HIDE DEF f
<1>4. t \in States /\ t.cache = f /\ t.qs = s.qs /\ t.told = s.told
  BY <1>1, <1>3 DEF States
<1> HIDE DEF t
<1>5. /\ AnsweredClients(t) = AnsweredClients(s) /\ SomeAnswered(t) = SomeAnswered(s)
      /\ Known(t) = Known(s) /\ SameList(s, t)
  BY <1>2, <1>4 DEF AnsweredClients, SomeAnswered, Known, SameList
<1>6. \A c \in Clients, v \in Values : t.told[c][v] = Hears(c \in AnsweredClients(t), t.cache[v])
  BY <1>2, <1>4, <1>5 DEF Good, Hears
<1>7. Good(t)
  BY <1>2, <1>4, <1>5, <1>6 DEF Good, Counted
<1>8. Flush(s, m, said) = t \/ Flush(s, m, said) = s
  BY Zenon DEF Flush, t, f
<1> QED BY <1>2, <1>4, <1>5, <1>7, <1>8 DEF SameList

\* A record expires: those who heard of it hear that it is gone.
LEMMA ExpireGood ==
  ASSUME NEW s, Good(s), NEW v \in Values, s.cache[v].in
  PROVE  Good(ExpireRecord(s, v)) /\ Apart(s, ExpireRecord(s, v), v) /\ ~ExpireRecord(s, v).cache[v].in
<1> DEFINE asked == IF unique THEN [s EXCEPT !.poll = Restarted] ELSE s
           gone == IF s.cache[v].active THEN CacheRecordRmv(asked, v) ELSE s
           t == ExpireRecord(s, v)
           C == AnsweredClients(s)
<1>1. s \in States /\ s.cache[v] \in CacheRecord /\ C \in SUBSET Clients
  BY AnsweredTyped DEF Good, States
<1>2. asked \in States /\ asked.cache = s.cache /\ asked.qs = s.qs /\ asked.told = s.told
  BY <1>1, NoneTyped DEF States
<1>3. t = PutRecord(gone, v, NoRecord)
  BY Zenon DEF ExpireRecord, PutRecord
<1>4. NoRecord \in CacheRecord /\ NoRecord.in = FALSE /\ NoRecord.tagged = FALSE
  BY NoneTyped DEF NoRecord
<1> HIDE DEF asked
<1>5. /\ gone \in States /\ SameList(s, gone) /\ gone.cache = s.cache
      /\ \A i \in DOMAIN s.qs : ~s.qs[i].new => gone.qs[i].answers >= s.qs[i].answers - 1
      /\ \A c \in Clients, u \in Values : gone.told[c][u] = IF u = v THEN 0 ELSE s.told[c][u]
  <2>1. CASE ~s.cache[v].active
    <3>1. \A c \in Clients : s.told[c][v] = 0
      <4>1. \A c \in Clients : c \in C => SomeAnswered(s)
        BY DEF AnsweredClients, SomeAnswered
      <4>2. ~(SomeAnswered(s) /\ ~s.cache[v].waiting)
        BY <2>1 DEF Good, RecordGood
      <4> QED BY <4>1, <4>2 DEF Good, Hears
    <3>2. \A i \in DOMAIN s.qs : s.qs[i].answers >= s.qs[i].answers - 1
      BY <1>1, AnswersTyped
    <3> QED BY <1>1, <2>1, <3>1, <3>2 DEF SameList
  <2>2. CASE s.cache[v].active
    <3> DEFINE k == CountAnswers(asked, -1)
    <3>1. Recounted(asked, k, -1)
      BY <1>2, CountIs
    <3>2. gone = IF s.cache[v].waiting THEN k ELSE Tell(k, C, v, -1)
      BY <1>2, <2>2 DEF CacheRecordRmv, AnsweredClients
    <3> HIDE DEF k, gone
    <3>3. /\ k \in States /\ SameList(s, k) /\ k.cache = s.cache /\ k.told = s.told
          /\ \A i \in DOMAIN s.qs : ~s.qs[i].new => k.qs[i].answers >= s.qs[i].answers - 1
      <4>1. \A i \in DOMAIN s.qs : ~s.qs[i].new => k.qs[i].answers >= s.qs[i].answers + (-1)
        BY <1>2, <3>1 DEF Recounted
      <4>2. \A i \in DOMAIN s.qs : s.qs[i].answers \in Nat
        BY <1>1, AnswersTyped
      <4> QED BY <1>2, <3>1, <4>1, <4>2 DEF Recounted, SameList
    <3>4. CASE s.cache[v].waiting
      <4>1. \A c \in Clients : s.told[c][v] = 0
        BY <3>4 DEF Good, Hears
      <4> QED BY <3>2, <3>3, <3>4, <4>1
    <3>5. CASE ~s.cache[v].waiting
      <4>1. \A c \in Clients : s.told[c][v] = IF c \in C THEN 1 ELSE 0
        BY <3>5 DEF Good, Hears
      <4>2. \A c \in C : k.told[c][v] + (-1) \in 0..1
        BY <1>1, <3>3, <4>1
      <4>3. gone = Tell(k, C, v, -1)
        BY <3>2, <3>5
      <4>4. Notified(k, gone, C, v, -1)
        BY <1>1, <3>3, <4>2, <4>3, TellIs
      <4> QED BY <3>3, <4>1, <4>4 DEF Notified, SameList
    <3> QED BY <3>4, <3>5
  <2> QED BY <2>1, <2>2
<1> HIDE DEF gone, t, C
<1>6. t \in States /\ Apart(s, t, v) /\ t.cache[v] = NoRecord /\ t.qs = gone.qs /\ t.told = gone.told
  <2>1. /\ t \in States /\ t.cache[v] = NoRecord /\ t.qs = gone.qs /\ t.told = gone.told
        /\ \A u \in Values \ {v} : t.cache[u] = gone.cache[u]
    BY <1>3, <1>4, <1>5, PutRecordIs
  <2> QED BY <1>5, <2>1 DEF Apart, SameList
<1>7. Counted(t)
  <2>1. Cardinality(Known(t)) = Cardinality(Known(s)) - 1
    <3>1. Cardinality(Known(t)) = Cardinality(Known(s)) + 0 - 1
      BY <1>1, <1>4, <1>6, KnownApart DEF Apart
    <3> QED BY <3>1, KnownFinite
  <2>2. ASSUME NEW i \in DOMAIN s.qs, ~s.qs[i].new
        PROVE  t.qs[i].answers >= Cardinality(Known(t))
    <3>1. s.qs[i].answers >= Cardinality(Known(s))
      BY <2>2 DEF Good, Counted
    <3>2. t.qs[i].answers >= s.qs[i].answers - 1
      BY <1>5, <1>6, <2>2
    <3>3. s.qs[i].answers \in Nat /\ t.qs[i].answers \in Nat
      BY <1>1, <1>6, <2>2, AnswersTyped DEF Apart, SameList
    <3> QED BY <2>1, <3>1, <3>2, <3>3, KnownFinite
  <2> QED BY <1>6, <2>2 DEF Counted, Apart, SameList
<1>8. RecordGood(t.cache[v], SomeAnswered(s))
  BY <1>4, <1>6 DEF RecordGood
<1>9. \A c \in Clients : t.told[c][v] = Hears(c \in AnsweredClients(s), t.cache[v])
  BY <1>4, <1>5, <1>6 DEF Hears
<1>10. Good(t)
  BY <1>6, <1>7, <1>8, <1>9, OneRecord
<1> QED BY <1>4, <1>6, <1>10 DEF t

\* CheckCacheExpiration for one record: if it is still there it has time left.
LEMMA CheckRecordGood ==
  ASSUME NEW s, Good(s), NEW v \in Values, s.cache[v].in
  PROVE  LET t == CheckRecord(s, v)
         IN  Good(t) /\ Apart(s, t, v) /\ (t.cache[v].in => t.cache[v].left # 0)
<1>1. CASE s.cache[v].left = 0
  BY <1>1, ExpireGood DEF CheckRecord
<1>2. CASE s.cache[v].left # 0 /\ s.cache[v].waiting /\ s.cache[v].delay = 0
  BY <1>2, DeferredAddGood DEF CheckRecord
<1>3. CASE s.cache[v].left # 0 /\ ~(s.cache[v].waiting /\ s.cache[v].delay = 0)
  BY <1>3 DEF CheckRecord, Apart, SameList
<1> QED BY <1>1, <1>2, <1>3

\* A record that is received, new or again.
LEMMA ReceiveLiveGood ==
  ASSUME NEW s, Good(s), NEW v \in Values
  PROVE  LET t == ReceiveLive(s, v)
         IN  /\ Good(t) /\ Apart(s, t, v)
             /\ ~s.cache[v].in => t.cache[v].in /\ t.cache[v].waiting
  BY RefreshGood, CreateGood DEF ReceiveLive

-----------------------------------------------------------------------------
(* The loops of a step, each with what holds after a part of it.           *)

ByeOp(v, R, p) == ReceiveGoodbye(R, v)
ByeInv(t, R, p) ==
  Good(R) /\ \A u \in Values : R.cache[u].in = p.cache[u].in /\ R.cache[u].waiting = p.cache[u].waiting
Byes == INSTANCE FoldInduction WITH Op <- ByeOp, P <- ByeInv

LiveOp(v, R, p) == ReceiveLive(R, v)
LiveInv(t, R, p) ==
  /\ Good(R) /\ \A u \in Values \ t : R.cache[u] = p.cache[u]
  /\ \A u \in t : ~p.cache[u].in => R.cache[u].in /\ R.cache[u].waiting
Lives == INSTANCE FoldInduction WITH Op <- LiveOp, P <- LiveInv

NewOp(v, R, p) == DeliverNew(R, v)
NewInv(t, R, p) == Good(R) /\ \A u \in Values \ t : R.cache[u] = p.cache[u]
News == INSTANCE FoldInduction WITH Op <- NewOp, P <- NewInv

CheckOp(v, R, p) == CheckRecord(R, v)
CheckInv(t, R, p) ==
  /\ Good(R) /\ SameList(p, R)
  /\ \A u \in Values \ t : R.cache[u] = p.cache[u]
  /\ \A u \in t : R.cache[u].in => R.cache[u].left # 0
Checks == INSTANCE FoldInduction WITH Op <- CheckOp, P <- CheckInv

\* A set of records is finite.
LEMMA RecordsFinite ==
  ASSUME NEW X \in SUBSET Values PROVE IsFiniteSet(X)
  BY CacheAssumption, FS_Subset

\* The goodbyes of a packet.
LEMMA AllGoodbyes ==
  ASSUME NEW s, Good(s), NEW X \in SUBSET Values
  PROVE  ByeInv(X, Over(ReceiveGoodbye, s, X), s)
<1>1. ByeInv({}, s, s)
  BY DEF ByeInv
<1>2. ASSUME NEW t \in SUBSET X, NEW R, NEW x \in t, ByeInv(t \ {x}, R, s)
      PROVE  ByeInv(t, ByeOp(x, R, s), s)
  <2> DEFINE T == ReceiveGoodbye(R, x)
  <2>1. /\ Good(T) /\ Apart(R, T, x)
        /\ T.cache[x].in = R.cache[x].in /\ T.cache[x].waiting = R.cache[x].waiting
    BY <1>2, GoodbyeGood DEF ByeInv
  <2> HIDE DEF T
  <2>2. ByeInv(t, T, s)
    BY <1>2, <2>1 DEF ByeInv, Apart
  <2> QED BY <2>2 DEF ByeOp, T
<1>3. Byes!IsFiniteSet(X)
  BY RecordsFinite DEF IsFiniteSet, Byes!IsFiniteSet
<1>4. ByeInv(X, Byes!Fold(X, s, s), s)
  <2>1. \A t \in SUBSET X : \A R : \A x \in t : ByeInv(t \ {x}, R, s) => ByeInv(t, ByeOp(x, R, s), s)
    BY <1>2
  <2> QED BY <1>1, <1>3, <2>1, Byes!FoldPreserves, Zenon
<1>5. Byes!Fold(X, s, s) = Over(ReceiveGoodbye, s, X)
  BY Zenon DEF Byes!Fold, Byes!FoldSet, Byes!MapThenFoldSet, Over, FoldSet, MapThenFoldSet, ByeOp
<1> QED BY <1>4, <1>5

\* The records of a packet.
LEMMA AllLive ==
  ASSUME NEW s, Good(s), NEW X \in SUBSET Values
  PROVE  LiveInv(X, Over(ReceiveLive, s, X), s)
<1>1. LiveInv({}, s, s)
  BY DEF LiveInv
<1>2. ASSUME NEW t \in SUBSET X, NEW R, NEW x \in t, LiveInv(t \ {x}, R, s)
      PROVE  LiveInv(t, LiveOp(x, R, s), s)
  BY <1>2, ReceiveLiveGood DEF LiveInv, LiveOp, Apart
<1>3. Lives!IsFiniteSet(X)
  BY RecordsFinite DEF IsFiniteSet, Lives!IsFiniteSet
<1>4. LiveInv(X, Lives!Fold(X, s, s), s)
  <2>1. \A t \in SUBSET X : \A R : \A x \in t : LiveInv(t \ {x}, R, s) => LiveInv(t, LiveOp(x, R, s), s)
    BY <1>2
  <2> QED BY <1>1, <1>3, <2>1, Lives!FoldPreserves, Zenon
<1>5. Lives!Fold(X, s, s) = Over(ReceiveLive, s, X)
  BY Zenon DEF Lives!Fold, Lives!FoldSet, Lives!MapThenFoldSet, Over, FoldSet, MapThenFoldSet, LiveOp
<1> QED BY <1>4, <1>5

\* The delivery of the new ones at the end of it.
LEMMA AllNew ==
  ASSUME NEW s, Good(s), NEW X \in SUBSET Values, \A v \in X : s.cache[v].in /\ s.cache[v].waiting
  PROVE  Good(Over(DeliverNew, s, X))
<1>1. NewInv({}, s, s)
  BY DEF NewInv
<1>2. ASSUME NEW t \in SUBSET X, NEW R, NEW x \in t, NewInv(t \ {x}, R, s)
      PROVE  NewInv(t, NewOp(x, R, s), s)
  BY <1>2, DeliverNewGood DEF NewInv, NewOp, Apart
<1>3. News!IsFiniteSet(X)
  BY RecordsFinite DEF IsFiniteSet, News!IsFiniteSet
<1>4. NewInv(X, News!Fold(X, s, s), s)
  <2>1. \A t \in SUBSET X : \A R : \A x \in t : NewInv(t \ {x}, R, s) => NewInv(t, NewOp(x, R, s), s)
    BY <1>2
  <2> QED BY <1>1, <1>3, <2>1, News!FoldPreserves, Zenon
<1>5. News!Fold(X, s, s) = Over(DeliverNew, s, X)
  BY Zenon DEF News!Fold, News!FoldSet, News!MapThenFoldSet, Over, FoldSet, MapThenFoldSet, NewOp
<1> QED BY <1>4, <1>5 DEF NewInv

\* CheckCacheExpiration: no record without time left remains.
LEMMA CheckGood ==
  ASSUME NEW s, Good(s)
  PROVE  LET t == CheckCacheExpiration(s)
         IN  Good(t) /\ SameList(s, t) /\ \A v \in Values : t.cache[v].in => t.cache[v].left # 0
<1> DEFINE X == Known(s)
<1>1. CheckInv({}, s, s) /\ X \in SUBSET Values
  BY DEF CheckInv, SameList, Known
<1>2. ASSUME NEW t \in SUBSET X, NEW R, NEW x \in t, CheckInv(t \ {x}, R, s)
      PROVE  CheckInv(t, CheckOp(x, R, s), s)
  <2>1. x \in Values /\ R.cache[x].in /\ Good(R)
    BY <1>2 DEF CheckInv, Known
  <2> DEFINE T == CheckRecord(R, x)
  <2>2. Good(T) /\ Apart(R, T, x) /\ (T.cache[x].in => T.cache[x].left # 0)
    BY <2>1, CheckRecordGood
  <2> HIDE DEF T
  <2>3. SameList(s, T)
    BY <1>2, <2>2 DEF CheckInv, Apart, SameList
  <2>4. \A u \in Values \ t : T.cache[u] = s.cache[u]
    BY <1>2, <2>2 DEF CheckInv, Apart
  <2>5. \A u \in t : T.cache[u].in => T.cache[u].left # 0
    <3> TAKE u \in t
    <3>1. u # x => u \in Values \ {x} /\ (R.cache[u].in => R.cache[u].left # 0)
      BY <1>1, <1>2 DEF CheckInv
    <3> QED BY <2>2, <3>1 DEF Apart
  <2>6. CheckInv(t, T, s)
    BY <2>2, <2>3, <2>4, <2>5 DEF CheckInv
  <2> QED BY <2>6 DEF CheckOp, T
<1>3. Checks!IsFiniteSet(X)
  BY <1>1, RecordsFinite DEF IsFiniteSet, Checks!IsFiniteSet
<1>4. CheckInv(X, Checks!Fold(X, s, s), s)
  <2>1. \A t \in SUBSET X : \A R : \A x \in t : CheckInv(t \ {x}, R, s) => CheckInv(t, CheckOp(x, R, s), s)
    BY <1>2
  <2> QED BY <1>1, <1>3, <2>1, Checks!FoldPreserves, Zenon
<1>5. Checks!Fold(X, s, s) = CheckCacheExpiration(s)
  BY Zenon DEF Checks!Fold, Checks!FoldSet, Checks!MapThenFoldSet, Over, FoldSet, MapThenFoldSet,
     CheckOp, CheckCacheExpiration, Known
<1> QED BY <1>4, <1>5 DEF CheckInv, Known

-----------------------------------------------------------------------------
(* A new question is answered.                                             *)

\* NewQuestions points at the first of the new questions.
LEMMA FirstNewIs ==
  ASSUME NEW s, Good(s), \E i \in DOMAIN s.qs : s.qs[i].new
  PROVE  /\ FirstNew(s) \in DOMAIN s.qs /\ s.qs[FirstNew(s)].new
         /\ \A j \in DOMAIN s.qs : j < FirstNew(s) => ~s.qs[j].new
<1> DEFINE N == {i \in DOMAIN s.qs : s.qs[i].new}
<1>1. DOMAIN s.qs = 1..Len(s.qs) /\ Len(s.qs) \in Nat
  BY DEF Good, States
<1>2. N \in SUBSET Nat /\ N # {}
  BY <1>1
<1>3. PICK k \in N : \A j \in N : k <= j
  BY <1>2, Checks!LeastNatural
<1>4. k \in DOMAIN s.qs /\ s.qs[k].new /\ \A j \in 1..(k - 1) : ~s.qs[j].new
  BY <1>1, <1>3
<1>5. /\ FirstNew(s) \in DOMAIN s.qs /\ s.qs[FirstNew(s)].new
      /\ \A j \in 1..(FirstNew(s) - 1) : ~s.qs[j].new
  BY <1>4, Zenon DEF FirstNew
<1> QED BY <1>1, <1>5

\* The answers to the question of client p.c, the records of p.s one by one.
AnswerOp(v, R, p) == AnswerQuestions(R, {p.c}, v)
AnswerInv(t, R, p) ==
  /\ R \in States /\ R.qs = p.s.qs
  /\ \A u \in Values \ t : R.cache[u] = p.s.cache[u]
  /\ \A u \in t : /\ R.cache[u].in = p.s.cache[u].in /\ R.cache[u].waiting = p.s.cache[u].waiting
                  /\ R.cache[u].left = p.s.cache[u].left /\ R.cache[u].tagged = p.s.cache[u].tagged
                  /\ (p.s.cache[u].active \/ p.s.qs[1].client = p.c) => R.cache[u].active
  /\ \A c \in Clients, u \in Values :
       R.told[c][u] = IF c = p.c /\ u \in t /\ ~p.s.cache[u].waiting THEN 1 ELSE p.s.told[c][u]
Answers == INSTANCE FoldInduction WITH Op <- AnswerOp, P <- AnswerInv

\* The client of a question hears of each of the records once.
LEMMA AllAnswers ==
  ASSUME NEW s \in States, s.qs # << >>, NEW c \in Clients, \A v \in Values : s.told[c][v] = 0,
         NEW X \in SUBSET Values
  PROVE  AnswerInv(X, Answers!Fold(X, s, [c |-> c, s |-> s]), [c |-> c, s |-> s])
<1> DEFINE p == [c |-> c, s |-> s]
<1>1. p.c = c /\ p.s = s
  OBVIOUS
<1> HIDE DEF p
<1>2. AnswerInv({}, s, p)
  BY <1>1 DEF AnswerInv
<1>3. ASSUME NEW t \in SUBSET X, NEW R, NEW x \in t, AnswerInv(t \ {x}, R, p)
      PROVE  AnswerInv(t, AnswerOp(x, R, p), p)
  <2> DEFINE T == AnswerQuestions(R, {c}, x)
  <2>1. R \in States /\ R.qs = s.qs /\ x \in Values /\ R.cache[x] = s.cache[x]
    BY <1>1, <1>3 DEF AnswerInv
  <2>2. R.told[c][x] = 0
    BY <1>1, <1>3 DEF AnswerInv
  <2>3. Told(R, T, {c}, x)
    BY <2>1, <2>2, AnswerIs
  <2> HIDE DEF T
  <2>4. T \in States /\ T.qs = s.qs /\ \A u \in Values \ t : T.cache[u] = s.cache[u]
    BY <1>1, <1>3, <2>1, <2>3 DEF AnswerInv, Told
  <2>5. ASSUME NEW u \in t
        PROVE  /\ T.cache[u].in = s.cache[u].in /\ T.cache[u].waiting = s.cache[u].waiting
               /\ T.cache[u].left = s.cache[u].left /\ T.cache[u].tagged = s.cache[u].tagged
               /\ (s.cache[u].active \/ s.qs[1].client = c) => T.cache[u].active
    <3>1. CASE u = x
      BY <2>1, <2>3, <3>1 DEF Told
    <3>2. CASE u # x
      BY <1>1, <1>3, <2>3, <3>2 DEF AnswerInv, Told
    <3> QED BY <3>1, <3>2
  <2>6. ASSUME NEW b \in Clients, NEW u \in Values
        PROVE  T.told[b][u] = IF b = c /\ u \in t /\ ~s.cache[u].waiting THEN 1 ELSE s.told[b][u]
    <3>1. CASE u = x
      BY <1>1, <1>3, <2>1, <2>2, <2>3, <3>1 DEF AnswerInv, Told
    <3>2. CASE u # x
      BY <1>1, <1>3, <2>3, <3>2 DEF AnswerInv, Told
    <3> QED BY <3>1, <3>2
  <2>7. AnswerInv(t, T, p)
    BY <1>1, <2>4, <2>5, <2>6 DEF AnswerInv
  <2> QED BY <1>1, <2>7 DEF AnswerOp, T
<1>4. Answers!IsFiniteSet(X)
  BY RecordsFinite DEF IsFiniteSet, Answers!IsFiniteSet
<1>5. AnswerInv(X, Answers!Fold(X, s, p), p)
  <2>1. \A t \in SUBSET X : \A R : \A x \in t : AnswerInv(t \ {x}, R, p) => AnswerInv(t, AnswerOp(x, R, p), p)
    BY <1>3
  <2> QED BY <1>2, <1>4, <2>1, Answers!FoldPreserves, Zenon
<1> QED BY <1>5 DEF p

\* AnswerNewQuestion keeps the invariant: the count it starts from is the number of
\* records it delivers or that wait to be delivered.
LEMMA AnswerNewGood ==
  ASSUME Good(Querier), AnswerNewQuestion
  PROVE  Good(Querier)'
<1> DEFINE s == CheckCacheExpiration(Querier)
           i == FirstNew(s)
           known == {v \in Values : s.cache[v].in /\ s.cache[v].left > 0}
           asked == [client |-> s.qs[i].client, new |-> FALSE, answers |-> Cardinality(known)]
           l == [j \in DOMAIN s.qs |-> IF j = i THEN asked ELSE s.qs[j]]
           old == [s EXCEPT !.qs = l]
           Answer(t, v) == AnswerQuestions(t, {asked.client}, v)
           R == Over(Answer, old, known)
           T == [R EXCEPT !.poll = IF i = 1 /\ ~(unique /\ known # {}) THEN Restarted ELSE R.poll]
<1>1. Becomes(T) /\ \E j \in DOMAIN qs : qs[j].new
  BY Zenon DEF AnswerNewQuestion
<1>2. Good(s) /\ SameList(Querier, s) /\ \A v \in Values : s.cache[v].in => s.cache[v].left # 0
  BY CheckGood
<1> HIDE DEF s
<1>3. /\ s \in States /\ s.qs \in Seq(QuestionRecord) /\ DOMAIN s.qs = 1..Len(s.qs) /\ Len(s.qs) \in Nat
      /\ \A v \in Values : s.cache[v] \in CacheRecord
  BY <1>2 DEF Good, States
<1>4. i \in DOMAIN s.qs /\ s.qs[i].new /\ \A j \in DOMAIN s.qs : j < i => ~s.qs[j].new
  <2>1. \E j \in DOMAIN s.qs : s.qs[j].new
    BY <1>1, <1>2, QuerierIs DEF SameList
  <2> QED BY <1>2, <2>1, FirstNewIs
<1> HIDE DEF i
<1>5. known = Known(s)
  <2>1. ASSUME NEW v \in Values, s.cache[v].in PROVE s.cache[v].left > 0
    BY <1>2, <1>3, <2>1 DEF CacheRecord
  <2> QED BY <2>1 DEF Known
<1>6. known \in SUBSET Values
  OBVIOUS
<1> HIDE DEF known
<1> DEFINE c == s.qs[i].client
<1>7. s.qs[i] \in QuestionRecord /\ c \in Clients
  <2>1. s.qs[i] \in QuestionRecord
    BY <1>3, <1>4, AnswersTyped
  <2> QED BY <2>1 DEF QuestionRecord
<1>8. /\ asked \in QuestionRecord /\ asked.client = c /\ asked.new = FALSE
      /\ asked.answers = Cardinality(Known(s))
  BY <1>5, <1>7, KnownFinite DEF QuestionRecord
<1> HIDE DEF asked
<1>9. /\ l \in Seq(QuestionRecord) /\ DOMAIN l = DOMAIN s.qs /\ l[i] = asked /\ l # << >>
      /\ \A j \in DOMAIN s.qs : j # i => l[j] = s.qs[j]
  <2>1. \A j \in DOMAIN s.qs : l[j] \in QuestionRecord
    BY <1>3, <1>8
  <2>2. l \in [1..Len(s.qs) -> QuestionRecord]
    BY <1>3, <2>1
  <2>3. l \in Seq(QuestionRecord)
    BY <1>3, <2>2
  <2> QED BY <1>4, <2>3
<1> HIDE DEF l
<1>10. old \in States /\ old.qs = l /\ old.cache = s.cache /\ old.told = s.told /\ old.poll = s.poll
  BY <1>3, <1>9 DEF States
<1> HIDE DEF old
<1>11. c \notin AnsweredClients(s) /\ \A v \in Values : s.told[c][v] = 0
  <2>1. c \notin AnsweredClients(s)
    BY <1>2, <1>4 DEF Good, Ordered, AnsweredClients, IsAnswered
  <2> QED BY <1>2, <1>7, <2>1 DEF Good, Hears
<1> DEFINE p == [c |-> c, s |-> old]
<1>12. AnswerInv(known, Answers!Fold(known, old, p), p) /\ p.c = c /\ p.s = old
  BY <1>6, <1>7, <1>9, <1>10, <1>11, AllAnswers
<1>13. Answers!Fold(known, old, p) = R
  <2>1. Answers!Fold(known, old, p) = FoldSet(LAMBDA v, t : AnswerQuestions(t, {p.c}, v), old, known)
    BY Zenon DEF Answers!Fold, Answers!FoldSet, Answers!MapThenFoldSet, FoldSet, MapThenFoldSet, AnswerOp
  <2>2. p.c = asked.client
    BY <1>8
  <2> DEFINE F(k) == FoldSet(LAMBDA v, t : AnswerQuestions(t, {k}, v), old, known)
  <2>3. R = F(asked.client)
    BY Zenon DEF Over
  <2>4. Answers!Fold(known, old, p) = F(p.c)
    BY <2>1
  <2> HIDE DEF F, R, p
  <2> QED BY <2>2, <2>3, <2>4
<1>14. AnswerInv(known, R, p) /\ p.c = c /\ p.s = old
  BY <1>12, <1>13
<1> HIDE DEF R, p, c
<1>15. /\ T \in States /\ T.qs = l /\ T.cache = R.cache /\ T.told = R.told
  <2>1. R \in States /\ R.qs = l
    BY <1>10, <1>14 DEF AnswerInv
  <2>2. (IF i = 1 /\ ~(unique /\ known # {}) THEN Restarted ELSE R.poll) \in Polls
    BY <2>1, NoneTyped DEF States
  <2> QED BY <2>1, <2>2 DEF States
<1> HIDE DEF T
<1>16. /\ AnsweredClients(T) = AnsweredClients(s) \cup {c}
       /\ SomeAnswered(s) => SomeAnswered(T)
  BY <1>4, <1>8, <1>9, <1>15 DEF AnsweredClients, SomeAnswered, IsAnswered
<1>17. Ordered(T.qs)
  <2>1. \A a, b \in DOMAIN l : l[a].client = l[b].client => a = b
    BY <1>2, <1>8, <1>9 DEF Good, Ordered, c
  <2>2. ASSUME NEW a \in DOMAIN l, NEW b \in DOMAIN l, a < b, l[a].new PROVE l[b].new
    <3>1. a # i /\ s.qs[a].new
      BY <1>8, <1>9, <2>2
    <3>2. a > i /\ b # i
      BY <1>3, <1>4, <1>9, <2>2, <3>1
    <3> QED BY <1>2, <1>9, <2>2, <3>1, <3>2 DEF Good, Ordered
  <2> QED BY <1>15, <2>1, <2>2 DEF Ordered
<1>18. \A u \in Values : /\ T.cache[u].in = s.cache[u].in /\ T.cache[u].waiting = s.cache[u].waiting
                         /\ T.cache[u].tagged = s.cache[u].tagged /\ T.cache[u].left = s.cache[u].left
                         /\ u \notin known => T.cache[u] = s.cache[u]
                         /\ u \in known /\ (s.cache[u].active \/ i = 1) => T.cache[u].active
  BY <1>8, <1>9, <1>10, <1>14, <1>15 DEF AnswerInv
<1>19. Known(T) = Known(s)
  BY <1>18 DEF Known
<1>20. Counted(T)
  <2>1. ASSUME NEW j \in DOMAIN l, ~l[j].new PROVE l[j].answers >= Cardinality(Known(s))
    <3>1. CASE j = i
      BY <1>8, <1>9, <3>1, KnownFinite
    <3>2. CASE j # i
      BY <1>2, <1>9, <2>1, <3>2 DEF Good, Counted
    <3> QED BY <3>1, <3>2
  <2> QED BY <1>15, <1>19, <2>1 DEF Counted
<1>21. ASSUME NEW u \in Values PROVE RecordGood(T.cache[u], SomeAnswered(T))
  <2>1. RecordGood(s.cache[u], SomeAnswered(s))
    BY <1>2 DEF Good
  <2>2. CASE u \notin known
    BY <1>5, <1>18, <2>1, <2>2 DEF RecordGood, Known
  <2>3. CASE u \in known
    <3>1. s.cache[u].in
      BY <1>5, <2>3 DEF Known
    <3>2. ASSUME ~s.cache[u].waiting PROVE T.cache[u].active
      <4>1. CASE i = 1
        BY <1>18, <2>3, <4>1
      <4>2. CASE i # 1
        <5>1. 1 \in DOMAIN s.qs /\ ~s.qs[1].new
          BY <1>3, <1>4, <4>2
        <5>2. SomeAnswered(s)
          BY <5>1 DEF SomeAnswered, IsAnswered
        <5> QED BY <1>18, <2>1, <2>3, <3>1, <3>2, <5>2 DEF RecordGood
      <4> QED BY <4>1, <4>2
    <3> QED BY <1>18, <2>1, <3>1, <3>2 DEF RecordGood
  <2> QED BY <2>2, <2>3
<1>22. ASSUME NEW b \in Clients, NEW u \in Values
       PROVE  T.told[b][u] = Hears(b \in AnsweredClients(T), T.cache[u])
  <2>1. T.told[b][u] = IF b = c /\ u \in known /\ ~s.cache[u].waiting THEN 1 ELSE s.told[b][u]
    BY <1>10, <1>14, <1>15 DEF AnswerInv
  <2>2. s.told[b][u] = Hears(b \in AnsweredClients(s), s.cache[u])
    BY <1>2 DEF Good
  <2>3. u \in known <=> s.cache[u].in
    BY <1>5 DEF Known
  <2> QED BY <1>11, <1>16, <1>18, <2>1, <2>2, <2>3 DEF Hears
<1>23. Good(T)
  BY <1>15, <1>17, <1>20, <1>21, <1>22 DEF Good
<1> QED BY <1>1, <1>15, <1>23, BecomesIs

-----------------------------------------------------------------------------
(* The steps of the querier.                                               *)

\* A packet is received: goodbyes first, then the records, then the cache flush
\* bit, and the new records are delivered last.
LEMMA ReceiveGood ==
  ASSUME Good(Querier), Published, NEW m \in net, mDNSCoreReceiveResponse(m)
  PROVE  Good(Querier)'
<1> DEFINE new == m.live \ Cached
           said == {v \in m.bye : cache[v].in /\ cache[v].left > OneSecond}
           parted == Over(ReceiveGoodbye, Querier, m.bye)
           received == Over(ReceiveLive, parted, m.live)
           flushed == Flush(received, m, said)
           t == Over(DeliverNew, flushed, new)
<1>1. Becomes(t) /\ m.kind = "response"
  BY Zenon DEF mDNSCoreReceiveResponse
<1>2. m.live \in SUBSET Values /\ m.bye \in SUBSET Values
  BY <1>1 DEF Published, Packets
<1>3. ByeInv(m.bye, parted, Querier)
  BY <1>2, AllGoodbyes
<1> HIDE DEF parted, said
<1>4. LiveInv(m.live, received, parted)
  BY <1>2, <1>3, AllLive DEF ByeInv
<1> HIDE DEF received
<1>5. /\ Good(flushed) /\ \A v \in Values : /\ flushed.cache[v].in = received.cache[v].in
                                            /\ flushed.cache[v].waiting = received.cache[v].waiting
  BY <1>4, FlushGood DEF LiveInv
<1> HIDE DEF flushed
<1>6. new \in SUBSET Values /\ \A v \in new : flushed.cache[v].in /\ flushed.cache[v].waiting
  <2> SUFFICES ASSUME NEW v \in new PROVE v \in Values /\ flushed.cache[v].in /\ flushed.cache[v].waiting
    OBVIOUS
  <2>1. v \in Values /\ v \in m.live /\ ~cache[v].in
    BY <1>2 DEF Cached
  <2>2. ~parted.cache[v].in
    BY <1>3, <2>1, QuerierIs DEF ByeInv
  <2>3. received.cache[v].in /\ received.cache[v].waiting
    BY <1>4, <2>1, <2>2 DEF LiveInv
  <2> QED BY <1>5, <2>1, <2>3
<1>7. Good(t)
  BY <1>5, <1>6, AllNew
<1> HIDE DEF t
<1>8. t \in States
  BY <1>7 DEF Good
<1> QED BY <1>1, <1>7, <1>8, BecomesIs

\* The cache is checked.
LEMMA CheckCacheGood ==
  ASSUME Good(Querier), CheckCache PROVE Good(Querier)'
<1> DEFINE t == CheckCacheExpiration(Querier)
<1>1. Becomes(t)
  BY DEF CheckCache
<1>2. Good(t)
  BY CheckGood
<1> HIDE DEF t
<1>3. t \in States
  BY <1>2 DEF Good
<1> QED BY <1>1, <1>2, <1>3, BecomesIs

\* Records age, or are asked for, all at once.
LEMMA AgedGood ==
  ASSUME NEW s, Good(s), NEW t \in States, t.qs = s.qs, t.told = s.told,
         \A v \in Values : /\ t.cache[v].in = s.cache[v].in /\ t.cache[v].waiting = s.cache[v].waiting
                           /\ RecordGood(t.cache[v], SomeAnswered(s))
  PROVE  Good(t)
<1>1. /\ AnsweredClients(t) = AnsweredClients(s) /\ SomeAnswered(t) = SomeAnswered(s)
      /\ Known(t) = Known(s)
  BY DEF AnsweredClients, SomeAnswered, Known
<1>2. \A c \in Clients, v \in Values : t.told[c][v] = Hears(c \in AnsweredClients(t), t.cache[v])
  BY <1>1 DEF Good, Hears
<1> QED BY <1>1, <1>2 DEF Good, Counted

\* The querier in the next state, when its variables have their types.
LEMMA QuerierNext ==
  /\ Querier'.cache = cache' /\ Querier'.qs = qs' /\ Querier'.poll = poll' /\ Querier'.told = told'
  /\ (/\ cache' \in [Values -> CacheRecord] /\ qs' \in Seq(QuestionRecord) /\ poll' \in Polls
      /\ told' \in [Clients -> [Values -> 0..1]]) => Querier' \in States
  BY DEF Querier, States

\* A query was sent and no answer has come.
LEMMA UnansweredTyped ==
  ASSUME NEW r \in CacheRecord
  PROVE  LET w == [r EXCEPT !.unanswered = AtMost(r.unanswered + 1, MaxUnansweredQueries)]
         IN  /\ w \in CacheRecord /\ w.in = r.in /\ w.waiting = r.waiting /\ w.active = r.active
             /\ w.left = r.left /\ w.tagged = r.tagged
<1>1. AtMost(r.unanswered + 1, MaxUnansweredQueries) \in 0..MaxUnansweredQueries
  BY DEF CacheRecord, AtMost, MaxUnansweredQueries
<1> QED BY <1>1 DEF CacheRecord

\* The next query is within the longest interval.
LEMMA NextPollTyped == ASSUME poll \in Polls PROVE NextPoll \in Polls
<1> DEFINE i == AtMost(IF poll.interval = 0 THEN 1 ELSE 3 * poll.interval, MaxQuestionInterval)
<1>1. poll.interval \in Nat /\ MaxQuestionInterval \in Nat
  BY CacheAssumption DEF Polls
<1>2. i \in 0..MaxQuestionInterval
  BY <1>1 DEF AtMost
<1>3. NextPoll = [interval |-> i, wait |-> i]
  BY DEF NextPoll
<1> HIDE DEF i
<1> QED BY <1>2, <1>3 DEF Polls

\* Queries are sent.
LEMMA SendQueriesGood ==
  ASSUME Good(Querier), SendQueries PROVE Good(Querier)'
<1>1. /\ cache \in [Values -> CacheRecord] /\ qs \in Seq(QuestionRecord) /\ poll \in Polls
      /\ told \in [Clients -> [Values -> 0..1]]
  BY QuerierIs DEF Good, States
<1>2. qs' = qs /\ told' = told /\ poll' \in Polls
  BY <1>1, NextPollTyped DEF SendQueries
<1>3. ASSUME NEW v \in Values
      PROVE  /\ cache'[v] \in CacheRecord /\ cache'[v].in = cache[v].in
             /\ cache'[v].waiting = cache[v].waiting /\ RecordGood(cache'[v], SomeAnswered(Querier))
  <2>1. PICK r \in CacheRecord : r = cache[v]
    BY <1>1
  <2>2. RecordGood(r, SomeAnswered(Querier))
    BY <2>1, QuerierIs DEF Good
  <2> DEFINE w == [r EXCEPT !.unanswered = AtMost(r.unanswered + 1, MaxUnansweredQueries)]
  <2>3. (cache'[v] = w /\ cache[v].in) \/ cache'[v] = r
    BY <2>1 DEF SendQueries, Cached
  <2>4. /\ w \in CacheRecord /\ w.in = r.in /\ w.waiting = r.waiting /\ w.active = r.active
        /\ w.left = r.left /\ w.tagged = r.tagged
    BY UnansweredTyped
  <2> HIDE DEF w
  <2> QED BY <2>1, <2>2, <2>3, <2>4 DEF RecordGood
<1>4. cache' \in [Values -> CacheRecord]
  BY <1>3 DEF SendQueries
<1>5. Querier' \in States
  BY <1>1, <1>2, <1>4, QuerierNext
<1>6. Good(Querier')
  BY <1>2, <1>3, <1>5, QuerierIs, QuerierNext, AgedGood
<1> QED BY <1>6

\* A second less.
LEMMA LessTyped ==
  ASSUME NEW n \in Nat, NEW i \in 0..n PROVE Less(i) \in 0..n /\ Less(i) <= i /\ Less(0) = 0
  BY DEF Less

\* A record a second later.
LEMMA TickTyped ==
  ASSUME NEW r \in CacheRecord, NEW asked, RecordGood(r, asked)
  PROVE  LET w == [r EXCEPT !.left = Less(r.left), !.delay = Less(r.delay), !.fresh = FALSE]
         IN  w \in CacheRecord /\ w.in = r.in /\ w.waiting = r.waiting /\ RecordGood(w, asked)
<1> DEFINE w == [r EXCEPT !.left = Less(r.left), !.delay = Less(r.delay), !.fresh = FALSE]
<1>1. TTL \in Nat /\ OneSecond \in Nat /\ r.left \in 0..TTL /\ r.delay \in 0..OneSecond
  BY CacheAssumption DEF CacheRecord, OneSecond
<1>2. Less(r.left) \in 0..TTL /\ Less(r.delay) \in 0..OneSecond /\ Less(r.left) <= r.left
  BY <1>1, LessTyped
<1>3. /\ w \in CacheRecord /\ w.in = r.in /\ w.waiting = r.waiting /\ w.active = r.active
      /\ w.left = Less(r.left) /\ w.tagged = r.tagged
  BY <1>2 DEF CacheRecord
<1>4. ~r.in => w = NoRecord
  <2> SUFFICES ASSUME ~r.in PROVE w = NoRecord
    OBVIOUS
  <2>1. r = NoRecord
    BY DEF RecordGood
  <2>2. r.left = 0 /\ r.delay = 0 /\ r.fresh = FALSE
    BY <2>1 DEF NoRecord
  <2>3. Less(r.left) = r.left /\ Less(r.delay) = r.delay
    BY <2>2 DEF Less
  <2>4. w = [r EXCEPT !.left = r.left, !.delay = r.delay, !.fresh = r.fresh]
    BY <2>2, <2>3
  <2>5. [r EXCEPT !.left = r.left, !.delay = r.delay, !.fresh = r.fresh] = r
    BY DEF CacheRecord
  <2> QED BY <2>1, <2>4, <2>5
<1> HIDE DEF w
<1>5. RecordGood(w, asked)
  BY <1>1, <1>2, <1>3, <1>4 DEF RecordGood, OneSecond
<1> QED BY <1>3, <1>5 DEF w

\* Time passes.
LEMMA TickGood ==
  ASSUME Good(Querier), Tick PROVE Good(Querier)'
<1>1. /\ cache \in [Values -> CacheRecord] /\ qs \in Seq(QuestionRecord) /\ poll \in Polls
      /\ told \in [Clients -> [Values -> 0..1]]
  BY QuerierIs DEF Good, States
<1>2. qs' = qs /\ told' = told /\ poll' \in Polls
  <2>1. poll.wait \in 0..MaxQuestionInterval /\ MaxQuestionInterval \in Nat
    BY <1>1, CacheAssumption DEF Polls
  <2>2. PICK n \in 0..MaxQuestionInterval : poll' = [poll EXCEPT !.wait = n]
    BY <2>1, LessTyped DEF Tick
  <2> QED BY <1>1, <2>2 DEF Tick, Polls
<1>3. ASSUME NEW v \in Values
      PROVE  /\ cache'[v] \in CacheRecord /\ cache'[v].in = cache[v].in
             /\ cache'[v].waiting = cache[v].waiting /\ RecordGood(cache'[v], SomeAnswered(Querier))
  <2>1. PICK r \in CacheRecord : r = cache[v]
    BY <1>1
  <2>2. RecordGood(r, SomeAnswered(Querier))
    BY <2>1, QuerierIs DEF Good
  <2> DEFINE w == [r EXCEPT !.left = Less(r.left), !.delay = Less(r.delay), !.fresh = FALSE]
  <2>3. cache'[v] = w
    BY <2>1 DEF Tick
  <2>4. w \in CacheRecord /\ w.in = r.in /\ w.waiting = r.waiting /\ RecordGood(w, SomeAnswered(Querier))
    BY <2>2, TickTyped
  <2> HIDE DEF w
  <2> QED BY <2>1, <2>3, <2>4
<1>4. cache' \in [Values -> CacheRecord]
  BY <1>3 DEF Tick
<1>5. Querier' \in States
  BY <1>1, <1>2, <1>4, QuerierNext
<1>6. Good(Querier')
  BY <1>2, <1>3, <1>5, QuerierIs, QuerierNext, AgedGood
<1> QED BY <1>6

\* A client asks: its question is new and at the end of the list.
LEMMA StartQueryGood ==
  ASSUME Good(Querier), NEW c \in Clients, mDNS_StartQuery(c) PROVE Good(Querier)'
<1> DEFINE q == [client |-> c, new |-> TRUE, answers |-> 0]
<1>1. /\ cache \in [Values -> CacheRecord] /\ qs \in Seq(QuestionRecord) /\ poll \in Polls
      /\ told \in [Clients -> [Values -> 0..1]]
  BY QuerierIs DEF Good, States
<1>2. /\ cache' = cache /\ told' = told /\ poll' \in Polls
      /\ qs' = Append(qs, q) /\ \A i \in DOMAIN qs : qs[i].client # c
  BY <1>1, NoneTyped DEF mDNS_StartQuery
<1>3. q \in QuestionRecord /\ q.client = c /\ q.new = TRUE
  BY DEF QuestionRecord
<1> HIDE DEF q
<1>4. DOMAIN qs = 1..Len(qs) /\ Len(qs) \in Nat
  BY <1>1
<1>5. /\ qs' \in Seq(QuestionRecord) /\ DOMAIN qs' = 1..(Len(qs) + 1) /\ qs'[Len(qs) + 1] = q
      /\ \A i \in DOMAIN qs : qs'[i] = qs[i]
  BY <1>1, <1>2, <1>3
<1>6. Querier' \in States
  BY <1>1, <1>2, <1>5, QuerierNext
<1>7. Ordered(qs')
  <2>1. Ordered(qs)
    BY QuerierIs DEF Good
  <2>2. \A i, j \in DOMAIN qs' : qs'[i].client = qs'[j].client => i = j
    BY <1>2, <1>3, <1>4, <1>5, <2>1 DEF Ordered
  <2>3. \A i, j \in DOMAIN qs' : i < j /\ qs'[i].new => qs'[j].new
    BY <1>3, <1>4, <1>5, <2>1 DEF Ordered
  <2> QED BY <2>2, <2>3 DEF Ordered
<1>8. \A i \in DOMAIN qs' : ~qs'[i].new => i \in DOMAIN qs
  BY <1>3, <1>4, <1>5
<1>9. DOMAIN qs \in SUBSET DOMAIN qs'
  BY <1>4, <1>5
<1>10. /\ AnsweredClients(Querier') = AnsweredClients(Querier)
       /\ SomeAnswered(Querier') = SomeAnswered(Querier)
  BY <1>5, <1>8, <1>9, QuerierIs, QuerierNext DEF AnsweredClients, SomeAnswered, IsAnswered
<1>11. Known(Querier') = Known(Querier)
  BY <1>2, QuerierIs, QuerierNext DEF Known
<1>12. Counted(Querier')
  BY <1>5, <1>8, <1>11, QuerierIs, QuerierNext DEF Good, Counted
<1>13. Good(Querier')
  BY <1>2, <1>6, <1>7, <1>10, <1>12, QuerierIs, QuerierNext DEF Good
<1> QED BY <1>13

\* Taking a question out of the list.
LEMMA RemoveAtIs ==
  ASSUME NEW l \in Seq(QuestionRecord), NEW i \in DOMAIN l
  PROVE  /\ RemoveAt(l, i) \in Seq(QuestionRecord) /\ DOMAIN RemoveAt(l, i) = 1..(Len(l) - 1)
         /\ \A j \in 1..(Len(l) - 1) : RemoveAt(l, i)[j] = IF j < i THEN l[j] ELSE l[j + 1]
<1> DEFINE a == SubSeq(l, 1, i - 1)
           b == SubSeq(l, i + 1, Len(l))
<1>1. Len(l) \in Nat /\ i \in 1..Len(l) /\ DOMAIN l = 1..Len(l)
  OBVIOUS
<1>2. a \in Seq(QuestionRecord) /\ Len(a) = i - 1 /\ \A j \in 1..(i - 1) : a[j] = l[j]
  BY <1>1
<1>3. /\ b \in Seq(QuestionRecord) /\ Len(b) = Len(l) - i
      /\ \A j \in 1..(Len(l) - i) : b[j] = l[i + j]
  BY <1>1
<1>4. RemoveAt(l, i) = a \o b
  BY DEF RemoveAt
<1> HIDE DEF a, b
<1> DEFINE d == a \o b
<1>5. /\ d \in Seq(QuestionRecord) /\ Len(d) = Len(a) + Len(b)
      /\ \A j \in 1..(Len(a) + Len(b)) : d[j] = IF j <= Len(a) THEN a[j] ELSE b[j - Len(a)]
  BY <1>2, <1>3, ConcatProperties, Zenon
<1> HIDE DEF d
<1>6. Len(d) = Len(l) - 1 /\ DOMAIN d = 1..(Len(l) - 1)
  BY <1>1, <1>2, <1>3, <1>5
<1>7. ASSUME NEW j \in 1..(Len(l) - 1) PROVE d[j] = IF j < i THEN l[j] ELSE l[j + 1]
  <2>1. d[j] = IF j <= i - 1 THEN a[j] ELSE b[j - (i - 1)]
    BY <1>1, <1>2, <1>3, <1>5
  <2>2. CASE j < i
    BY <1>1, <1>2, <2>1, <2>2
  <2>3. CASE j >= i
    <3>1. d[j] = b[j - (i - 1)] /\ j - (i - 1) \in 1..(Len(l) - i)
      BY <1>1, <2>1, <2>3
    <3>2. b[j - (i - 1)] = l[i + (j - (i - 1))] /\ i + (j - (i - 1)) = j + 1
      BY <1>1, <1>3, <3>1
    <3> QED BY <1>1, <2>3, <3>1, <3>2
  <2> QED BY <1>1, <2>2, <2>3
<1> QED BY <1>4, <1>5, <1>6, <1>7 DEF d

\* A record that is no longer active, or stays so.
LEMMA ActiveTyped ==
  ASSUME NEW r \in CacheRecord, NEW b \in BOOLEAN
  PROVE  LET w == [r EXCEPT !.active = b]
         IN  /\ w \in CacheRecord /\ w.in = r.in /\ w.waiting = r.waiting /\ w.active = b
             /\ w.left = r.left /\ w.tagged = r.tagged /\ (b = r.active => w = r)
  BY DEF CacheRecord

\* A client stops asking: it is answered no longer, and what it heard is forgotten.
LEMMA StopQueryGood ==
  ASSUME Good(Querier), NEW c \in Clients, mDNS_StopQuery(c) PROVE Good(Querier)'
<1>1. /\ cache \in [Values -> CacheRecord] /\ qs \in Seq(QuestionRecord) /\ poll \in Polls
      /\ told \in [Clients -> [Values -> 0..1]] /\ Ordered(qs)
  BY QuerierIs DEF Good, States
<1> DEFINE left == SomeAnswered(Querier')
<1>2. PICK i \in DOMAIN qs :
        /\ qs[i].client = c /\ qs' = RemoveAt(qs, i)
        /\ cache' = [v \in Values |-> [cache[v] EXCEPT !.active = @ /\ (i # 1 \/ left)]]
  <2> DEFINE some == \E j \in DOMAIN qs' : ~qs'[j].new
  <2>1. left = some
    BY QuerierNext DEF SomeAnswered, IsAnswered
  <2>2. PICK i \in DOMAIN qs :
          /\ qs[i].client = c /\ qs' = RemoveAt(qs, i)
          /\ cache' = [v \in Values |-> [cache[v] EXCEPT !.active = @ /\ (i # 1 \/ some)]]
    BY Zenon DEF mDNS_StopQuery
  <2> HIDE DEF some, left
  <2> QED BY <2>1, <2>2
<1>3. poll' = poll /\ told' = [told EXCEPT ![c] = [v \in Values |-> 0]]
  BY DEF mDNS_StopQuery
<1>4. DOMAIN qs = 1..Len(qs) /\ Len(qs) \in Nat /\ i \in 1..Len(qs)
  BY <1>1, <1>2
<1>5. /\ qs' \in Seq(QuestionRecord) /\ DOMAIN qs' = 1..(Len(qs) - 1)
      /\ \A j \in DOMAIN qs' : qs'[j] = IF j < i THEN qs[j] ELSE qs[j + 1]
  BY <1>1, <1>2, RemoveAtIs
<1> DEFINE old(j) == IF j < i THEN j ELSE j + 1
<1>6. /\ \A j \in DOMAIN qs' : old(j) \in DOMAIN qs /\ old(j) # i /\ qs'[j] = qs[old(j)]
      /\ \A j, k \in DOMAIN qs' : (j < k => old(j) < old(k)) /\ (old(j) = old(k) => j = k)
      /\ \A k \in DOMAIN qs \ {i} : \E j \in DOMAIN qs' : old(j) = k
  <2>1. \A j \in DOMAIN qs' : old(j) \in DOMAIN qs /\ old(j) # i /\ qs'[j] = qs[old(j)]
    BY <1>4, <1>5
  <2>2. \A j, k \in DOMAIN qs' : (j < k => old(j) < old(k)) /\ (old(j) = old(k) => j = k)
    BY <1>4, <1>5
  <2>3. ASSUME NEW k \in DOMAIN qs \ {i} PROVE \E j \in DOMAIN qs' : old(j) = k
    <3>1. CASE k < i
      BY <1>4, <1>5, <3>1
    <3>2. CASE k > i
      <4>1. k - 1 \in DOMAIN qs' /\ old(k - 1) = k
        BY <1>4, <1>5, <3>2
      <4> QED BY <4>1
    <3> QED BY <1>4, <3>1, <3>2
  <2> QED BY <2>1, <2>2, <2>3
<1> HIDE DEF old
<1>7. Ordered(qs')
  BY <1>1, <1>6 DEF Ordered
<1>8. AnsweredClients(Querier') = AnsweredClients(Querier) \ {c}
  <2>1. ASSUME NEW b \in AnsweredClients(Querier') PROVE b \in AnsweredClients(Querier) \ {c}
    <3>1. PICK j \in DOMAIN qs' : ~qs'[j].new /\ b = qs'[j].client
      BY QuerierNext DEF AnsweredClients, IsAnswered
    <3>2. old(j) \in DOMAIN qs /\ old(j) # i /\ ~qs[old(j)].new /\ b = qs[old(j)].client
      BY <1>6, <3>1
    <3>3. b # c
      BY <1>1, <1>2, <3>2 DEF Ordered
    <3> QED BY <3>2, <3>3, QuerierIs DEF AnsweredClients, IsAnswered
  <2>2. ASSUME NEW b \in AnsweredClients(Querier) \ {c} PROVE b \in AnsweredClients(Querier')
    <3>1. PICK k \in DOMAIN qs : ~qs[k].new /\ b = qs[k].client
      BY QuerierIs DEF AnsweredClients, IsAnswered
    <3>2. PICK j \in DOMAIN qs' : old(j) = k
      BY <1>2, <1>6, <3>1
    <3>3. ~qs'[j].new /\ b = qs'[j].client
      BY <1>6, <3>1, <3>2
    <3> QED BY <3>3, QuerierNext DEF AnsweredClients, IsAnswered
  <2> QED BY <2>1, <2>2
<1>9. left => SomeAnswered(Querier)
  BY <1>6, QuerierIs, QuerierNext DEF SomeAnswered, IsAnswered
<1> HIDE DEF left
<1>10. ASSUME NEW v \in Values
       PROVE  /\ cache'[v] \in CacheRecord /\ cache'[v].in = cache[v].in
              /\ cache'[v].waiting = cache[v].waiting /\ RecordGood(cache'[v], left)
  <2>1. PICK r \in CacheRecord : r = cache[v]
    BY <1>1
  <2>2. RecordGood(r, SomeAnswered(Querier))
    BY <2>1, QuerierIs DEF Good
  <2> DEFINE b == r.active /\ (i # 1 \/ left)
             w == [r EXCEPT !.active = b]
  <2>3. cache'[v] = w
    BY <1>2, <2>1
  <2>4. b \in BOOLEAN /\ (left /\ r.active => b) /\ (~r.active => b = r.active)
    BY DEF CacheRecord
  <2> HIDE DEF b
  <2>5. /\ w \in CacheRecord /\ w.in = r.in /\ w.waiting = r.waiting /\ w.active = b
        /\ w.left = r.left /\ w.tagged = r.tagged /\ (b = r.active => w = r)
    BY <2>4, ActiveTyped
  <2> HIDE DEF w
  <2>6. ~r.in => w = NoRecord
    BY <2>2, <2>4, <2>5 DEF RecordGood, NoRecord
  <2>7. RecordGood(w, left)
    BY <1>9, <2>2, <2>4, <2>5, <2>6 DEF RecordGood
  <2> QED BY <2>1, <2>3, <2>5, <2>7
<1>11. cache' \in [Values -> CacheRecord]
  BY <1>2, <1>10
<1>12. told' \in [Clients -> [Values -> 0..1]]
  BY <1>1, <1>3
<1>13. Querier' \in States
  BY <1>1, <1>3, <1>5, <1>11, <1>12, QuerierNext
<1>14. Known(Querier') = Known(Querier)
  BY <1>10, QuerierIs, QuerierNext DEF Known
<1>15. Counted(Querier')
  BY <1>6, <1>14, QuerierIs, QuerierNext DEF Good, Counted
<1>16. ASSUME NEW b \in Clients, NEW v \in Values
       PROVE  told'[b][v] = Hears(b \in AnsweredClients(Querier'), cache'[v])
  <2>1. told[b][v] = Hears(b \in AnsweredClients(Querier), cache[v])
    BY QuerierIs DEF Good
  <2>2. told'[b][v] = IF b = c THEN 0 ELSE told[b][v]
    BY <1>1, <1>3
  <2> QED BY <1>8, <1>10, <2>1, <2>2 DEF Hears
<1>17. Good(Querier')
  BY <1>7, <1>10, <1>13, <1>15, <1>16, QuerierNext DEF Good, left
<1> QED BY <1>17

-----------------------------------------------------------------------------
(* The publisher, the network and time.                                    *)

\* The records a publisher makes have their type.
LEMMA AuthTyped ==
  /\ Unregistered \in AuthRecord
  /\ \A X \in SUBSET Values : NewAuthRecord(X) \in AuthRecord
  /\ [Unregistered EXCEPT !.st = "leaving", !.announces = GoodbyeCount, !.interval = 2] \in AuthRecord
<1>1. InitialAnnounceCount \in Nat /\ GoodbyeCount \in Nat
  BY CacheAssumption
<1>2. PICK u \in AuthRecord : u = Unregistered
  <2>1. Unregistered \in AuthRecord
    BY DEF Unregistered, AuthRecord, OneSecond
  <2> QED BY <2>1
<1>3. ASSUME NEW X \in SUBSET Values PROVE NewAuthRecord(X) \in AuthRecord
  <2>1. NewAuthRecord(X) = [u EXCEPT !.st = "live", !.announces = InitialAnnounceCount, !.old = X]
    BY <1>2 DEF NewAuthRecord
  <2> QED BY <1>1, <2>1 DEF AuthRecord
<1>4. [u EXCEPT !.st = "leaving", !.announces = GoodbyeCount, !.interval = 2] \in AuthRecord
  BY <1>1 DEF AuthRecord
<1> QED BY <1>2, <1>3, <1>4

\* A call that changes the set is counted.
LEMMA ChangeCounted ==
  ASSUME Published, MayChange, changes' = changes + 1, losses' = losses
  PROVE  losses' \in Nat /\ changes' \in Nat /\ losses' + changes' <= MaxEvents
  BY CacheAssumption DEF Published, MayChange

\* The records after the calls of an application.
LEMMA CallsTyped ==
  ASSUME Published, NEW v \in Values, NEW w \in Values,
         mDNS_Register(v) \/ mDNS_Update(v, w) \/ mDNS_Deregister(v)
  PROVE  Published'
<1>1. auth \in [Values -> AuthRecord] /\ \A u \in Values : auth[u].old \in SUBSET Values
  <2>1. auth \in [Values -> AuthRecord]
    BY DEF Published
  <2>2. \A r \in AuthRecord : r.old \in SUBSET Values
    BY DEF AuthRecord
  <2> QED BY <2>1, <2>2
<1>2. unique' = unique /\ net' = net /\ MayChange /\ changes' = changes + 1 /\ losses' = losses
  BY DEF mDNS_Register, mDNS_Update, mDNS_Deregister
<1>3. auth' \in [Values -> AuthRecord]
  <2>1. CASE mDNS_Register(v)
    <3>1. auth' = [auth EXCEPT ![v] = NewAuthRecord({})] /\ NewAuthRecord({}) \in AuthRecord
      BY <2>1, AuthTyped DEF mDNS_Register
    <3> QED BY <1>1, <3>1
  <2>2. CASE mDNS_Update(v, w)
    <3> DEFINE old == IF unique THEN {} ELSE auth[v].old \cup (IF auth[v].sent THEN {v} ELSE {})
    <3>1. old \ {w} \in SUBSET Values
      BY <1>1
    <3>2. auth' = [auth EXCEPT ![v] = Unregistered, ![w] = NewAuthRecord(old \ {w})]
      BY <2>2 DEF mDNS_Update
    <3>3. NewAuthRecord(old \ {w}) \in AuthRecord /\ Unregistered \in AuthRecord
      BY <3>1, AuthTyped
    <3> HIDE DEF old
    <3> QED BY <1>1, <3>2, <3>3
  <2>3. CASE mDNS_Deregister(v)
    <3> DEFINE r == IF ~unique /\ auth[v].sent
                    THEN [Unregistered EXCEPT !.st = "leaving", !.announces = GoodbyeCount, !.interval = 2]
                    ELSE Unregistered
    <3>1. r \in AuthRecord
      BY AuthTyped, Zenon
    <3>2. auth' = [auth EXCEPT ![v] = r]
      BY <2>3 DEF mDNS_Deregister
    <3> HIDE DEF r
    <3> QED BY <1>1, <3>1, <3>2
  <2> QED BY <2>1, <2>2, <2>3
<1> QED BY <1>2, <1>3, ChangeCounted DEF Published

\* The publisher goes to sleep or leaves.
LEMMA LeaveTyped ==
  ASSUME Published, BeginSleepProcessing \/ Crash PROVE Published'
<1>1. unique' = unique /\ MayChange /\ changes' = changes + 1 /\ losses' = losses
  BY DEF BeginSleepProcessing, Crash
<1>2. auth' \in [Values -> AuthRecord]
  <2>1. auth' = [v \in Values |-> Unregistered]
    BY DEF BeginSleepProcessing, Crash
  <2> QED BY <2>1, AuthTyped
<1>3. net' \subseteq Packets
  <2>1. CASE BeginSleepProcessing
    <3> DEFINE B == {v \in Live : auth[v].sent}
               m == [kind |-> "response", live |-> {}, flush |-> unique, bye |-> B]
    <3>1. net' = net \cup {m}
      BY <2>1, Zenon DEF BeginSleepProcessing
    <3>2. B \in SUBSET Values
      BY DEF Live
    <3> HIDE DEF B
    <3>3. m \in Packets
      BY <3>2 DEF Published, Packets
    <3> HIDE DEF m
    <3> QED BY <3>1, <3>3 DEF Published
  <2>2. CASE Crash
    BY <2>2 DEF Crash, Published
  <2> QED BY <2>1, <2>2
<1> QED BY <1>1, <1>2, <1>3, ChangeCounted DEF Published

\* What is left to announce of a record.
LEMMA AfterSendTyped ==
  ASSUME Published, NEW v \in Values PROVE AfterSend(v) \in AuthRecord
<1>1. PICK r \in AuthRecord : r = auth[v]
  BY DEF Published
<1> DEFINE clean == [r EXCEPT !.marked = FALSE, !.sinceMC = 0, !.sent = TRUE, !.old = {}]
           a == [r EXCEPT !.announces = r.announces - 1, !.wait = r.interval]
           b == [clean EXCEPT !.announces = clean.announces - 1,
                              !.interval = NextInterval(clean.interval),
                              !.wait = NextInterval(r.interval)]
<1>2. /\ r.announces \in Nat /\ r.interval \in Nat /\ NextInterval(r.interval) \in Nat
      /\ 0 \in 0..OneSecond
  BY DEF AuthRecord, NextInterval, OneSecond
<1>3. clean \in AuthRecord /\ clean.announces = r.announces /\ clean.interval = r.interval
  BY <1>2 DEF AuthRecord
<1>4. r.announces # 0 => a \in AuthRecord
  <2> SUFFICES ASSUME r.announces # 0 PROVE a \in AuthRecord
    OBVIOUS
  <2>1. r.announces - 1 \in Nat
    BY <1>2
  <2> QED BY <1>2, <2>1 DEF AuthRecord
<1>5. r.announces # 0 => b \in AuthRecord
  <2> SUFFICES ASSUME r.announces # 0 PROVE b \in AuthRecord
    OBVIOUS
  <2>1. clean.announces - 1 \in Nat /\ NextInterval(clean.interval) \in Nat
    BY <1>2, <1>3
  <2> HIDE DEF clean
  <2> QED BY <1>2, <1>3, <2>1 DEF AuthRecord
<1>6. /\ v \in Leaving => r.announces # 0
      /\ v \in Announced /\ HalfwayToAnnounce(v) => r.announces # 0
  BY <1>1, <1>2 DEF Leaving, TimeToAnnounceThisRecord, HalfwayToAnnounce
<1>7. \/ AfterSend(v) = Unregistered
      \/ v \in Leaving /\ AfterSend(v) = a
      \/ v \in Announced /\ HalfwayToAnnounce(v) /\ AfterSend(v) = b
      \/ AfterSend(v) = clean \/ AfterSend(v) = r
  BY <1>1, Zenon DEF AfterSend
<1> HIDE DEF a, b, clean
<1> QED BY <1>3, <1>4, <1>5, <1>6, <1>7, AuthTyped

\* Responses are sent.
LEMMA SendResponsesTyped ==
  ASSUME Published, SendResponses PROVE Published'
<1> DEFINE sent == Announced \cup Answered
           bye == Leaving \cup UNION {auth[v].old : v \in sent}
           m == [kind |-> "response", live |-> sent, bye |-> bye \ sent, flush |-> unique]
<1>1. /\ net' = net \cup {m} /\ auth' = [v \in Values |-> AfterSend(v)]
      /\ unique' = unique /\ losses' = losses /\ changes' = changes
  BY Zenon DEF SendResponses
<1>2. auth' \in [Values -> AuthRecord]
  BY <1>1, AfterSendTyped
<1>3. sent \in SUBSET Values
  BY DEF Announced, Answered, Live
<1>4. bye \in SUBSET Values
  <2>1. \A v \in Values : auth[v] \in AuthRecord
    BY DEF Published
  <2>2. \A v \in Values : auth[v].old \in SUBSET Values
    BY <2>1 DEF AuthRecord
  <2> HIDE DEF sent
  <2>3. \A v \in sent : auth[v].old \in SUBSET Values
    BY <1>3, <2>2
  <2> QED BY <2>3 DEF Leaving
<1> HIDE DEF sent, bye
<1>5. m \in Packets
  BY <1>3, <1>4 DEF Published, Packets
<1> HIDE DEF m
<1> QED BY <1>1, <1>2, <1>5 DEF Published

\* A query is received.
LEMMA ProcessQueryTyped ==
  ASSUME Published, NEW m, ProcessQuery(m) PROVE Published'
<1>1. /\ unique' = unique /\ losses' = losses /\ changes' = changes
      /\ net' \subseteq net
  BY DEF ProcessQuery
<1>2. ASSUME NEW v \in Values PROVE auth'[v] \in AuthRecord
  <2>1. PICK r \in AuthRecord : r = auth[v]
    BY DEF Published
  <2>2. PICK b \in BOOLEAN : auth'[v] = [r EXCEPT !.marked = b]
    <3> DEFINE k == r.marked /\ v \notin m.known
    <3>1. auth'[v] = [r EXCEPT !.marked = TRUE] \/ auth'[v] = [r EXCEPT !.marked = k]
      BY <2>1 DEF ProcessQuery
    <3>2. k \in BOOLEAN
      OBVIOUS
    <3> HIDE DEF k
    <3> QED BY <3>1, <3>2
  <2> QED BY <2>2 DEF AuthRecord
<1>3. auth' \in [Values -> AuthRecord]
  BY <1>2 DEF ProcessQuery
<1> QED BY <1>1, <1>3 DEF Published

\* Time passes for the publisher.
LEMMA TickTypedAuth ==
  ASSUME Published, Tick PROVE Published'
<1>1. unique' = unique /\ losses' = losses /\ changes' = changes /\ net' = net
  BY DEF Tick
<1>2. ASSUME NEW v \in Values PROVE auth'[v] \in AuthRecord
  <2>1. PICK r \in AuthRecord : r = auth[v]
    BY DEF Published
  <2>2. r.wait \in Nat
    BY DEF AuthRecord
  <2>3. PICK n \in Nat, k \in 0..OneSecond : auth'[v] = [r EXCEPT !.wait = n, !.sinceMC = k]
    <3>1. Less(r.wait) \in Nat
      BY <2>2 DEF Less
    <3>2. (IF r.st = "live" THEN OneSecond ELSE 0) \in 0..OneSecond
      BY DEF OneSecond
    <3>3. auth'[v] = [r EXCEPT !.wait = Less(r.wait), !.sinceMC = IF r.st = "live" THEN OneSecond ELSE 0]
      BY <2>1 DEF Tick
    <3> QED BY <3>1, <3>2, <3>3
  <2> QED BY <2>3 DEF AuthRecord
<1>3. auth' \in [Values -> AuthRecord]
  BY <1>2 DEF Tick
<1> QED BY <1>1, <1>3 DEF Published

\* A packet is lost.
LEMMA LoseTyped ==
  ASSUME Published, NEW m, Lose(m) PROVE Published'
  BY CacheAssumption DEF Published, Lose, publisher

\* A query is sent.
LEMMA SendQueriesTyped ==
  ASSUME Published, SendQueries PROVE Published'
<1> DEFINE m == [kind |-> "query", known |-> KnownAnswers]
<1>1. net' = net \cup {m}
  BY DEF SendQueries
<1>2. KnownAnswers \in SUBSET Values
  BY DEF KnownAnswers, Cached
<1>3. m \in Packets
  BY <1>2 DEF Packets
<1> HIDE DEF m
<1> QED BY <1>1, <1>3 DEF Published, SendQueries, publisher

-----------------------------------------------------------------------------
(* The theorems.                                                           *)

\* A step of the publisher or the network leaves the querier alone.
LEMMA QuerierSame ==
  ASSUME Good(Querier), UNCHANGED querier PROVE Good(Querier)'
<1>1. Querier' = Querier
  BY DEF Querier, querier
<1> QED BY <1>1

\* A step of the querier leaves the publisher alone; it may take a packet.
LEMMA PublisherSame ==
  ASSUME Published, UNCHANGED <<unique, publisher, losses>>, net' \subseteq net PROVE Published'
  BY DEF Published, publisher

\* Every step keeps the invariant.
LEMMA StepGood ==
  Good(Querier) /\ Published /\ [Next]_vars => (Good(Querier) /\ Published)'
<1> SUFFICES ASSUME Good(Querier), Published, [Next]_vars PROVE (Good(Querier) /\ Published)'
  OBVIOUS
<1>1. CASE \E v \in Values : mDNS_Register(v) \/ mDNS_Deregister(v)
  <2>1. UNCHANGED querier
    BY <1>1 DEF mDNS_Register, mDNS_Deregister
  <2> QED BY <1>1, <2>1, CallsTyped, QuerierSame
<1>2. CASE \E v, w \in Values : mDNS_Update(v, w)
  <2>1. UNCHANGED querier
    BY <1>2 DEF mDNS_Update
  <2> QED BY <1>2, <2>1, CallsTyped, QuerierSame
<1>3. CASE BeginSleepProcessing \/ Crash
  <2>1. UNCHANGED querier
    BY <1>3 DEF BeginSleepProcessing, Crash
  <2> QED BY <1>3, <2>1, LeaveTyped, QuerierSame
<1>4. CASE SendResponses
  <2>1. UNCHANGED querier
    BY <1>4 DEF SendResponses
  <2> QED BY <1>4, <2>1, SendResponsesTyped, QuerierSame
<1>5. CASE \E m \in net : ProcessQuery(m)
  <2>1. UNCHANGED querier
    BY <1>5 DEF ProcessQuery
  <2> QED BY <1>5, <2>1, ProcessQueryTyped, QuerierSame
<1>6. CASE \E m \in net : mDNSCoreReceiveResponse(m)
  <2>1. UNCHANGED <<unique, publisher, losses>> /\ net' \subseteq net
    BY <1>6 DEF mDNSCoreReceiveResponse
  <2> QED BY <1>6, <2>1, ReceiveGood, PublisherSame
<1>7. CASE CheckCache
  <2>1. UNCHANGED <<unique, publisher, losses>> /\ net' \subseteq net
    BY <1>7 DEF CheckCache
  <2> QED BY <1>7, <2>1, CheckCacheGood, PublisherSame
<1>8. CASE AnswerNewQuestion
  <2>1. UNCHANGED <<unique, publisher, losses>> /\ net' \subseteq net
    BY <1>8, Zenon DEF AnswerNewQuestion
  <2> QED BY <1>8, <2>1, AnswerNewGood, PublisherSame
<1>9. CASE \E c \in Clients : mDNS_StartQuery(c)
  <2>1. UNCHANGED <<unique, publisher, losses>> /\ net' \subseteq net
    BY <1>9 DEF mDNS_StartQuery
  <2> QED BY <1>9, <2>1, StartQueryGood, PublisherSame
<1>10. CASE \E c \in Clients : mDNS_StopQuery(c)
  <2>1. UNCHANGED <<unique, publisher, losses>> /\ net' \subseteq net
    BY <1>10 DEF mDNS_StopQuery
  <2> QED BY <1>10, <2>1, StopQueryGood, PublisherSame
<1>11. CASE SendQueries
  BY <1>11, SendQueriesGood, SendQueriesTyped
<1>12. CASE \E m \in net : Lose(m)
  <2>1. UNCHANGED querier
    BY <1>12 DEF Lose
  <2> QED BY <1>12, <2>1, LoseTyped, QuerierSame
<1>13. CASE Tick
  BY <1>13, TickGood, TickTypedAuth
<1>14. CASE UNCHANGED vars
  <2>1. UNCHANGED querier /\ UNCHANGED <<unique, publisher, losses>> /\ net' \subseteq net
    BY <1>14 DEF vars, querier, publisher
  <2> QED BY <2>1, QuerierSame, PublisherSame
<1> QED BY <1>1, <1>2, <1>3, <1>4, <1>5, <1>6, <1>7, <1>8, <1>9, <1>10, <1>11, <1>12, <1>13, <1>14
        DEF Next

\* Every value of the publisher and of the querier has its type, and no client hears
\* of a record twice without hearing that it is gone.
THEOREM TypeCorrect == Spec => []TypeOK
  BY InitGood, StepGood, GoodTyped, PTL DEF Spec

\* Adds and removes match the cache: however records are delayed, flushed, refreshed,
\* expired or asked for, the clients whose questions are answered have heard of exactly
\* the records of the cache that are not waiting to be delivered.
THEOREM ViewMatchesCache == Spec => []ClientViewMatchesCache
  BY InitGood, StepGood, GoodViewed, PTL DEF Spec

\* CacheRecordRmv never finds CurrentAnswers at zero.
THEOREM AnswersAreCounted == Spec => []AnswersNeverUndercounted
  BY InitGood, StepGood, GoodCounted, PTL DEF Spec

\* A record that was said goodbye for or flushed has at most a second to live.
THEOREM NothingIsRevived == Spec => []NoResurrection
  BY InitGood, StepGood, GoodGone, PTL DEF Spec
=============================================================================
