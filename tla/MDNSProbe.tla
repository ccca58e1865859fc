----------------------------- MODULE MDNSProbe -----------------------------
(***************************************************************************)
(* Probing for, announcing and defending a host name in the Multicast DNS  *)
(* core (mDNSCore/mDNS.c).  Several hosts are configured with the same     *)
(* name and share a link.  Each has one unique address record; the rdata   *)
(* of host h is h itself, so that the larger number wins CompareRData.     *)
(* Names are numbered: IncrementLabelSuffix takes name n to n + 1.         *)
(*                                                                         *)
(* Time advances in ticks of a quarter of a second, the probe interval.    *)
(* mDNS_Execute runs at once when something is due, and a packet takes at  *)
(* most MaxDelay ticks on top of the tick it is sent in.                   *)
(***************************************************************************)
EXTENDS Integers, FiniteSets

CONSTANTS
  Hosts,                       \* the hosts, numbered by their rdata
  InitialAnnounceCount,        \* announcements of a verified record (4)
  QuarterTTL,                  \* a quarter of the record's TTL, in ticks
  RateLimit,                   \* probe failures before rate limiting (15)
  FailWindow,                  \* ticks after which failures are forgotten (40)
  CanReceiveUnicastOn5353,     \* early probes ask for a unicast answer
  SupportsUnicastMDNSResponse, \* a first multicast conflict may be spurious
  MaxDelay,                    \* ticks a packet may stay in flight
  MaxFaults                    \* bound on lost packets, restarts and splits

ASSUME ProbeAssumption ==
  /\ Hosts \subseteq Nat \ {0}
  /\ IsFiniteSet(Hosts)
  /\ {InitialAnnounceCount, RateLimit, FailWindow} \subseteq Nat \ {0}
  /\ QuarterTTL \in Nat /\ QuarterTTL > 4
  /\ {MaxDelay, MaxFaults} \subseteq Nat
  /\ {CanReceiveUnicastOn5353, SupportsUnicastMDNSResponse} \subseteq BOOLEAN
  /\ CanReceiveUnicastOn5353 => SupportsUnicastMDNSResponse

VARIABLES
  host,    \* per host, its record and the fields of its mDNS structure
  net,     \* packets in flight
  bridged, \* the hosts are on one link
  queried, \* a third party has asked in this tick
  faults   \* faults used so far

vars == <<host, net, bridged, queried, faults>>

DefaultProbeCountForTypeUnique == 3
kMaxAllowedMCastProbingConflicts == 1

\* Lengths of time in ticks.
ProbeInterval == 1
AnnounceInterval == 2
OneSecond == 4
FiveSeconds == 20
RestartDelay == 2

\* Who asked for the answer that is to be sent: nobody, one host, a third
\* party that has no record of its own, or several (onesIPv4Addr).
Nobody == 0
ThirdParty == -1
Several == -2

Unmarked == [answer |-> FALSE, unicast |-> FALSE, requester |-> Nobody]

NewRecord(n, s) ==
  [s EXCEPT !.name = n, !.type = "Unique",
            !.probes = DefaultProbeCountForTypeUnique,
            !.announces = InitialAnnounceCount, !.immed = Unmarked]

NoHost ==
  [name |-> 1, type |-> "Unregistered", probes |-> 0, announces |-> 0,
   wait |-> 0, interval |-> 0, conflicts |-> 0, immed |-> Unmarked,
   sinceMC |-> 0, suppress |-> 0, fails |-> 0, quiet |-> 0]

-----------------------------------------------------------------------------
(* Helpers on the state s of one host.  The ones with a random delay give  *)
(* the set of possible results.                                            *)

InitializeLastAPTime(s) ==
  {[s EXCEPT !.conflicts = 0, !.suppress = d, !.wait = d,
             !.interval = ProbeInterval, !.sinceMC = 0] :
     d \in IF s.suppress = 0 THEN {0, 1} ELSE {s.suppress}}

RecordProbeFailure(s) ==
  [s EXCEPT !.fails = IF s.fails < RateLimit THEN s.fails + 1 ELSE s.fails,
            !.quiet = FailWindow,
            !.suppress = IF s.fails + 1 >= RateLimit THEN FiveSeconds ELSE @]

mDNS_Register(n, s) == InitializeLastAPTime(NewRecord(n, s))

\* The next name is registered.
mDNS_HostNameCallback(s) == mDNS_Register(s.name + 1, s)

\* mDNS_Deregister_internal(conflict): the old record goes without a goodbye.
DeregisterConflict(s) == mDNS_HostNameCallback(RecordProbeFailure(s))

ResourceRecordIsValidAnswer(s) == s.type = "Verified"

\* Packets from h to every host that hears it.
Audible(h) == IF bridged THEN Hosts \ {h} ELSE {}

Multicast(h, kind, name, qu) ==
  {[kind |-> kind, from |-> h, to |-> t, name |-> name, mcast |-> TRUE,
    qu |-> qu, age |-> 0] : t \in Audible(h)}

Unicast(h, t, name) ==
  {[kind |-> "response", from |-> h, to |-> d, name |-> name, mcast |-> FALSE,
    qu |-> FALSE, age |-> 0] : d \in {t} \cap Audible(h)}

-----------------------------------------------------------------------------
(* mDNS_Execute *)

ProbeDue(s) == s.type = "Unique" /\ s.wait = 0

TimeToAnnounceThisRecord(s, ahead) == s.announces > 0 /\ s.wait <= ahead

AnnounceDue(s) ==
  ResourceRecordIsValidAnswer(s) /\ TimeToAnnounceThisRecord(s, 0)

\* The host's state after SendQueries, and the probe it sends.
SendQueries(s) ==
  IF ~ProbeDue(s) THEN s
  ELSE IF s.probes > 0
  THEN [s EXCEPT !.probes = (IF @ > DefaultProbeCountForTypeUnique
                             THEN DefaultProbeCountForTypeUnique ELSE @) - 1,
                 !.wait = s.interval]
  ELSE [s EXCEPT !.type = "Verified", !.interval = AnnounceInterval, !.wait = 0]

ProbePackets(h) ==
  LET s == host[h] IN
    IF ProbeDue(s) /\ s.probes > 0
    THEN Multicast(h, "probe", s.name,
                   CanReceiveUnicastOn5353
                     /\ SendQueries(s).probes >= DefaultProbeCountForTypeUnique - 1)
    ELSE {}

\* SendDelayedUnicastResponse answers a single requester by unicast.
AnswersByUnicast(s) == s.immed.unicast /\ s.immed.requester # Several

AnswersByMulticast(s) ==
  \/ s.immed.answer /\ ~AnswersByUnicast(s)
  \/ AnnounceDue(s)

\* Mutation of SendResponses: ImmedUnicast is left set.
SendResponses_keeps_unicast(s) ==
  [s EXCEPT !.immed.answer = FALSE,
            !.announces = IF AnnounceDue(s) THEN @ - 1 ELSE @]

\* The host's state after SendResponses.  A record that is marked goes out
\* even if it has gone back to probing since it was marked, and a multicast
\* half-way to the next announcement counts as that announcement.
SendResponses(s) ==
  LET announced == IF /\ AnswersByMulticast(s)
                      /\ TimeToAnnounceThisRecord(s, s.interval \div 2)
                   THEN [s EXCEPT !.announces = @ - 1, !.interval = @ * 2,
                                  !.wait = s.interval * 2]
                   ELSE s
  IN [announced EXCEPT !.immed = Unmarked,
                       !.sinceMC = IF AnswersByMulticast(s) THEN 0 ELSE @]

ResponsePackets(h, s) ==
  (IF AnswersByUnicast(s) THEN Unicast(h, s.immed.requester, s.name) ELSE {})
  \cup
  (IF AnswersByMulticast(s) THEN Multicast(h, "response", s.name, FALSE) ELSE {})

Due(h) ==
  \/ ProbeDue(host[h])
  \/ AnnounceDue(host[h])
  \/ host[h].immed.answer

mDNS_Execute(h) ==
  /\ Due(h)
  /\ LET s == SendQueries(host[h]) IN
       /\ host' = [host EXCEPT ![h] = SendResponses(s)]
       /\ net' = net \cup ProbePackets(h) \cup ResponsePackets(h, s)
  /\ UNCHANGED <<bridged, queried, faults>>

-----------------------------------------------------------------------------
(* Registration *)

AdvertiseInterface(h) ==
  /\ host[h].type = "Unregistered"
  /\ \E s \in mDNS_Register(host[h].name, host[h]) :
       host' = [host EXCEPT ![h] = s]
  /\ UNCHANGED <<net, bridged, queried, faults>>

\* The record's pending answers are kept.
mDNSCoreRestartRegistration(s) ==
  InitializeLastAPTime(
    [s EXCEPT !.type = "Unique", !.probes = DefaultProbeCountForTypeUnique,
              !.announces = IF @ < InitialAnnounceCount
                            THEN InitialAnnounceCount ELSE @])

\* The interface comes up again (a fault of the link, not of the protocol).
mDNS_RegisterInterface(h) ==
  /\ host[h].type # "Unregistered"
  /\ faults < MaxFaults
  /\ \E s \in mDNSCoreRestartRegistration(
       [host[h] EXCEPT !.suppress = IF @ < RestartDelay
                                    THEN RestartDelay ELSE @]) :
       host' = [host EXCEPT ![h] = s]
  /\ faults' = faults + 1
  /\ UNCHANGED <<net, bridged, queried>>

-----------------------------------------------------------------------------
(* Packets received *)

\* Mutation of LosesTieBreak: simultaneous probes are not noticed.
LosesTieBreak_never(h, m) == FALSE

\* ResolveSimultaneousProbe: the smaller rdata pauses for a second.
LosesTieBreak(h, m) == host[h].type = "Unique" /\ h < m.from

\* Mutation of ResolveSimultaneousProbe: a lost tie-break is taken for a conflict.
ResolveSimultaneousProbe_renames(s) == DeregisterConflict(s)

ResolveSimultaneousProbe(s) ==
  InitializeLastAPTime([s EXCEPT !.suppress = OneSecond,
                                 !.probes = DefaultProbeCountForTypeUnique,
                                 !.announces = InitialAnnounceCount])

\* How ProcessQuery answers a question: not at all, by unicast to the
\* asker, or by multicast.  Multicasts of one record are a second apart,
\* and an answer by unicast is promoted once a quarter of the TTL has passed.
AnswersQuestion(s, m) ==
  ResourceRecordIsValidAnswer(s) /\ (m.qu \/ s.sinceMC >= OneSecond)

Mark(s, m) ==
  [answer |-> TRUE,
   unicast |-> s.immed.unicast \/ (m.qu /\ s.sinceMC < QuarterTTL),
   requester |-> IF s.immed.requester \in {Nobody, m.from}
                 THEN m.from ELSE Several]

ProcessQuery(h, m) ==
  /\ m.kind \in {"probe", "query"}
  /\ LET s == host[h] IN
       \/ /\ m.name = s.name /\ m.kind = "probe" /\ LosesTieBreak(h, m)
          /\ \E r \in ResolveSimultaneousProbe(s) : host' = [host EXCEPT ![h] = r]
       \/ /\ m.name = s.name /\ AnswersQuestion(s, m)
          /\ host' = [host EXCEPT ![h].immed = Mark(s, m)]
       \/ /\ \/ m.name # s.name
             \/ ~AnswersQuestion(s, m) /\ ~(m.kind = "probe" /\ LosesTieBreak(h, m))
          /\ UNCHANGED host

\* Mutation of Conflicts: late conflicts are ignored.
Conflicts_not_when_verified(s, m) ==
  /\ m.name = s.name
  /\ s.type = "Unique"
  /\ s.probes < DefaultProbeCountForTypeUnique

\* A unicast answer is accepted only for a record that is still probing, and
\* nothing is a conflict before the first probe is sent.
Conflicts(s, m) ==
  /\ m.name = s.name
  /\ s.type = "Unique" \/ (s.type = "Verified" /\ m.mcast)
  /\ s.probes < DefaultProbeCountForTypeUnique

ResetToProbing(s) ==
  {RecordProbeFailure(r) :
     r \in InitializeLastAPTime(
             [s EXCEPT !.type = "Unique",
                       !.probes = DefaultProbeCountForTypeUnique + 1,
                       !.announces = InitialAnnounceCount])}

SpuriousConflict(s, m) ==
  /\ m.mcast /\ SupportsUnicastMDNSResponse
  /\ s.conflicts + 1 <= kMaxAllowedMCastProbingConflicts

PauseProbing(s) ==
  [s EXCEPT !.conflicts = @ + 1, !.probes = DefaultProbeCountForTypeUnique,
            !.wait = OneSecond]

ReceiveResponse(h, m) ==
  /\ m.kind = "response"
  /\ LET s == host[h] IN
       \/ /\ Conflicts(s, m) /\ s.type = "Verified"
          /\ \E r \in ResetToProbing(s) : host' = [host EXCEPT ![h] = r]
       \/ /\ Conflicts(s, m) /\ s.type = "Unique" /\ SpuriousConflict(s, m)
          /\ host' = [host EXCEPT ![h] = PauseProbing(s)]
       \/ /\ Conflicts(s, m) /\ s.type = "Unique" /\ ~SpuriousConflict(s, m)
          /\ \E r \in DeregisterConflict(s) : host' = [host EXCEPT ![h] = r]
       \/ /\ ~Conflicts(s, m)
          /\ UNCHANGED host

mDNSCoreReceive(m) ==
  /\ net' = net \ {m}
  /\ ProcessQuery(m.to, m) \/ ReceiveResponse(m.to, m)
  /\ UNCHANGED <<bridged, queried, faults>>

-----------------------------------------------------------------------------
(* The environment *)

\* A third party asks by multicast for every name in use.
Query ==
  /\ ~queried
  /\ \E h \in Hosts : host[h].type # "Unregistered"
  /\ queried' = TRUE
  /\ net' = net \cup
       {[kind |-> "query", from |-> ThirdParty, to |-> h, name |-> host[h].name,
         mcast |-> TRUE, qu |-> FALSE, age |-> 0] : h \in Hosts}
  /\ UNCHANGED <<host, bridged, faults>>

Lose(m) ==
  /\ faults < MaxFaults
  /\ faults' = faults + 1
  /\ net' = net \ {m}
  /\ UNCHANGED <<host, bridged, queried>>

\* Two parts of a link are joined.
Bridge ==
  /\ ~bridged
  /\ bridged' = TRUE
  /\ UNCHANGED <<host, net, queried, faults>>

Less(n) == IF n = 0 THEN 0 ELSE n - 1

Elapse(s) ==
  [s EXCEPT !.wait = Less(@), !.suppress = Less(@), !.quiet = Less(@),
            !.fails = IF s.quiet <= 1 THEN 0 ELSE @,
            !.sinceMC = IF @ < QuarterTTL THEN @ + 1 ELSE @]

Tick ==
  /\ \A h \in Hosts : ~Due(h)
  /\ \A m \in net : m.age < MaxDelay
  /\ host' = [h \in Hosts |-> Elapse(host[h])]
  /\ net' = {[m EXCEPT !.age = @ + 1] : m \in net}
  /\ queried' = FALSE
  /\ UNCHANGED <<bridged, faults>>

-----------------------------------------------------------------------------
\* A link that is split at the start counts as a fault.
Init ==
  /\ host = [h \in Hosts |-> NoHost]
  /\ net = {}
  /\ bridged \in {TRUE} \cup (IF MaxFaults > 0 THEN {FALSE} ELSE {})
  /\ queried = FALSE
  /\ faults = IF bridged THEN 0 ELSE 1

Next ==
  \/ \E h \in Hosts :
       \/ AdvertiseInterface(h)
       \/ mDNS_Execute(h)
       \/ mDNS_RegisterInterface(h)
  \/ \E m \in net : mDNSCoreReceive(m)
  \/ \E m \in net : Lose(m)
  \/ Query
  \/ Bridge
  \/ Tick

\* The event loop runs, packets that are not lost arrive, time passes, a
\* split link is joined in the end, and somebody keeps asking for the names.
Fairness ==
  /\ \A h \in Hosts : WF_vars(AdvertiseInterface(h)) /\ WF_vars(mDNS_Execute(h))
  /\ WF_vars(\E m \in net : mDNSCoreReceive(m))
  /\ WF_vars(Bridge)
  /\ WF_vars(Query)
  /\ WF_vars(Tick)

Spec == Init /\ [][Next]_vars /\ Fairness

-----------------------------------------------------------------------------
HostState ==
  [name : Nat, type : {"Unregistered", "Unique", "Verified"},
   probes : 0..DefaultProbeCountForTypeUnique + 1,
   announces : 0..InitialAnnounceCount, wait : Nat, interval : Nat,
   conflicts : 0..kMaxAllowedMCastProbingConflicts,
   immed : [answer : BOOLEAN, unicast : BOOLEAN,
            requester : Hosts \cup {Nobody, ThirdParty, Several}],
   sinceMC : 0..QuarterTTL, suppress : Nat, fails : 0..RateLimit,
   quiet : 0..FailWindow]

Packets ==
  [kind : {"probe", "query", "response"}, from : Hosts \cup {ThirdParty},
   to : Hosts, name : Nat, mcast : BOOLEAN, qu : BOOLEAN, age : 0..MaxDelay]

(***************************************************************************)
(* Type correctness of the state; also that a unicast answer always has a  *)
(* single host to go to, which SendResponses logs as an error otherwise.   *)
(***************************************************************************)
TypeOK ==
  /\ host \in [Hosts -> HostState]
  /\ \A h \in Hosts : host[h].immed.unicast => host[h].immed.answer
  /\ net \subseteq Packets
  /\ bridged \in BOOLEAN /\ queried \in BOOLEAN
  /\ faults \in 0..MaxFaults

Owner(h, n) == host[h].type = "Verified" /\ host[h].name = n

(***************************************************************************)
(* Three probes and the answers to them are enough: on a link that loses   *)
(* nothing, no two hosts hold the same verified name, however their        *)
(* probes, pauses and renames interleave.                                  *)
(***************************************************************************)
UniqueOwner ==
  faults = 0 => \A g, h \in Hosts :
                  host[g].type = "Verified" /\ Owner(h, host[g].name) => g = h

(***************************************************************************)
(* A host gives up its name only for another host that holds the name      *)
(* verified: losing a tie-break, or hearing a packet of a host that has    *)
(* moved on, never costs a host its name (the comment in                   *)
(* ResolveSimultaneousProbe on stale packets).                             *)
(***************************************************************************)
OnlyOwnerEvicts ==
  [][\A h \in Hosts :
       faults = 0 /\ host'[h].name # host[h].name
         => \E g \in Hosts \ {h} : Owner(g, host[h].name)]_vars

(***************************************************************************)
(* Whatever was lost or restarted, and after two links are joined on which *)
(* the same name had been verified twice, the hosts settle for good on     *)
(* verified names that differ.                                             *)
(***************************************************************************)
EventuallyUnique ==
  <>[](\A g, h \in Hosts :
         /\ host[h].type = "Verified"
         /\ Owner(g, host[h].name) => g = h)
=============================================================================
