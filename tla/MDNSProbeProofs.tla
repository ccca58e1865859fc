-------------------------- MODULE MDNSProbeProofs --------------------------
(***************************************************************************)
(* What holds of MDNSProbe for every set of hosts and every choice of the  *)
(* limits.  First types: no counter of a record leaves its range, and a    *)
(* record that is to be answered by unicast is always marked to be         *)
(* answered.  Then, on a link without faults that is fast enough, that no  *)
(* two hosts hold one name and that a name is given up only to its holder. *)
(***************************************************************************)
EXTENDS MDNSProbe, TLAPS

-----------------------------------------------------------------------------
(* One host.                                                               *)

Requesters == Hosts \cup {Nobody, ThirdParty, Several}
Marks == [answer : BOOLEAN, unicast : BOOLEAN, requester : Requesters]

\* The state of a host and the part of the invariant about its pending answer.
Sound(s) == s \in HostState /\ (s.immed.unicast => s.immed.answer)

\* The constants are numbers.
LEMMA Constants ==
  /\ InitialAnnounceCount \in Nat /\ InitialAnnounceCount > 0
  /\ RateLimit \in Nat /\ RateLimit > 0 /\ FailWindow \in Nat
  /\ QuarterTTL \in Nat /\ QuarterTTL > 4 /\ MaxDelay \in Nat /\ MaxFaults \in Nat
<1>1. /\ InitialAnnounceCount \in Nat \ {0} /\ RateLimit \in Nat \ {0} /\ FailWindow \in Nat \ {0}
      /\ MaxDelay \in Nat /\ MaxFaults \in Nat /\ QuarterTTL \in Nat /\ QuarterTTL > 4
  BY ProbeAssumption, Zenon DEF ProbeAssumption
<1> QED BY <1>1

\* The fields of a host have their types.
LEMMA Fields ==
  ASSUME NEW s \in HostState
  PROVE  /\ s.name \in Nat /\ s.type \in {"Unregistered", "Unique", "Verified"}
         /\ s.probes \in 0..4 /\ s.announces \in 0..InitialAnnounceCount
         /\ s.wait \in Nat /\ s.interval \in Nat /\ s.conflicts \in 0..1 /\ s.immed \in Marks
         /\ s.sinceMC \in 0..QuarterTTL /\ s.suppress \in Nat /\ s.fails \in 0..RateLimit
         /\ s.quiet \in 0..FailWindow
<1>1. DefaultProbeCountForTypeUnique + 1 = 4 /\ kMaxAllowedMCastProbingConflicts = 1
  BY DEF DefaultProbeCountForTypeUnique, kMaxAllowedMCastProbingConflicts
<1> QED BY <1>1 DEF HostState, Marks, Requesters

\* A pending answer is a mark, or none.
LEMMA UnmarkedIs == Unmarked \in Marks /\ Unmarked.unicast = FALSE
  BY DEF Unmarked, Marks, Requesters

\* A host that has just started.
LEMMA NoHostSound == Sound(NoHost)
<1>1. NoHost.immed = Unmarked
  BY DEF NoHost
<1>2. NoHost \in HostState
  BY Constants, UnmarkedIs DEF NoHost, HostState, Marks, Requesters, DefaultProbeCountForTypeUnique,
     kMaxAllowedMCastProbingConflicts
<1> QED BY <1>1, <1>2, UnmarkedIs DEF Sound

\* The record starts over: its name, its type and its counters.
LEMMA RestartSound ==
  ASSUME NEW s, Sound(s), NEW n \in Nat, NEW y \in {"Unregistered", "Unique", "Verified"},
         NEW p \in 0..4, NEW a \in 0..InitialAnnounceCount
  PROVE  Sound([s EXCEPT !.name = n, !.type = y, !.probes = p, !.announces = a])
<1>1. DefaultProbeCountForTypeUnique + 1 = 4
  BY DEF DefaultProbeCountForTypeUnique
<1> QED BY <1>1 DEF Sound, HostState

\* A pending answer.
LEMMA MarkSound ==
  ASSUME NEW s, Sound(s), NEW m \in Marks, m.unicast => m.answer
  PROVE  Sound([s EXCEPT !.immed = m])
  BY DEF Sound, HostState, Marks, Requesters

\* InitializeLastAPTime: whatever delay is drawn.
LEMMA InitializeSound ==
  ASSUME NEW s, Sound(s), NEW r \in InitializeLastAPTime(s)
  PROVE  Sound(r)
<1>1. s.suppress \in Nat /\ 0 \in 0..QuarterTTL /\ ProbeInterval \in Nat
  BY Fields, Constants DEF Sound, ProbeInterval
<1>2. PICK d \in Nat : r = [s EXCEPT !.conflicts = 0, !.suppress = d, !.wait = d,
                                     !.interval = ProbeInterval, !.sinceMC = 0]
  BY <1>1 DEF InitializeLastAPTime
<1>3. PICK k \in 0..kMaxAllowedMCastProbingConflicts, i \in Nat, c \in 0..QuarterTTL :
        k = 0 /\ i = ProbeInterval /\ c = 0
  BY <1>1 DEF kMaxAllowedMCastProbingConflicts
<1>4. r = [s EXCEPT !.conflicts = k, !.suppress = d, !.wait = d, !.interval = i, !.sinceMC = c]
  BY <1>2, <1>3
<1> QED BY <1>4 DEF Sound, HostState

\* RecordProbeFailure: failures are counted up to the limit.
LEMMA FailureSound ==
  ASSUME NEW s, Sound(s) PROVE Sound(RecordProbeFailure(s))
<1>1. s.suppress \in Nat /\ s.fails \in 0..RateLimit /\ RateLimit \in Nat /\ FailWindow \in Nat
  BY Fields, Constants DEF Sound
<1> DEFINE f == IF s.fails < RateLimit THEN s.fails + 1 ELSE s.fails
           d == IF s.fails + 1 >= RateLimit THEN FiveSeconds ELSE s.suppress
<1>2. f \in 0..RateLimit /\ d \in Nat /\ FailWindow \in 0..FailWindow
  BY <1>1 DEF FiveSeconds
<1>3. RecordProbeFailure(s) = [s EXCEPT !.fails = f, !.quiet = FailWindow, !.suppress = d]
  BY DEF RecordProbeFailure
<1> HIDE DEF f, d
<1> QED BY <1>2, <1>3 DEF Sound, HostState

\* mDNS_Register: a record with a name is probed for.
LEMMA RegisterSound ==
  ASSUME NEW s, Sound(s), NEW n \in Nat, NEW r \in mDNS_Register(n, s)
  PROVE  Sound(r)
<1> DEFINE t == [s EXCEPT !.name = n, !.type = "Unique", !.probes = DefaultProbeCountForTypeUnique,
                          !.announces = InitialAnnounceCount]
<1>1. DefaultProbeCountForTypeUnique \in 0..4 /\ InitialAnnounceCount \in 0..InitialAnnounceCount
  BY Constants DEF DefaultProbeCountForTypeUnique
<1>2. Sound(t)
  BY <1>1, RestartSound
<1>3. NewRecord(n, s) = [t EXCEPT !.immed = Unmarked]
  BY DEF NewRecord, Sound, HostState
<1> HIDE DEF t
<1>4. Sound(NewRecord(n, s))
  BY <1>2, <1>3, MarkSound, UnmarkedIs
<1> QED BY <1>4, InitializeSound DEF mDNS_Register

\* A conflict costs a host its name: the next one is registered.
LEMMA DeregisterSound ==
  ASSUME NEW s, Sound(s), NEW r \in DeregisterConflict(s)
  PROVE  Sound(r)
<1> DEFINE t == RecordProbeFailure(s)
<1>1. Sound(t)
  BY FailureSound
<1>2. r \in mDNS_Register(t.name + 1, t)
  BY DEF DeregisterConflict, mDNS_HostNameCallback
<1> HIDE DEF t
<1>3. t.name + 1 \in Nat
  BY <1>1, Fields DEF Sound
<1> QED BY <1>1, <1>2, <1>3, RegisterSound

\* A record that is kept is probed for, or announced, again.
LEMMA ReprobeSound ==
  ASSUME NEW s, Sound(s), NEW d \in Nat, NEW p \in 0..4, NEW a \in 0..InitialAnnounceCount
  PROVE  /\ Sound([s EXCEPT !.type = "Unique", !.probes = p, !.announces = a])
         /\ Sound([s EXCEPT !.suppress = d, !.probes = p, !.announces = a])
         /\ \A i \in Nat : Sound([s EXCEPT !.announces = a, !.interval = i, !.wait = d])
<1>1. DefaultProbeCountForTypeUnique + 1 = 4
  BY DEF DefaultProbeCountForTypeUnique
<1> QED BY <1>1 DEF Sound, HostState

\* The interface comes up again.
LEMMA RestartRegistrationSound ==
  ASSUME NEW s, Sound(s), NEW r \in mDNSCoreRestartRegistration(s)
  PROVE  Sound(r)
<1> DEFINE a == IF s.announces < InitialAnnounceCount THEN InitialAnnounceCount ELSE s.announces
           t == [s EXCEPT !.type = "Unique", !.probes = DefaultProbeCountForTypeUnique, !.announces = a]
<1>1. DefaultProbeCountForTypeUnique \in 0..4 /\ a \in 0..InitialAnnounceCount
  BY Fields, Constants DEF DefaultProbeCountForTypeUnique, Sound
<1>2. r \in InitializeLastAPTime(t)
  BY DEF mDNSCoreRestartRegistration
<1> HIDE DEF a
<1>3. Sound(t)
  BY <1>1, ReprobeSound
<1> HIDE DEF t
<1> QED BY <1>2, <1>3, InitializeSound

\* A host that loses the tie-break starts its probes again in a second.
LEMMA ResolveSound ==
  ASSUME NEW s, Sound(s), NEW r \in ResolveSimultaneousProbe(s)
  PROVE  Sound(r)
<1> DEFINE t == [s EXCEPT !.suppress = OneSecond, !.probes = DefaultProbeCountForTypeUnique,
                          !.announces = InitialAnnounceCount]
<1>1. /\ DefaultProbeCountForTypeUnique \in 0..4 /\ OneSecond \in Nat
      /\ InitialAnnounceCount \in 0..InitialAnnounceCount
  BY Constants DEF DefaultProbeCountForTypeUnique, OneSecond
<1>2. r \in InitializeLastAPTime(t)
  BY DEF ResolveSimultaneousProbe
<1>3. Sound(t)
  BY <1>1, ReprobeSound
<1> HIDE DEF t
<1> QED BY <1>2, <1>3, InitializeSound

\* A verified record meets a conflict.
LEMMA ResetSound ==
  ASSUME NEW s, Sound(s), NEW r \in ResetToProbing(s)
  PROVE  Sound(r)
<1> DEFINE t == [s EXCEPT !.type = "Unique", !.probes = DefaultProbeCountForTypeUnique + 1,
                          !.announces = InitialAnnounceCount]
<1>1. /\ DefaultProbeCountForTypeUnique + 1 \in 0..4
      /\ InitialAnnounceCount \in 0..InitialAnnounceCount
  BY Constants DEF DefaultProbeCountForTypeUnique
<1>2. PICK u \in InitializeLastAPTime(t) : r = RecordProbeFailure(u)
  BY DEF ResetToProbing
<1>3. Sound(t)
  BY <1>1, ReprobeSound
<1> HIDE DEF t
<1> QED BY <1>2, <1>3, InitializeSound, FailureSound

\* A conflict that may be spurious: the first one only.
LEMMA PauseSound ==
  ASSUME NEW s, Sound(s), NEW m, SpuriousConflict(s, m)
  PROVE  Sound(PauseProbing(s))
<1>1. s.conflicts + 1 \in 0..1 /\ DefaultProbeCountForTypeUnique \in 0..4 /\ OneSecond \in Nat
  BY Fields DEF Sound, SpuriousConflict, kMaxAllowedMCastProbingConflicts,
     DefaultProbeCountForTypeUnique, OneSecond
<1>2. DefaultProbeCountForTypeUnique + 1 = 4 /\ kMaxAllowedMCastProbingConflicts = 1
  BY DEF DefaultProbeCountForTypeUnique, kMaxAllowedMCastProbingConflicts
<1> QED BY <1>1, <1>2 DEF Sound, HostState, PauseProbing

\* The next probe is sent, or the last one was answered by nobody.
LEMMA SendQueriesSound ==
  ASSUME NEW s, Sound(s) PROVE Sound(SendQueries(s))
<1>1. s.probes \in 0..4 /\ s.interval \in Nat
  BY Fields DEF Sound
<1>2. DefaultProbeCountForTypeUnique + 1 = 4
  BY DEF DefaultProbeCountForTypeUnique
<1>3. CASE ~ProbeDue(s)
  BY <1>3 DEF SendQueries
<1>4. CASE ProbeDue(s) /\ s.probes > 0
  <2> DEFINE p == (IF s.probes > DefaultProbeCountForTypeUnique
                   THEN DefaultProbeCountForTypeUnique ELSE s.probes) - 1
  <2>1. p \in 0..4
    BY <1>1, <1>4 DEF DefaultProbeCountForTypeUnique
  <2>2. SendQueries(s) = [s EXCEPT !.probes = p, !.wait = s.interval]
    BY <1>4 DEF SendQueries
  <2> HIDE DEF p
  <2> QED BY <1>1, <1>2, <2>1, <2>2 DEF Sound, HostState
<1>5. CASE ProbeDue(s) /\ ~(s.probes > 0)
  <2>1. SendQueries(s) = [s EXCEPT !.type = "Verified", !.interval = AnnounceInterval, !.wait = 0]
    BY <1>5 DEF SendQueries
  <2>2. PICK i \in Nat, w \in Nat : i = AnnounceInterval /\ w = 0
    BY DEF AnnounceInterval
  <2>3. SendQueries(s) = [s EXCEPT !.type = "Verified", !.interval = i, !.wait = w]
    BY <2>1, <2>2
  <2>4. SendQueries(s) \in HostState
    BY <2>3 DEF Sound, HostState
  <2>5. SendQueries(s).immed = s.immed
    BY <2>3 DEF Sound, HostState
  <2> QED BY <2>4, <2>5 DEF Sound
<1> QED BY <1>3, <1>4, <1>5

\* Answers and announcements are sent: none is sent that is not left to be sent.
LEMMA SendResponsesSound ==
  ASSUME NEW s, Sound(s) PROVE Sound(SendResponses(s))
<1> DEFINE now == AnswersByMulticast(s) /\ TimeToAnnounceThisRecord(s, s.interval \div 2)
           a == IF now THEN [s EXCEPT !.announces = s.announces - 1, !.interval = s.interval * 2,
                                      !.wait = s.interval * 2]
                ELSE s
           c == IF AnswersByMulticast(s) THEN 0 ELSE a.sinceMC
<1>1. s.announces \in 0..InitialAnnounceCount /\ s.interval \in Nat
  BY Fields DEF Sound
<1>2. Sound(a)
  <2>1. CASE now
    <3>1. s.announces - 1 \in 0..InitialAnnounceCount
      BY <1>1, <2>1, Constants DEF TimeToAnnounceThisRecord
    <3>2. s.interval * 2 \in Nat /\ 0 \in 0..4
      BY <1>1
    <3>3. a = [s EXCEPT !.announces = s.announces - 1, !.interval = s.interval * 2,
                        !.wait = s.interval * 2]
      BY <2>1
    <3> QED BY <3>1, <3>2, <3>3, ReprobeSound
  <2>2. CASE ~now
    BY <2>2
  <2> QED BY <2>1, <2>2
<1>3. SendResponses(s) = [[a EXCEPT !.immed = Unmarked] EXCEPT !.sinceMC = c]
  BY DEF SendResponses
<1> HIDE DEF a
<1>4. c \in 0..QuarterTTL
  BY <1>2, Fields, Constants DEF Sound
<1> HIDE DEF c
<1> DEFINE b == [a EXCEPT !.immed = Unmarked]
<1>5. Sound(b)
  BY <1>2, MarkSound, UnmarkedIs
<1> HIDE DEF b
<1>6. Sound([b EXCEPT !.sinceMC = c])
  BY <1>4, <1>5 DEF Sound, HostState
<1> QED BY <1>3, <1>6 DEF b

\* A question is answered: an answer by unicast is an answer.
LEMMA AnswerSound ==
  ASSUME NEW s, Sound(s), NEW m \in Packets
  PROVE  Sound([s EXCEPT !.immed = Mark(s, m)])
<1>1. s.immed \in Marks /\ s.sinceMC \in 0..QuarterTTL
  BY Fields DEF Sound
<1>2. m.from \in Hosts \cup {ThirdParty} /\ m.qu \in BOOLEAN
  BY DEF Packets
<1> DEFINE u == s.immed.unicast \/ (m.qu /\ s.sinceMC < QuarterTTL)
           r == IF s.immed.requester \in {Nobody, m.from} THEN m.from ELSE Several
<1>3. u \in BOOLEAN /\ r \in Requesters
  BY <1>1, <1>2 DEF Marks, Requesters
<1>4. Mark(s, m) = [answer |-> TRUE, unicast |-> u, requester |-> r]
  BY DEF Mark
<1> HIDE DEF u, r
<1>5. Mark(s, m) \in Marks /\ Mark(s, m).answer
  BY <1>3, <1>4 DEF Marks
<1> QED BY <1>5, MarkSound

\* A tick passes for a host.
LEMMA ElapseSound ==
  ASSUME NEW s, Sound(s) PROVE Sound(Elapse(s))
<1>1. /\ s.wait \in Nat /\ s.suppress \in Nat /\ s.quiet \in 0..FailWindow
      /\ s.fails \in 0..RateLimit /\ s.sinceMC \in 0..QuarterTTL
  BY Fields DEF Sound
<1> DEFINE f == IF s.quiet <= 1 THEN 0 ELSE s.fails
           c == IF s.sinceMC < QuarterTTL THEN s.sinceMC + 1 ELSE s.sinceMC
<1>2. /\ Less(s.wait) \in Nat /\ Less(s.suppress) \in Nat /\ Less(s.quiet) \in 0..FailWindow
      /\ f \in 0..RateLimit /\ c \in 0..QuarterTTL
  BY <1>1, Constants DEF Less
<1>3. Elapse(s) = [s EXCEPT !.wait = Less(s.wait), !.suppress = Less(s.suppress),
                            !.quiet = Less(s.quiet), !.fails = f, !.sinceMC = c]
  BY DEF Elapse
<1> HIDE DEF f, c
<1> DEFINE t == [s EXCEPT !.wait = Less(s.wait), !.suppress = Less(s.suppress)]
<1>4. Sound(t)
  BY <1>2 DEF Sound, HostState
<1>5. Elapse(s) = [t EXCEPT !.quiet = Less(s.quiet), !.fails = f, !.sinceMC = c]
  BY <1>3 DEF Sound, HostState
<1> HIDE DEF t
<1>6. Elapse(s) \in HostState
  BY <1>2, <1>4, <1>5 DEF Sound, HostState
<1>7. Elapse(s).immed = t.immed
  BY <1>4, <1>5 DEF Sound, HostState
<1> QED BY <1>4, <1>6, <1>7 DEF Sound

-----------------------------------------------------------------------------
(* The packets.                                                            *)

\* What is sent are packets.
LEMMA PacketsSent ==
  ASSUME NEW h \in Hosts, NEW n \in Nat
  PROVE  /\ \A k \in {"probe", "response"}, b \in BOOLEAN : Multicast(h, k, n, b) \subseteq Packets
         /\ \A t : Unicast(h, t, n) \subseteq Packets
<1>1. Audible(h) \subseteq Hosts /\ 0 \in 0..MaxDelay
  BY Constants DEF Audible
<1>2. ASSUME NEW k \in {"probe", "response"}, NEW b \in BOOLEAN, NEW m \in Multicast(h, k, n, b)
      PROVE  m \in Packets
  <2>1. PICK t \in Hosts : m = [kind |-> k, from |-> h, to |-> t, name |-> n, mcast |-> TRUE,
                                qu |-> b, age |-> 0]
    BY <1>1, <1>2 DEF Multicast
  <2> QED BY <1>1, <2>1 DEF Packets
<1>3. ASSUME NEW t, NEW m \in Unicast(h, t, n) PROVE m \in Packets
  <2>1. PICK d \in Hosts : m = [kind |-> "response", from |-> h, to |-> d, name |-> n,
                                mcast |-> FALSE, qu |-> FALSE, age |-> 0]
    BY <1>1, <1>3 DEF Unicast
  <2> QED BY <1>1, <2>1 DEF Packets
<1> QED BY <1>2, <1>3

-----------------------------------------------------------------------------
(* The steps.                                                              *)

\* The invariant in terms of one host.
LEMMA HostsSound ==
  TypeOK <=> /\ host \in [Hosts -> HostState] /\ \A h \in Hosts : Sound(host[h])
             /\ net \subseteq Packets /\ bridged \in BOOLEAN /\ queried \in BOOLEAN
             /\ faults \in 0..MaxFaults
  BY DEF TypeOK, Sound

\* One host changes.
LEMMA OneHost ==
  ASSUME TypeOK, NEW h \in Hosts, NEW s, Sound(s), host' = [host EXCEPT ![h] = s],
         net' \subseteq Packets, bridged' \in BOOLEAN, queried' \in BOOLEAN, faults' \in 0..MaxFaults
  PROVE  TypeOK'
<1>1. host \in [Hosts -> HostState] /\ \A g \in Hosts : Sound(host[g])
  BY HostsSound
<1>2. host' \in [Hosts -> HostState] /\ \A g \in Hosts : Sound(host'[g])
  BY <1>1 DEF Sound
<1> QED BY <1>2 DEF TypeOK, Sound

\* No host changes.
LEMMA NoHostChanges ==
  ASSUME TypeOK, host' = host,
         net' \subseteq Packets, bridged' \in BOOLEAN, queried' \in BOOLEAN, faults' \in 0..MaxFaults
  PROVE  TypeOK'
  BY DEF TypeOK

\* mDNS_Execute sends probes, announcements and answers.
LEMMA ExecuteTyped ==
  ASSUME TypeOK, NEW h \in Hosts, mDNS_Execute(h) PROVE TypeOK'
<1> DEFINE s == SendQueries(host[h])
<1>1. /\ host' = [host EXCEPT ![h] = SendResponses(s)]
      /\ net' = net \cup ProbePackets(h) \cup ResponsePackets(h, s)
      /\ UNCHANGED <<bridged, queried, faults>>
  BY DEF mDNS_Execute
<1>2. Sound(host[h]) /\ Sound(s)
  BY HostsSound, SendQueriesSound
<1>3. ProbePackets(h) \subseteq Packets
  <2> DEFINE b == CanReceiveUnicastOn5353 /\ s.probes >= DefaultProbeCountForTypeUnique - 1
  <2>1. ProbePackets(h) = {} \/ ProbePackets(h) = Multicast(h, "probe", host[h].name, b)
    BY DEF ProbePackets
  <2>2. b \in BOOLEAN
    OBVIOUS
  <2> HIDE DEF b
  <2>3. host[h].name \in Nat
    BY <1>2, Fields DEF Sound
  <2> QED BY <2>1, <2>2, <2>3, PacketsSent
<1> HIDE DEF s
<1>4. ResponsePackets(h, s) \subseteq Packets
  <2>1. s.name \in Nat
    BY <1>2, Fields DEF Sound
  <2>2. /\ Multicast(h, "response", s.name, FALSE) \subseteq Packets
        /\ Unicast(h, s.immed.requester, s.name) \subseteq Packets
    BY <2>1, PacketsSent
  <2> QED BY <2>2 DEF ResponsePackets
<1>5. Sound(SendResponses(s))
  BY <1>2, SendResponsesSound
<1>6. net' \subseteq Packets /\ bridged' \in BOOLEAN /\ queried' \in BOOLEAN /\ faults' \in 0..MaxFaults
  BY <1>1, <1>3, <1>4 DEF TypeOK
<1> QED BY <1>1, <1>5, <1>6, OneHost

\* A host starts, or its interface comes up again.
LEMMA RegistrationTyped ==
  ASSUME TypeOK, NEW h \in Hosts, AdvertiseInterface(h) \/ mDNS_RegisterInterface(h) PROVE TypeOK'
<1>1. Sound(host[h]) /\ host[h] \in HostState
  BY HostsSound DEF Sound
<1>2. host[h].name \in Nat /\ host[h].suppress \in Nat
  BY <1>1, Fields
<1>3. net' \subseteq Packets /\ bridged' \in BOOLEAN /\ queried' \in BOOLEAN /\ faults' \in 0..MaxFaults
  BY Constants DEF TypeOK, AdvertiseInterface, mDNS_RegisterInterface
<1>4. CASE AdvertiseInterface(h)
  <2>1. PICK r \in mDNS_Register(host[h].name, host[h]) : host' = [host EXCEPT ![h] = r]
    BY <1>4 DEF AdvertiseInterface
  <2>2. Sound(r)
    BY <1>1, <1>2, <2>1, RegisterSound
  <2> QED BY <1>3, <2>1, <2>2, OneHost
<1>5. CASE mDNS_RegisterInterface(h)
  <2> DEFINE d == IF host[h].suppress < RestartDelay THEN RestartDelay ELSE host[h].suppress
             s == [host[h] EXCEPT !.suppress = d]
  <2>1. d \in Nat
    BY <1>2 DEF RestartDelay
  <2>2. PICK r \in mDNSCoreRestartRegistration(s) : host' = [host EXCEPT ![h] = r]
    BY <1>5 DEF mDNS_RegisterInterface
  <2> HIDE DEF d
  <2>3. Sound(s)
    BY <1>1, <2>1 DEF Sound, HostState
  <2> HIDE DEF s
  <2>4. Sound(r)
    BY <2>2, <2>3, RestartRegistrationSound
  <2> QED BY <1>3, <2>2, <2>4, OneHost
<1> QED BY <1>4, <1>5

\* A packet is received.
LEMMA ReceiveTyped ==
  ASSUME TypeOK, NEW m \in net, mDNSCoreReceive(m) PROVE TypeOK'
<1> DEFINE h == m.to
           s == host[h]
<1>1. m \in Packets /\ h \in Hosts
  BY DEF TypeOK, Packets
<1>2. Sound(s)
  BY <1>1, HostsSound
<1>3. net' \subseteq Packets /\ bridged' \in BOOLEAN /\ queried' \in BOOLEAN /\ faults' \in 0..MaxFaults
  BY DEF TypeOK, mDNSCoreReceive
<1>4. CASE UNCHANGED host
  BY <1>3, <1>4, NoHostChanges
<1>5. CASE \E r \in ResolveSimultaneousProbe(s) \cup ResetToProbing(s) \cup DeregisterConflict(s) :
             host' = [host EXCEPT ![h] = r]
  <2>1. PICK r \in ResolveSimultaneousProbe(s) \cup ResetToProbing(s) \cup DeregisterConflict(s) :
          host' = [host EXCEPT ![h] = r]
    BY <1>5
  <2>2. Sound(r)
    BY <1>2, <2>1, ResolveSound, ResetSound, DeregisterSound
  <2> QED BY <1>1, <1>3, <2>1, <2>2, OneHost
<1>6. CASE host' = [host EXCEPT ![h].immed = Mark(s, m)]
  <2> DEFINE r == [s EXCEPT !.immed = Mark(s, m)]
  <2>1. host' = [host EXCEPT ![h] = r]
    BY <1>1, <1>6
  <2>2. Sound(r)
    BY <1>1, <1>2, AnswerSound
  <2> HIDE DEF r
  <2> QED BY <1>1, <1>3, <2>1, <2>2, OneHost
<1>7. CASE SpuriousConflict(s, m) /\ host' = [host EXCEPT ![h] = PauseProbing(s)]
  <2>1. Sound(PauseProbing(s))
    BY <1>2, <1>7, PauseSound
  <2> QED BY <1>1, <1>3, <1>7, <2>1, OneHost
<1>8. ProcessQuery(h, m) \/ ReceiveResponse(h, m)
  BY DEF mDNSCoreReceive
<1> QED BY <1>4, <1>5, <1>6, <1>7, <1>8, Zenon DEF ProcessQuery, ReceiveResponse

\* The environment.
LEMMA EnvironmentTyped ==
  ASSUME TypeOK, Query \/ Bridge \/ \E m \in net : Lose(m) PROVE TypeOK'
<1>1. host' = host /\ bridged' \in BOOLEAN /\ queried' \in BOOLEAN /\ faults' \in 0..MaxFaults
  <2>1. CASE Query
    BY <2>1 DEF TypeOK, Query
  <2>2. CASE Bridge
    BY <2>2 DEF TypeOK, Bridge
  <2>3. CASE \E m \in net : Lose(m)
    BY <2>3, Constants DEF TypeOK, Lose
  <2> QED BY <2>1, <2>2, <2>3
<1>2. net' \subseteq Packets
  <2>1. CASE Query
    <3>1. ASSUME NEW h \in Hosts
          PROVE  [kind |-> "query", from |-> ThirdParty, to |-> h, name |-> host[h].name,
                  mcast |-> TRUE, qu |-> FALSE, age |-> 0] \in Packets
      <4>1. host[h].name \in Nat /\ 0 \in 0..MaxDelay
        BY Fields, Constants DEF TypeOK
      <4> QED BY <4>1 DEF Packets
    <3> QED BY <2>1, <3>1 DEF Query, TypeOK
  <2>2. CASE Bridge \/ \E m \in net : Lose(m)
    BY <2>2 DEF Bridge, Lose, TypeOK
  <2> QED BY <2>1, <2>2
<1> QED BY <1>1, <1>2, NoHostChanges

\* Time passes.
LEMMA TickTyped ==
  ASSUME TypeOK, Tick PROVE TypeOK'
<1>1. \A h \in Hosts : Sound(Elapse(host[h]))
  BY HostsSound, ElapseSound
<1>2. host' \in [Hosts -> HostState] /\ \A h \in Hosts : Sound(host'[h])
  BY <1>1 DEF Tick, Sound
<1>3. net' \subseteq Packets
  <2> SUFFICES ASSUME NEW n \in net' PROVE n \in Packets
    OBVIOUS
  <2>1. PICK m \in net : n = [m EXCEPT !.age = @ + 1]
    BY DEF Tick
  <2>2. m \in Packets /\ m.age < MaxDelay /\ m.age \in 0..MaxDelay
    BY <2>1 DEF Tick, TypeOK, Packets
  <2>3. m.age + 1 \in 0..MaxDelay
    BY <2>2, Constants
  <2> QED BY <2>1, <2>2, <2>3 DEF Packets
<1> QED BY <1>2, <1>3 DEF TypeOK, Tick, Sound

-----------------------------------------------------------------------------
(* Types.                                                                  *)

\* Every value has its type at the start.
LEMMA InitTyped == Init => TypeOK
<1> SUFFICES ASSUME Init PROVE TypeOK
  OBVIOUS
<1>1. host \in [Hosts -> HostState] /\ \A h \in Hosts : Sound(host[h])
  BY NoHostSound DEF Init, Sound
<1>2. net \subseteq Packets /\ bridged \in BOOLEAN /\ queried \in BOOLEAN
  BY DEF Init
<1>3. faults \in 0..MaxFaults
  <2>1. ~bridged => MaxFaults > 0
    BY Constants DEF Init
  <2> QED BY <2>1, Constants DEF Init
<1> QED BY <1>1, <1>2, <1>3, HostsSound

\* Every step keeps the types.
LEMMA StepTyped == TypeOK /\ [Next]_vars => TypeOK'
<1> SUFFICES ASSUME TypeOK, [Next]_vars PROVE TypeOK'
  OBVIOUS
<1>1. CASE UNCHANGED vars
  BY <1>1 DEF TypeOK, vars
<1>2. CASE Next
  BY <1>2, ExecuteTyped, RegistrationTyped, ReceiveTyped, EnvironmentTyped, TickTyped DEF Next
<1> QED BY <1>1, <1>2

\* For every set of hosts, every delay and any number of faults, the records, their
\* counters and the packets have their types, and SendResponses never finds a record
\* marked for a unicast answer that is not to be answered.
THEOREM TypeCorrect == Spec => []TypeOK
  BY InitTyped, StepTyped, PTL DEF Spec

-----------------------------------------------------------------------------
(* Who holds a name, on a link without faults.                             *)

\* The platform can ask for unicast answers, and a packet arrives before the
\* next probe is due.
Punctual == CanReceiveUnicastOn5353 /\ MaxDelay <= ProbeInterval

\* A record that has been probed for at least once and is not verified, and
\* the time since the first probe.
Probing(s) == s.type = "Unique" /\ s.probes < 3
Elapsed(s) == 3 - s.probes - s.wait
Verified(s) == s.type = "Verified"

\* A record that has been registered and not verified, and one that is to be
\* answered for.
Fresh(s) ==
  /\ s.type = "Unique" => /\ s.probes <= 3 /\ s.announces > 0 /\ s.interval = 1
                          /\ s.probes < 3 => s.wait <= 1
  /\ s.immed.answer => Verified(s)

\* A packet from g to h about name n, a ticks old or older.
Carried(m, kind, g, h, n, a) ==
  m.kind = kind /\ m.from = g /\ m.to = h /\ m.name = n /\ m.age >= a
Carries(N, kind, g, h, n, a) == \E m \in N : Carried(m, kind, g, h, n, a)
CarriesQU(N, g, h, n, a) == \E m \in N : Carried(m, "probe", g, h, n, a) /\ m.qu

\* h, whose record is t, probes for the name that g holds with record s: it
\* hears of g before it has finished.
Warned(N, s, t, g, h) ==
  \/ CarriesQU(N, h, g, t.name, Elapsed(t))
  \/ s.immed.answer /\ s.immed.requester \in {h, Several} /\ Elapsed(t) <= 1
  \/ Carries(N, "response", g, h, t.name, Elapsed(t) - 1)
  \/ h < g /\ Carries(N, "probe", g, h, t.name, Elapsed(t) - 1)

\* g and h probe for the same name and h wins the tie-break: the probes of h
\* that were sent since the first one of g, and that g has not heard, are on
\* their way, and g is not far ahead.
Raced(N, s, t, g, h) ==
  /\ Elapsed(t) >= 2 => Elapsed(s) <= 2
  /\ Elapsed(t) >= 1 /\ Elapsed(s) >= 2
       => /\ Carries(N, "probe", h, g, s.name, 1)
          /\ Elapsed(t) = 1 => CarriesQU(N, h, g, s.name, 1)
  /\ t.wait = 1 /\ Elapsed(s) >= 1
       => /\ Carries(N, "probe", h, g, s.name, 0)
          /\ Elapsed(t) = 0 => CarriesQU(N, h, g, s.name, 0)

\* Two hosts that want the same name.
Rivals(N, s, t, g, h) ==
  g # h /\ s.name = t.name =>
    /\ ~(Verified(s) /\ Verified(t))
    /\ Verified(s) /\ Probing(t) => Warned(N, s, t, g, h)
    /\ Probing(s) /\ Probing(t) /\ g < h => Raced(N, s, t, g, h)

\* A packet is for another host, and whoever answered for a name holds it.
Truthful(m, H) ==
  /\ m.from # m.to
  /\ m.kind = "response" =>
       m.from \in Hosts /\ Verified(H[m.from]) /\ H[m.from].name = m.name

\* The invariant of a link without faults.
Peaceful(H, N) ==
  /\ \A h \in Hosts : Fresh(H[h])
  /\ \A m \in N : Truthful(m, H)
  /\ \A g, h \in Hosts : Rivals(N, H[g], H[h], g, h)

UniqueInv == TypeOK /\ (faults = 0 => bridged /\ Peaceful(host, net))

-----------------------------------------------------------------------------
(* Two hosts.                                                              *)

\* A record that is neither verified nor probed for yet does not matter.
LEMMA IdleRival ==
  ASSUME NEW N, NEW s, NEW t, NEW g, NEW h, (~Verified(s) /\ ~Probing(s)) \/ (~Verified(t) /\ ~Probing(t))
  PROVE  Rivals(N, s, t, g, h)
  BY DEF Rivals

\* More packets carry what fewer carry.
LEMMA MoreCarried ==
  ASSUME NEW N, NEW M, N \subseteq M
  PROVE  /\ \A k, g, h, n, a : Carries(N, k, g, h, n, a) => Carries(M, k, g, h, n, a)
         /\ \A g, h, n, a : CarriesQU(N, g, h, n, a) => CarriesQU(M, g, h, n, a)
  BY DEF Carries, CarriesQU

\* More packets and the same records.
LEMMA MorePackets ==
  ASSUME NEW N, NEW M, N \subseteq M, NEW s, NEW t, NEW g \in Hosts, NEW h \in Hosts, Rivals(N, s, t, g, h)
  PROVE  Rivals(M, s, t, g, h)
<1>1. Warned(N, s, t, g, h) => Warned(M, s, t, g, h)
  BY MoreCarried DEF Warned
<1>2. Raced(N, s, t, g, h) => Raced(M, s, t, g, h)
  BY MoreCarried DEF Raced
<1> QED BY <1>1, <1>2 DEF Rivals

\* A packet is taken that is not between the two.
LEMMA OtherPacket ==
  ASSUME NEW N, NEW m, NEW s, NEW t, NEW g \in Hosts, NEW h \in Hosts, Rivals(N, s, t, g, h),
         {m.from, m.to} # {g, h} \/ m.name # s.name \/ m.kind = "query"
  PROVE  Rivals(N \ {m}, s, t, g, h)
<1> SUFFICES ASSUME g # h, s.name = t.name PROVE Rivals(N \ {m}, s, t, g, h)
  BY DEF Rivals
<1>1. /\ \A k, a : k # "query" => (Carries(N, k, g, h, s.name, a) => Carries(N \ {m}, k, g, h, s.name, a))
      /\ \A k, a : k # "query" => (Carries(N, k, h, g, s.name, a) => Carries(N \ {m}, k, h, g, s.name, a))
      /\ \A a : CarriesQU(N, g, h, s.name, a) => CarriesQU(N \ {m}, g, h, s.name, a)
      /\ \A a : CarriesQU(N, h, g, s.name, a) => CarriesQU(N \ {m}, h, g, s.name, a)
  BY DEF Carries, CarriesQU, Carried
<1>2. Warned(N, s, t, g, h) => Warned(N \ {m}, s, t, g, h)
  BY <1>1 DEF Warned
<1>3. Raced(N, s, t, g, h) => Raced(N \ {m}, s, t, g, h)
  BY <1>1 DEF Raced
<1> QED BY <1>2, <1>3 DEF Rivals

\* Both directions.
Both(N, s, t, g, h) == Rivals(N, s, t, g, h) /\ Rivals(N, t, s, h, g)

\* The numbers of a record that is probed for.
LEMMA Numbers ==
  ASSUME NEW s \in HostState, Fresh(s)
  PROVE  /\ s.probes \in 0..4 /\ s.wait \in Nat /\ s.name \in Nat
         /\ s.type = "Unique" => s.probes \in 0..3
         /\ Probing(s) => s.probes \in 0..2 /\ s.wait \in 0..1 /\ Elapsed(s) \in 0..3
         /\ Elapsed(s) \in Int
  BY Fields DEF Fresh, Probing, Elapsed

\* g sends a probe, which reaches h: the first one asks for a unicast answer.
LEMMA ProbeSent ==
  ASSUME NEW N, NEW M, N \subseteq M, M \subseteq Packets,
         NEW s \in HostState, NEW t \in HostState, NEW r \in HostState,
         NEW g \in Hosts, NEW h \in Hosts, g # h, Fresh(s), Fresh(t),
         s.type = "Unique", s.wait = 0, s.probes > 0,
         r.name = s.name, r.type = "Unique", r.probes = s.probes - 1, r.wait = 1,
         Carries(M, "probe", g, h, s.name, 0), s.probes = 3 => CarriesQU(M, g, h, s.name, 0),
         Both(N, s, t, g, h)
  PROVE  Both(M, r, t, g, h)
<1>1. s.probes \in 1..3 /\ Elapsed(t) \in Int /\ (Probing(t) => Elapsed(t) \in 0..3)
  BY Numbers
<1>2. Elapsed(r) = 2 - r.probes /\ r.probes \in 0..2 /\ Elapsed(s) = 3 - s.probes
  BY <1>1 DEF Elapsed
<1>3. Both(M, s, t, g, h)
  BY MorePackets DEF Both
<1> SUFFICES ASSUME s.name = t.name PROVE Both(M, r, t, g, h)
  BY DEF Both, Rivals
<1>4. CASE Verified(t)
  <2>1. Warned(M, t, r, h, g)
    <3>1. CASE s.probes = 3
      BY <1>2, <3>1 DEF Warned
    <3>2. CASE s.probes # 3
      <4>1. Warned(M, t, s, h, g)
        BY <1>1, <1>3, <1>4, <3>2 DEF Both, Rivals, Probing
      <4>2. Elapsed(r) = Elapsed(s)
        BY <1>1, <1>2
      <4> QED BY <4>1, <4>2 DEF Warned
    <3> QED BY <3>1, <3>2
  <2>2. ~Verified(r) /\ ~Probing(t)
    BY <1>4 DEF Verified, Probing
  <2> QED BY <2>1, <2>2, <1>4 DEF Both, Rivals
<1>5. CASE Probing(t)
  <2>1. ~Verified(r) /\ ~Verified(t)
    BY <1>5 DEF Verified, Probing
  <2>2. g < h => Raced(M, r, t, g, h)
    <3>1. CASE s.probes = 3
      BY <1>2, <3>1 DEF Raced
    <3>2. CASE s.probes # 3
      <4>1. g < h => Raced(M, s, t, g, h)
        BY <1>1, <1>3, <1>5, <3>2 DEF Both, Rivals, Probing
      <4>2. Elapsed(r) = Elapsed(s)
        BY <1>1, <1>2
      <4> QED BY <4>1, <4>2 DEF Raced
    <3> QED BY <3>1, <3>2
  <2>3. h < g => Raced(M, t, r, h, g)
    <3>1. CASE s.probes = 3
      BY <1>2, <3>1 DEF Raced
    <3>2. CASE s.probes # 3
      <4>1. h < g => Raced(M, t, s, h, g)
        BY <1>1, <1>3, <1>5, <3>2 DEF Both, Rivals, Probing
      <4>2. Elapsed(r) = Elapsed(s) /\ Elapsed(r) # 0 /\ Elapsed(r) \in 1..2
        BY <1>1, <1>2, <3>2
      <4> QED BY <1>1, <4>1, <4>2 DEF Raced
    <3> QED BY <3>1, <3>2
  <2> QED BY <2>1, <2>2, <2>3 DEF Both, Rivals
<1> QED BY <1>4, <1>5, IdleRival DEF Both

\* The ages on a punctual link.
LEMMA Ages ==
  ASSUME Punctual, NEW N, N \subseteq Packets
  PROVE  /\ \A m \in N : m.age \in 0..1
         /\ \A k, g, h, n : \A a \in Int : Carries(N, k, g, h, n, a) => a <= 1
         /\ \A g, h, n : \A a \in Int : CarriesQU(N, g, h, n, a) => a <= 1
<1>1. \A m \in N : m.age \in 0..1
  BY Constants DEF Packets, Punctual, ProbeInterval
<1> QED BY <1>1 DEF Carries, CarriesQU, Carried

\* So a warned host has not finished.
LEMMA WarnedInTime ==
  ASSUME Punctual, NEW N, N \subseteq Packets, NEW s, NEW t, Elapsed(t) \in Int, NEW g, NEW h,
         Warned(N, s, t, g, h)
  PROVE  Elapsed(t) <= 2
<1>1. Elapsed(t) - 1 \in Int
  OBVIOUS
<1> QED BY <1>1, Ages DEF Warned

\* Nobody has answered g, which holds its name now and announces it.
LEMMA NameVerified ==
  ASSUME Punctual, NEW N, NEW M, N \subseteq M, M \subseteq Packets,
         NEW s \in HostState, NEW t \in HostState, NEW r,
         NEW g \in Hosts, NEW h \in Hosts, g # h, Fresh(s), Fresh(t),
         s.type = "Unique", s.wait = 0, s.probes = 0, r.name = s.name, Verified(r),
         Carries(M, "response", g, h, s.name, 0), Both(N, s, t, g, h)
  PROVE  Both(M, r, t, g, h)
<1>1. Elapsed(s) = 3 /\ Probing(s) /\ Elapsed(t) \in Int /\ (Probing(t) => Elapsed(t) \in 0..3)
  BY Numbers DEF Elapsed, Probing
<1> SUFFICES ASSUME s.name = t.name PROVE Both(M, r, t, g, h)
  BY DEF Both, Rivals
<1>2. ~Verified(t)
  <2>1. N \subseteq Packets
    OBVIOUS
  <2>2. Verified(t) => Warned(N, t, s, h, g)
    BY <1>1 DEF Both, Rivals
  <2> QED BY <1>1, <2>1, <2>2, WarnedInTime
<1>3. CASE Probing(t)
  <2>1. Elapsed(t) <= 1 => Carries(M, "response", g, h, t.name, Elapsed(t) - 1)
    <3> SUFFICES ASSUME Elapsed(t) <= 1 PROVE Carries(M, "response", g, h, t.name, Elapsed(t) - 1)
      OBVIOUS
    <3>1. PICK m \in M : Carried(m, "response", g, h, s.name, 0)
      BY DEF Carries
    <3>2. m.age \in Int /\ m.age >= Elapsed(t) - 1
      BY <1>1, <3>1 DEF Packets, Carried
    <3> QED BY <3>1, <3>2 DEF Carries, Carried
  <2>2. CASE g < h
    <3>1. Raced(N, s, t, g, h)
      BY <1>1, <1>3, <2>2 DEF Both, Rivals
    <3>2. Elapsed(t) <= 1
      BY <1>1, <1>3, <3>1 DEF Raced
    <3> QED BY <1>2, <2>1, <3>2 DEF Both, Rivals, Warned, Verified, Probing
  <2>3. CASE h < g
    <3>1. Raced(N, t, s, h, g)
      BY <1>1, <1>3, <2>3 DEF Both, Rivals
    <3>2. Elapsed(t) <= 2
      BY <1>1, <3>1 DEF Raced
    <3>3. Elapsed(t) = 2 => Carries(M, "probe", g, h, t.name, Elapsed(t) - 1)
      BY <1>1, <3>1, MoreCarried DEF Raced
    <3>4. Elapsed(t) <= 1 \/ Elapsed(t) = 2
      BY <1>1, <1>3, <3>2
    <3>5. Warned(M, r, t, g, h)
      BY <2>1, <2>3, <3>3, <3>4 DEF Warned
    <3> QED BY <1>2, <3>5 DEF Both, Rivals, Verified, Probing
  <2>4. g \in Int /\ h \in Int
    BY ProbeAssumption DEF ProbeAssumption
  <2> QED BY <2>2, <2>3, <2>4
<1> QED BY <1>2, <1>3, IdleRival DEF Both

\* g, which holds its name, sends its answers.
LEMMA AnswersSent ==
  ASSUME Punctual, NEW N, NEW M, N \subseteq M, M \subseteq Packets,
         NEW s \in HostState, NEW t \in HostState, NEW r,
         NEW g \in Hosts, NEW h \in Hosts, g # h, Fresh(t),
         Verified(s), r.name = s.name, Verified(r),
         s.immed.answer /\ s.immed.requester \in {h, Several} => Carries(M, "response", g, h, s.name, 0),
         Both(N, s, t, g, h)
  PROVE  Both(M, r, t, g, h)
<1> SUFFICES ASSUME s.name = t.name PROVE Both(M, r, t, g, h)
  BY DEF Both, Rivals
<1>1. ~Verified(t) /\ ~Probing(r)
  BY DEF Both, Rivals, Verified, Probing
<1>2. CASE Probing(t)
  <2>1. Warned(N, s, t, g, h) /\ Elapsed(t) \in 0..3
    BY <1>2, Numbers DEF Both, Rivals
  <2>2. CASE s.immed.answer /\ s.immed.requester \in {h, Several} /\ Elapsed(t) <= 1
    <3>1. PICK m \in M : Carried(m, "response", g, h, s.name, 0)
      BY <2>2 DEF Carries
    <3>2. m.age \in Int /\ m.age >= Elapsed(t) - 1
      BY <2>1, <2>2, <3>1 DEF Packets, Carried
    <3>3. Carries(M, "response", g, h, t.name, Elapsed(t) - 1)
      BY <3>1, <3>2 DEF Carries, Carried
    <3> QED BY <1>1, <3>3 DEF Both, Rivals, Warned
  <2>3. CASE ~(s.immed.answer /\ s.immed.requester \in {h, Several} /\ Elapsed(t) <= 1)
    <3>1. Warned(M, r, t, g, h)
      BY <2>1, <2>3, MoreCarried DEF Warned
    <3> QED BY <1>1, <3>1 DEF Both, Rivals
  <2> QED BY <2>2, <2>3
<1> QED BY <1>1, <1>2, IdleRival DEF Both

\* g, which holds its name, is to answer a question m.
LEMMA AnswerMarked ==
  ASSUME Punctual, NEW N, N \subseteq Packets, NEW m \in N,
         NEW s \in HostState, NEW t \in HostState, NEW r,
         NEW g \in Hosts, NEW h \in Hosts, g # h, Fresh(t), Verified(s), m.to = g,
         m.kind # "response",
         r.name = s.name, Verified(r), r.immed = Mark(s, m), Both(N, s, t, g, h)
  PROVE  Both(N \ {m}, r, t, g, h)
<1> SUFFICES ASSUME s.name = t.name PROVE Both(N \ {m}, r, t, g, h)
  BY DEF Both, Rivals
<1>1. ~Verified(t) /\ ~Probing(r)
  BY DEF Both, Rivals, Verified, Probing
<1>2. CASE Probing(t)
  <2>1. Warned(N, s, t, g, h) /\ Elapsed(t) \in 0..3
    BY <1>2, Numbers DEF Both, Rivals
  <2>2. r.immed.answer /\ r.immed.requester = IF s.immed.requester \in {Nobody, m.from} THEN m.from ELSE Several
    BY DEF Mark
  <2>3. m.from \in Hosts \cup {ThirdParty} /\ \A x \in Hosts : x \in Nat \ {0}
    BY ProbeAssumption DEF ProbeAssumption, Packets
  <2>4. CASE m.from = h /\ Carried(m, "probe", h, g, t.name, Elapsed(t))
    <3>1. Elapsed(t) <= 1
      BY <2>1, <2>4, Ages DEF Carried
    <3>2. r.immed.requester \in {h, Several}
      BY <2>2, <2>4
    <3> QED BY <1>1, <2>2, <3>1, <3>2 DEF Both, Rivals, Warned
  <2>5. CASE s.immed.answer /\ s.immed.requester \in {h, Several} /\ Elapsed(t) <= 1
    <3>1. r.immed.requester \in {h, Several}
      BY <2>2, <2>3, <2>5 DEF Nobody, Several, ThirdParty
    <3> QED BY <1>1, <2>2, <2>5, <3>1 DEF Both, Rivals, Warned
  <2>6. CASE /\ ~(m.from = h /\ Carried(m, "probe", h, g, t.name, Elapsed(t)))
             /\ ~(s.immed.answer /\ s.immed.requester \in {h, Several} /\ Elapsed(t) <= 1)
    <3>1. CarriesQU(N, h, g, t.name, Elapsed(t)) => CarriesQU(N \ {m}, h, g, t.name, Elapsed(t))
      BY <2>6 DEF CarriesQU, Carried
    <3>2. \A k, a : Carries(N, k, g, h, t.name, a) => Carries(N \ {m}, k, g, h, t.name, a)
      BY DEF Carries, Carried
    <3>3. Warned(N \ {m}, r, t, g, h)
      BY <2>1, <2>6, <3>1, <3>2 DEF Warned
    <3> QED BY <1>1, <3>3 DEF Both, Rivals
  <2> QED BY <2>4, <2>5, <2>6
<1> QED BY <1>1, <1>2, IdleRival DEF Both

\* g has no use for a packet m: a probe that neither beats its own nor asks for
\* its answer, or an answer that is no conflict.
LEMMA PacketIgnored ==
  ASSUME NEW N, NEW m \in N, m.from # m.to,
         NEW s, NEW t, NEW g \in Hosts, NEW h \in Hosts, g # h, m.to = g, m.name = s.name,
         m.kind = "probe" => /\ ~(s.type = "Unique" /\ g < m.from)
                             /\ ~(Verified(s) /\ m.qu),
         m.kind = "response" => ~Probing(s),
         Both(N, s, t, g, h)
  PROVE  Both(N \ {m}, s, t, g, h)
<1> SUFFICES ASSUME s.name = t.name PROVE Both(N \ {m}, s, t, g, h)
  BY DEF Both, Rivals
<1>1. /\ \A k, n, a : Carries(N, k, g, h, n, a) => Carries(N \ {m}, k, g, h, n, a)
      /\ \A n, a : CarriesQU(N, g, h, n, a) => CarriesQU(N \ {m}, g, h, n, a)
  BY DEF Carries, CarriesQU, Carried
<1>2. Probing(s) => s.type = "Unique"
  BY DEF Probing
<1>3. Verified(s) => \A n, a : CarriesQU(N, h, g, n, a) => CarriesQU(N \ {m}, h, g, n, a)
  BY DEF CarriesQU, Carried
<1>4. Probing(s) => \A n, a : Carries(N, "response", h, g, n, a) => Carries(N \ {m}, "response", h, g, n, a)
  BY DEF Carries, Carried
<1>5. Probing(s) /\ g < h => /\ \A n, a : Carries(N, "probe", h, g, n, a) => Carries(N \ {m}, "probe", h, g, n, a)
                             /\ \A n, a : CarriesQU(N, h, g, n, a) => CarriesQU(N \ {m}, h, g, n, a)
  BY <1>2 DEF Carries, CarriesQU, Carried
<1>6. Verified(s) /\ Warned(N, s, t, g, h) => Warned(N \ {m}, s, t, g, h)
  BY <1>1, <1>3 DEF Warned
<1>7. Probing(s) /\ Warned(N, t, s, h, g) => Warned(N \ {m}, t, s, h, g)
  BY <1>1, <1>4, <1>5 DEF Warned
<1>8. Probing(s) /\ g < h /\ Raced(N, s, t, g, h) => Raced(N \ {m}, s, t, g, h)
  BY <1>5 DEF Raced
<1>9. Raced(N, t, s, h, g) => Raced(N \ {m}, t, s, h, g)
  BY <1>1 DEF Raced
<1> QED BY <1>6, <1>7, <1>8, <1>9 DEF Both, Rivals

\* A tick older.
Aged(m) == [m EXCEPT !.age = @ + 1]

\* What is on its way gets older.
LEMMA CarriedOn ==
  ASSUME NEW N, N \subseteq Packets
  PROVE  /\ \A k, g, h, n : \A a \in Int : Carries(N, k, g, h, n, a) => Carries({Aged(m) : m \in N}, k, g, h, n, a + 1)
         /\ \A g, h, n : \A a \in Int : CarriesQU(N, g, h, n, a) => CarriesQU({Aged(m) : m \in N}, g, h, n, a + 1)
<1>1. ASSUME NEW m \in N
      PROVE  /\ Aged(m).kind = m.kind /\ Aged(m).from = m.from /\ Aged(m).to = m.to
             /\ Aged(m).name = m.name /\ Aged(m).qu = m.qu /\ Aged(m).age = m.age + 1
             /\ m.age \in Int
  BY Constants DEF Aged, Packets
<1>2. \A m \in N : \A k, g, h, n : \A a \in Int : Carried(m, k, g, h, n, a) => Carried(Aged(m), k, g, h, n, a + 1)
  BY <1>1 DEF Carried
<1> QED BY <1>1, <1>2 DEF Carries, CarriesQU

\* A tick passes, with nothing due and no packet late.
LEMMA TimePasses ==
  ASSUME Punctual, NEW N, N \subseteq Packets, \A m \in N : m.age < MaxDelay,
         NEW s \in HostState, NEW t \in HostState, NEW u, NEW v,
         NEW g \in Hosts, NEW h \in Hosts, g # h, Fresh(s), Fresh(t),
         ~(s.type = "Unique" /\ s.wait = 0), ~s.immed.answer,
         ~(t.type = "Unique" /\ t.wait = 0), ~t.immed.answer,
         u.name = s.name, u.type = s.type, u.probes = s.probes, u.wait = Less(s.wait),
         v.name = t.name, v.type = t.type, v.probes = t.probes, v.wait = Less(t.wait),
         Both(N, s, t, g, h)
  PROVE  Both({Aged(m) : m \in N}, u, v, g, h)
<1> DEFINE M == {Aged(m) : m \in N}
<1> SUFFICES ASSUME s.name = t.name PROVE Both(M, u, v, g, h)
  BY DEF Both, Rivals
<1>1. \A m \in N : m.age = 0
  <2>1. MaxDelay <= 1 /\ MaxDelay \in Nat
    BY Constants DEF Punctual, ProbeInterval
  <2> QED BY <2>1 DEF Packets
<1>2. /\ \A k, x, y, n : \A a \in Int : Carries(N, k, x, y, n, a) => a <= 0
      /\ \A x, y, n : \A a \in Int : CarriesQU(N, x, y, n, a) => a <= 0
  BY <1>1 DEF Carries, CarriesQU, Carried
<1>3. /\ \A k, x, y, n : \A a \in Int : Carries(N, k, x, y, n, a) => Carries(M, k, x, y, n, a + 1)
      /\ \A x, y, n : \A a \in Int : CarriesQU(N, x, y, n, a) => CarriesQU(M, x, y, n, a + 1)
  BY CarriedOn
<1> HIDE DEF M
<1>4. /\ (Probing(u) <=> Probing(s)) /\ (Probing(v) <=> Probing(t))
      /\ (Verified(u) <=> Verified(s)) /\ (Verified(v) <=> Verified(t))
  BY DEF Probing, Verified
<1>5. Probing(s) => s.wait = 1 /\ u.wait = 0 /\ Elapsed(u) = Elapsed(s) + 1 /\ Elapsed(s) \in 0..2
  BY Numbers DEF Probing, Elapsed, Less
<1>6. Probing(t) => t.wait = 1 /\ v.wait = 0 /\ Elapsed(v) = Elapsed(t) + 1 /\ Elapsed(t) \in 0..2
  BY Numbers DEF Probing, Elapsed, Less
<1>7. Verified(s) /\ Probing(t) => Warned(M, u, v, g, h)
  <2> SUFFICES ASSUME Verified(s), Probing(t) PROVE Warned(M, u, v, g, h)
    OBVIOUS
  <2>1. Warned(N, s, t, g, h)
    BY DEF Both, Rivals
  <2>2. Elapsed(t) \in Int /\ Elapsed(t) - 1 \in Int /\ Elapsed(v) = Elapsed(t) + 1 /\ Elapsed(v) - 1 = (Elapsed(t) - 1) + 1
    BY <1>6
  <2> QED BY <1>3, <2>1, <2>2 DEF Warned
<1>8. Verified(t) /\ Probing(s) => Warned(M, v, u, h, g)
  <2> SUFFICES ASSUME Verified(t), Probing(s) PROVE Warned(M, v, u, h, g)
    OBVIOUS
  <2>1. Warned(N, t, s, h, g)
    BY DEF Both, Rivals
  <2>2. Elapsed(s) \in Int /\ Elapsed(s) - 1 \in Int /\ Elapsed(u) = Elapsed(s) + 1 /\ Elapsed(u) - 1 = (Elapsed(s) - 1) + 1
    BY <1>5
  <2> QED BY <1>3, <2>1, <2>2 DEF Warned
<1>9. Probing(s) /\ Probing(t) /\ g < h => Raced(M, u, v, g, h)
  <2> SUFFICES ASSUME Probing(s), Probing(t), g < h PROVE Raced(M, u, v, g, h)
    OBVIOUS
  <2>1. Raced(N, s, t, g, h)
    BY DEF Both, Rivals
  <2> QED BY <1>2, <1>3, <1>5, <1>6, <2>1 DEF Raced
<1>10. Probing(s) /\ Probing(t) /\ h < g => Raced(M, v, u, h, g)
  <2> SUFFICES ASSUME Probing(s), Probing(t), h < g PROVE Raced(M, v, u, h, g)
    OBVIOUS
  <2>1. Raced(N, t, s, h, g)
    BY DEF Both, Rivals
  <2> QED BY <1>2, <1>3, <1>5, <1>6, <2>1 DEF Raced
<1> QED BY <1>4, <1>7, <1>8, <1>9, <1>10 DEF Both, Rivals

-----------------------------------------------------------------------------
(* The records and the packets of a step.                                  *)

\* A record that is to be probed for, from the first probe on.
Begun(r) == r.type = "Unique" /\ r.probes = 3 /\ r.announces > 0 /\ r.interval = 1 /\ ~r.immed.answer

\* Nobody minds it.
LEMMA BegunIs ==
  ASSUME NEW r, Begun(r) PROVE Fresh(r) /\ ~Verified(r) /\ ~Probing(r)
  BY DEF Begun, Fresh, Verified, Probing

\* InitializeLastAPTime sets the times only.
LEMMA InitializedIs ==
  ASSUME NEW s \in HostState, NEW r \in InitializeLastAPTime(s)
  PROVE  /\ r.name = s.name /\ r.type = s.type /\ r.probes = s.probes /\ r.announces = s.announces
         /\ r.immed = s.immed /\ r.interval = 1
<1>1. PICK d : r = [s EXCEPT !.conflicts = 0, !.suppress = d, !.wait = d,
                             !.interval = ProbeInterval, !.sinceMC = 0]
  BY DEF InitializeLastAPTime
<1>2. PICK k, i, c : /\ i = 1
                     /\ r = [s EXCEPT !.conflicts = k, !.suppress = d, !.wait = d,
                                      !.interval = i, !.sinceMC = c]
  BY <1>1 DEF ProbeInterval
<1> QED BY <1>2 DEF HostState

\* A record that is registered, whether or not its name was lost before.
LEMMA RegisterBegins ==
  ASSUME NEW s, Sound(s), NEW n \in Nat, NEW r \in mDNS_Register(n, s)
  PROVE  Begun(r) /\ r.name = n
<1> DEFINE t == NewRecord(n, s)
<1>1. DefaultProbeCountForTypeUnique = 3 /\ ~Unmarked.answer
  BY DEF DefaultProbeCountForTypeUnique, Unmarked
<1>2. /\ t \in HostState /\ t.name = n /\ t.type = "Unique" /\ t.probes = DefaultProbeCountForTypeUnique
      /\ t.announces = InitialAnnounceCount /\ t.immed = Unmarked
  <2> DEFINE p == DefaultProbeCountForTypeUnique
  <2>1. p \in 0..DefaultProbeCountForTypeUnique + 1 /\ InitialAnnounceCount \in 0..InitialAnnounceCount
    BY Constants DEF DefaultProbeCountForTypeUnique
  <2>2. t = [s EXCEPT !.name = n, !.type = "Unique", !.probes = p,
                      !.announces = InitialAnnounceCount, !.immed = Unmarked]
    BY DEF NewRecord
  <2> HIDE DEF p
  <2>3. Unmarked \in Marks
    BY UnmarkedIs
  <2>4. t \in HostState
    BY <2>1, <2>2, <2>3 DEF Sound, HostState, Marks, Requesters
  <2>5. t.name = n /\ t.type = "Unique" /\ t.probes = p /\ t.announces = InitialAnnounceCount /\ t.immed = Unmarked
    BY <2>2 DEF Sound, HostState
  <2> QED BY <2>4, <2>5 DEF p
<1>3. r \in InitializeLastAPTime(t)
  BY DEF mDNS_Register
<1> HIDE DEF t
<1> QED BY <1>1, <1>2, <1>3, InitializedIs, Constants DEF Begun

\* mDNS_Deregister_internal: the next name is registered.
LEMMA DeregisterBegins ==
  ASSUME NEW s, Sound(s), NEW r \in DeregisterConflict(s)
  PROVE  Begun(r)
<1> DEFINE t == RecordProbeFailure(s)
<1>1. Sound(t)
  BY FailureSound
<1>2. r \in mDNS_Register(t.name + 1, t)
  BY DEF DeregisterConflict, mDNS_HostNameCallback
<1> HIDE DEF t
<1>3. t.name + 1 \in Nat
  BY <1>1, Fields DEF Sound
<1> QED BY <1>1, <1>2, <1>3, RegisterBegins

\* A tie-break is lost.
LEMMA ResolveBegins ==
  ASSUME NEW s, Sound(s), s.type = "Unique", ~s.immed.answer, NEW r \in ResolveSimultaneousProbe(s)
  PROVE  Begun(r)
<1> DEFINE p == DefaultProbeCountForTypeUnique
           t == [s EXCEPT !.suppress = OneSecond, !.probes = p, !.announces = InitialAnnounceCount]
<1>1. p = 3 /\ p \in 0..4 /\ OneSecond \in Nat /\ InitialAnnounceCount \in 0..InitialAnnounceCount
  BY Constants DEF DefaultProbeCountForTypeUnique, OneSecond
<1>2. r \in InitializeLastAPTime(t)
  BY DEF ResolveSimultaneousProbe
<1>3. Sound(t)
  BY <1>1, ReprobeSound
<1> HIDE DEF p
<1>4. t.type = s.type /\ t.immed = s.immed /\ t.probes = p /\ t.announces = InitialAnnounceCount
  BY DEF Sound, HostState
<1> HIDE DEF t
<1> QED BY <1>1, <1>2, <1>3, <1>4, InitializedIs, Constants DEF Begun, Sound

\* A conflict that may be spurious.
LEMMA PauseBegins ==
  ASSUME NEW s, Sound(s), s.type = "Unique", Fresh(s)
  PROVE  Begun(PauseProbing(s))
<1> DEFINE p == DefaultProbeCountForTypeUnique
           c == s.conflicts + 1
           w == OneSecond
<1>1. p = 3
  BY DEF DefaultProbeCountForTypeUnique
<1>2. PauseProbing(s) = [s EXCEPT !.conflicts = c, !.probes = p, !.wait = w]
  BY DEF PauseProbing
<1> HIDE DEF p, c, w
<1>3. /\ PauseProbing(s).type = s.type /\ PauseProbing(s).probes = p
      /\ PauseProbing(s).announces = s.announces /\ PauseProbing(s).interval = s.interval
      /\ PauseProbing(s).immed = s.immed
  BY <1>2 DEF Sound, HostState
<1> QED BY <1>1, <1>3 DEF Begun, Fresh, Verified

\* SendResponses leaves the name, the type and the probes alone.
LEMMA ResponsesSentIs ==
  ASSUME NEW s, Sound(s)
  PROVE  LET r == SendResponses(s)
         IN  /\ r.name = s.name /\ r.type = s.type /\ r.probes = s.probes /\ ~r.immed.answer
             /\ ~AnswersByMulticast(s)
                  => r.wait = s.wait /\ r.interval = s.interval /\ r.announces = s.announces
<1> DEFINE now == AnswersByMulticast(s) /\ TimeToAnnounceThisRecord(s, s.interval \div 2)
           k == s.announces - 1
           i == s.interval * 2
           a == IF now THEN [s EXCEPT !.announces = k, !.interval = i, !.wait = i] ELSE s
           c == IF AnswersByMulticast(s) THEN 0 ELSE a.sinceMC
           r == SendResponses(s)
<1>1. r = [[a EXCEPT !.immed = Unmarked] EXCEPT !.sinceMC = c]
  BY DEF SendResponses
<1>2. ~AnswersByMulticast(s) => a = s
  OBVIOUS
<1> HIDE DEF k, i, c, r, now
<1>3. /\ a.name = s.name /\ a.type = s.type /\ a.probes = s.probes
      /\ DOMAIN a = DOMAIN s
  BY DEF Sound, HostState
<1>4. DOMAIN s = DOMAIN [name |-> 1, type |-> 1, probes |-> 1, announces |-> 1, wait |-> 1, interval |-> 1,
                conflicts |-> 1, immed |-> 1, sinceMC |-> 1, suppress |-> 1, fails |-> 1, quiet |-> 1]
  BY DEF Sound, HostState
<1> HIDE DEF a
<1>5. /\ r.name = a.name /\ r.type = a.type /\ r.probes = a.probes /\ r.immed = Unmarked
      /\ r.wait = a.wait /\ r.interval = a.interval /\ r.announces = a.announces
  BY <1>1, <1>3, <1>4
<1>6. ~Unmarked.answer
  BY DEF Unmarked
<1> QED BY <1>2, <1>3, <1>5, <1>6 DEF r

\* On one link everybody else hears what g sends, and hears the truth.
LEMMA MulticastHeard ==
  ASSUME bridged, NEW g \in Hosts, NEW k, NEW n, NEW b \in BOOLEAN, NEW h \in Hosts, g # h
  PROVE  /\ Carries(Multicast(g, k, n, b), k, g, h, n, 0)
         /\ b /\ k = "probe" => CarriesQU(Multicast(g, k, n, b), g, h, n, 0)
<1> DEFINE m == [kind |-> k, from |-> g, to |-> h, name |-> n, mcast |-> TRUE, qu |-> b, age |-> 0]
<1>1. m \in Multicast(g, k, n, b)
  BY DEF Multicast, Audible
<1>2. Carried(m, k, g, h, n, 0) /\ m.qu = b
  BY DEF Carried
<1> HIDE DEF m
<1> QED BY <1>1, <1>2 DEF Carries, CarriesQU

\* A unicast answer reaches whom it is for.
LEMMA UnicastHeard ==
  ASSUME bridged, NEW g \in Hosts, NEW n, NEW h \in Hosts, g # h
  PROVE  Carries(Unicast(g, h, n), "response", g, h, n, 0)
<1> DEFINE m == [kind |-> "response", from |-> g, to |-> h, name |-> n, mcast |-> FALSE,
                 qu |-> FALSE, age |-> 0]
<1>1. m \in Unicast(g, h, n)
  BY DEF Unicast, Audible
<1>2. Carried(m, "response", g, h, n, 0)
  BY DEF Carried
<1> HIDE DEF m
<1> QED BY <1>1, <1>2 DEF Carries

\* Who sent what.
LEMMA MulticastBy ==
  ASSUME NEW g \in Hosts, NEW k, NEW n, NEW b \in BOOLEAN, NEW m \in Multicast(g, k, n, b)
  PROVE  m.kind = k /\ m.from = g /\ m.to # g /\ m.name = n
<1>1. Audible(g) \subseteq Hosts \ {g}
  BY DEF Audible
<1> QED BY <1>1 DEF Multicast

\* The same for a unicast answer.
LEMMA UnicastBy ==
  ASSUME NEW g \in Hosts, NEW t, NEW n, NEW m \in Unicast(g, t, n)
  PROVE  m.kind = "response" /\ m.from = g /\ m.to # g /\ m.name = n
<1>1. Audible(g) \subseteq Hosts \ {g}
  BY DEF Audible
<1> QED BY <1>1 DEF Unicast

-----------------------------------------------------------------------------
(* The steps, without faults.                                              *)

\* One host changes, and the packets between the others stay.
LEMMA OneRival ==
  ASSUME NEW H, NEW N, Peaceful(H, N), NEW M, NEW g \in Hosts, NEW r, DOMAIN H = Hosts,
         Fresh(r), \A m \in M : Truthful(m, [H EXCEPT ![g] = r]),
         \A h \in Hosts \ {g} : Both(M, r, H[h], g, h),
         \A x, y \in Hosts \ {g} : Rivals(M, H[x], H[y], x, y)
  PROVE  Peaceful([H EXCEPT ![g] = r], M)
<1> DEFINE K == [H EXCEPT ![g] = r]
<1>1. K[g] = r /\ \A h \in Hosts \ {g} : K[h] = H[h]
  OBVIOUS
<1> HIDE DEF K
<1>2. \A h \in Hosts : Fresh(K[h])
  BY <1>1 DEF Peaceful
<1>3. \A x, y \in Hosts : Rivals(M, K[x], K[y], x, y)
  <2> SUFFICES ASSUME NEW x \in Hosts, NEW y \in Hosts, x # y PROVE Rivals(M, K[x], K[y], x, y)
    BY DEF Rivals
  <2> QED BY <1>1 DEF Both
<1> QED BY <1>2, <1>3 DEF Peaceful, K

\* A host that holds no name yet begins to probe, with or without a packet.
LEMMA BeginsAgain ==
  ASSUME NEW H, NEW N, Peaceful(H, N), NEW g \in Hosts, NEW r, DOMAIN H = Hosts,
         ~Verified(H[g]), Begun(r), NEW m, m.to = g
  PROVE  Peaceful([H EXCEPT ![g] = r], N) /\ Peaceful([H EXCEPT ![g] = r], N \ {m})
<1> DEFINE K == [H EXCEPT ![g] = r]
<1>1. Fresh(r) /\ ~Verified(r) /\ ~Probing(r)
  BY BegunIs
<1>2. \A p \in N : Truthful(p, K)
  <2>1. \A h \in Hosts \ {g} : K[h] = H[h]
    OBVIOUS
  <2> HIDE DEF K
  <2> QED BY <2>1 DEF Peaceful, Truthful
<1>3. \A M : \A h \in Hosts \ {g} : Both(M, r, H[h], g, h)
  BY <1>1, IdleRival DEF Both
<1>4. \A x, y \in Hosts \ {g} : Rivals(N, H[x], H[y], x, y)
  BY DEF Peaceful
<1>5. \A x, y \in Hosts \ {g} : Rivals(N \ {m}, H[x], H[y], x, y)
  <2> SUFFICES ASSUME NEW x \in Hosts \ {g}, NEW y \in Hosts \ {g} PROVE Rivals(N \ {m}, H[x], H[y], x, y)
    OBVIOUS
  <2>1. {m.from, m.to} # {x, y}
    OBVIOUS
  <2> QED BY <1>4, <2>1, OtherPacket
<1>6. Peaceful(K, N)
  BY <1>1, <1>2, <1>3, <1>4, OneRival
<1>7. \A p \in N \ {m} : Truthful(p, K)
  BY <1>2
<1>8. Peaceful(K, N \ {m})
  BY <1>1, <1>3, <1>5, <1>7, OneRival
<1> QED BY <1>6, <1>8

\* mDNS_Execute sends a probe.
LEMMA ProbeStep ==
  ASSUME Punctual, TypeOK, bridged, Peaceful(host, net), NEW g \in Hosts, mDNS_Execute(g),
         ProbeDue(host[g]), host[g].probes > 0, TypeOK'
  PROVE  Peaceful(host, net)'
<1> DEFINE s == host[g]
           q == SendQueries(s)
           r == SendResponses(q)
           b == CanReceiveUnicastOn5353 /\ q.probes >= DefaultProbeCountForTypeUnique - 1
<1>1. Sound(s) /\ Fresh(s) /\ s \in HostState /\ DOMAIN host = Hosts
  BY HostsSound DEF Peaceful, Sound
<1>2. s.type = "Unique" /\ s.wait = 0 /\ s.probes \in 1..3 /\ s.interval = 1 /\ ~s.immed.answer
      /\ ~s.immed.unicast /\ s.announces > 0
  BY <1>1, Numbers DEF ProbeDue, Fresh, Verified, Sound
<1>3. Sound(q)
  BY <1>1, SendQueriesSound
<1>4. /\ q.name = s.name /\ q.type = "Unique" /\ q.probes = s.probes - 1 /\ q.wait = 1 /\ q.immed = s.immed
      /\ q.interval = 1 /\ q.announces = s.announces
  <2> DEFINE p == (IF s.probes > DefaultProbeCountForTypeUnique
                   THEN DefaultProbeCountForTypeUnique ELSE s.probes) - 1
  <2>1. p = s.probes - 1
    BY <1>2 DEF DefaultProbeCountForTypeUnique
  <2>2. q = [s EXCEPT !.probes = p, !.wait = s.interval]
    BY DEF SendQueries
  <2> HIDE DEF p
  <2> QED BY <1>1, <1>2, <2>1, <2>2 DEF HostState
<1>5. host' = [host EXCEPT ![g] = r] /\ net' = net \cup ProbePackets(g) \cup ResponsePackets(g, q)
  BY DEF mDNS_Execute
<1>6. ProbePackets(g) = Multicast(g, "probe", s.name, b)
  BY DEF ProbePackets
<1> HIDE DEF q
<1>7. ~AnswersByMulticast(q) /\ ~AnswersByUnicast(q)
  BY <1>2, <1>4 DEF AnswersByMulticast, AnswersByUnicast, AnnounceDue, ResourceRecordIsValidAnswer
<1>8. ResponsePackets(g, q) = {}
  BY <1>7 DEF ResponsePackets
<1>9. b \in BOOLEAN /\ (s.probes = 3 => b)
  BY <1>2, <1>4 DEF Punctual, DefaultProbeCountForTypeUnique
<1> HIDE DEF b
<1>10. /\ r.name = s.name /\ r.type = "Unique" /\ r.probes = s.probes - 1 /\ ~r.immed.answer
       /\ r.wait = 1 /\ r.interval = 1 /\ r.announces > 0 /\ r \in HostState
  BY <1>2, <1>3, <1>4, <1>7, ResponsesSentIs, SendResponsesSound DEF Sound
<1> HIDE DEF r
<1>11. Fresh(r)
  BY <1>2, <1>10 DEF Fresh
<1>12. net' = net \cup Multicast(g, "probe", s.name, b) /\ net' \subseteq Packets /\ net \subseteq net'
  BY <1>5, <1>6, <1>8 DEF TypeOK
<1>13. \A m \in net' : Truthful(m, host')
  <2> SUFFICES ASSUME NEW m \in net' PROVE Truthful(m, host')
    OBVIOUS
  <2>1. CASE m \in net
    <3>1. ~Verified(s) /\ \A h \in Hosts \ {g} : host'[h] = host[h]
      BY <1>1, <1>2, <1>5 DEF Verified
    <3> QED BY <2>1, <3>1 DEF Peaceful, Truthful
  <2>2. CASE m \in Multicast(g, "probe", s.name, b)
    <3>1. m.kind = "probe" /\ m.from = g /\ m.to # g
      BY <1>9, <2>2, MulticastBy
    <3> QED BY <3>1 DEF Truthful
  <2> QED BY <1>12, <2>1, <2>2
<1>14. ASSUME NEW h \in Hosts \ {g} PROVE Both(net', r, host[h], g, h)
  <2>1. Fresh(host[h]) /\ host[h] \in HostState /\ Both(net, s, host[h], g, h)
    BY DEF Peaceful, TypeOK, Both
  <2>2. Carries(net', "probe", g, h, s.name, 0) /\ (s.probes = 3 => CarriesQU(net', g, h, s.name, 0))
    BY <1>9, <1>12, MulticastHeard, MoreCarried
  <2> QED BY <1>1, <1>2, <1>10, <1>12, <2>1, <2>2, ProbeSent
<1>15. \A x, y \in Hosts \ {g} : Rivals(net', host[x], host[y], x, y)
  BY <1>12, MorePackets DEF Peaceful
<1> QED BY <1>1, <1>5, <1>11, <1>13, <1>14, <1>15, OneRival

\* What g sends when it holds its name: whoever waits for an answer gets one.
LEMMA AnswersHeard ==
  ASSUME bridged, NEW g \in Hosts, NEW q
  PROVE  /\ \A m \in ResponsePackets(g, q) : m.kind = "response" /\ m.from = g /\ m.to # g /\ m.name = q.name
         /\ \A h \in Hosts \ {g} :
              q.immed.answer /\ q.immed.requester \in {h, Several}
                => Carries(ResponsePackets(g, q), "response", g, h, q.name, 0)
         /\ AnnounceDue(q) => \A h \in Hosts \ {g} :
                                Carries(ResponsePackets(g, q), "response", g, h, q.name, 0)
<1>1. \A m \in ResponsePackets(g, q) : m.kind = "response" /\ m.from = g /\ m.to # g /\ m.name = q.name
  <2> SUFFICES ASSUME NEW m \in ResponsePackets(g, q)
               PROVE  m.kind = "response" /\ m.from = g /\ m.to # g /\ m.name = q.name
    OBVIOUS
  <2>1. CASE m \in Multicast(g, "response", q.name, FALSE)
    BY <2>1 DEF Multicast, Audible
  <2>2. CASE m \in Unicast(g, q.immed.requester, q.name)
    BY <2>2, UnicastBy
  <2> QED BY <2>1, <2>2 DEF ResponsePackets
<1>2. ASSUME NEW h \in Hosts \ {g}, AnswersByMulticast(q)
      PROVE  Carries(ResponsePackets(g, q), "response", g, h, q.name, 0)
  <2>1. Multicast(g, "response", q.name, FALSE) \subseteq ResponsePackets(g, q)
    BY <1>2 DEF ResponsePackets
  <2>2. Carries(Multicast(g, "response", q.name, FALSE), "response", g, h, q.name, 0)
    BY MulticastHeard
  <2> QED BY <2>1, <2>2, MoreCarried
<1>3. ASSUME NEW h \in Hosts \ {g}, AnswersByUnicast(q), q.immed.requester = h
      PROVE  Carries(ResponsePackets(g, q), "response", g, h, q.name, 0)
  <2>1. Unicast(g, h, q.name) \subseteq ResponsePackets(g, q)
    BY <1>3 DEF ResponsePackets
  <2> QED BY <2>1, UnicastHeard, MoreCarried
<1>4. ASSUME NEW h \in Hosts \ {g}, q.immed.answer, q.immed.requester \in {h, Several}
      PROVE  AnswersByMulticast(q) \/ (AnswersByUnicast(q) /\ q.immed.requester = h)
  BY <1>4 DEF AnswersByMulticast, AnswersByUnicast
<1>5. AnnounceDue(q) => AnswersByMulticast(q)
  BY DEF AnswersByMulticast
<1> QED BY <1>1, <1>2, <1>3, <1>4, <1>5

\* mDNS_Execute verifies a name and announces it, or answers for a name it holds.
LEMMA HolderStep ==
  ASSUME Punctual, TypeOK, bridged, Peaceful(host, net), NEW g \in Hosts, mDNS_Execute(g),
         ~(ProbeDue(host[g]) /\ host[g].probes > 0), TypeOK'
  PROVE  Peaceful(host, net)'
<1> DEFINE s == host[g]
           q == SendQueries(s)
           r == SendResponses(q)
<1>1. Sound(s) /\ Fresh(s) /\ s \in HostState /\ DOMAIN host = Hosts
  BY HostsSound DEF Peaceful, Sound
<1>2. Sound(q)
  BY <1>1, SendQueriesSound
<1>3. host' = [host EXCEPT ![g] = r] /\ net' = net \cup ResponsePackets(g, q)
  <2>1. ProbePackets(g) = {}
    BY DEF ProbePackets
  <2> QED BY <2>1 DEF mDNS_Execute
<1>4. \/ Verified(s) /\ q = s
      \/ /\ s.type = "Unique" /\ s.wait = 0 /\ s.probes = 0
         /\ Verified(q) /\ q.name = s.name /\ AnnounceDue(q)
  <2>1. CASE ProbeDue(s)
    <3>1. s.type = "Unique" /\ s.wait = 0 /\ s.probes = 0 /\ s.announces > 0
      BY <1>1, <2>1, Numbers DEF ProbeDue, Fresh
    <3>2. q = [s EXCEPT !.type = "Verified", !.interval = AnnounceInterval, !.wait = 0]
      BY <2>1, <3>1 DEF SendQueries
    <3>3. q.type = "Verified" /\ q.name = s.name /\ q.wait = 0 /\ q.announces = s.announces
      <4> DEFINE i == AnnounceInterval
                 w == 0
      <4>1. q = [s EXCEPT !.type = "Verified", !.interval = i, !.wait = w]
        BY <3>2
      <4> HIDE DEF i, w
      <4>2. q.type = "Verified" /\ q.name = s.name /\ q.wait = w /\ q.announces = s.announces
        BY <1>1, <4>1 DEF HostState
      <4> QED BY <4>2 DEF w
    <3> QED BY <3>1, <3>3 DEF Verified, AnnounceDue, ResourceRecordIsValidAnswer, TimeToAnnounceThisRecord
  <2>2. CASE ~ProbeDue(s)
    <3>1. q = s
      BY <2>2 DEF SendQueries
    <3>2. Verified(s)
      BY <1>1, <2>2 DEF mDNS_Execute, Due, AnnounceDue, ResourceRecordIsValidAnswer, Fresh, Verified
    <3> QED BY <3>1, <3>2
  <2> QED BY <2>1, <2>2
<1> HIDE DEF q
<1>5. r.name = s.name /\ Verified(r)
  BY <1>2, <1>4, ResponsesSentIs DEF Verified
<1> HIDE DEF r
<1>6. Fresh(r)
  BY <1>5 DEF Fresh, Verified
<1>7. net \subseteq net' /\ net' \subseteq Packets /\ ResponsePackets(g, q) \subseteq net'
  BY <1>3 DEF TypeOK
<1>8. \A m \in net' : Truthful(m, host')
  <2> SUFFICES ASSUME NEW m \in net' PROVE Truthful(m, host')
    OBVIOUS
  <2>1. host'[g] = r /\ \A h \in Hosts \ {g} : host'[h] = host[h]
    BY <1>1, <1>3
  <2>2. CASE m \in net
    BY <1>5, <2>1, <2>2 DEF Peaceful, Truthful
  <2>3. CASE m \in ResponsePackets(g, q)
    <3>1. q.name = s.name
      BY <1>4
    <3> QED BY <1>5, <2>1, <2>3, <3>1, AnswersHeard DEF Truthful
  <2> QED BY <1>3, <2>2, <2>3
<1>9. ASSUME NEW h \in Hosts \ {g} PROVE Both(net', r, host[h], g, h)
  <2>1. Fresh(host[h]) /\ host[h] \in HostState /\ Both(net, s, host[h], g, h)
    BY DEF Peaceful, TypeOK, Both
  <2>2. CASE Verified(s) /\ q = s
    <3>1. s.immed.answer /\ s.immed.requester \in {h, Several} => Carries(net', "response", g, h, s.name, 0)
      BY <1>7, <2>2, AnswersHeard, MoreCarried
    <3> QED BY <1>1, <1>5, <1>7, <2>1, <2>2, <3>1, AnswersSent
  <2>3. CASE /\ s.type = "Unique" /\ s.wait = 0 /\ s.probes = 0
             /\ Verified(q) /\ q.name = s.name /\ AnnounceDue(q)
    <3>1. Carries(net', "response", g, h, s.name, 0)
      BY <1>7, <2>3, AnswersHeard, MoreCarried
    <3> QED BY <1>1, <1>5, <1>7, <2>1, <2>3, <3>1, NameVerified
  <2> QED BY <1>4, <2>2, <2>3
<1>10. \A x, y \in Hosts \ {g} : Rivals(net', host[x], host[y], x, y)
  BY <1>7, MorePackets DEF Peaceful
<1> QED BY <1>1, <1>3, <1>6, <1>8, <1>9, <1>10, OneRival

\* Whoever answers for a name is the only one that holds it.
LEMMA NoConflict ==
  ASSUME TypeOK, Peaceful(host, net), NEW m \in net, m.kind = "response", m.to \in Hosts,
         m.name = host[m.to].name
  PROVE  ~Verified(host[m.to])
<1>1. Truthful(m, host)
  BY DEF Peaceful
<1>2. Rivals(net, host[m.from], host[m.to], m.from, m.to)
  BY <1>1 DEF Peaceful, Truthful
<1> QED BY <1>1, <1>2 DEF Truthful, Rivals

\* A packet is taken and changes nothing.
LEMMA IgnoredStep ==
  ASSUME TypeOK, Peaceful(host, net), NEW m \in net, m.to \in Hosts, host' = host, net' = net \ {m},
         m.name = host[m.to].name =>
           /\ m.kind = "probe" => /\ ~(host[m.to].type = "Unique" /\ m.to < m.from)
                                  /\ ~(Verified(host[m.to]) /\ m.qu)
           /\ m.kind = "response" => ~Probing(host[m.to])
  PROVE  Peaceful(host, net)'
<1> DEFINE g == m.to
<1>1. m.from # g
  BY DEF Peaceful, Truthful
<1>2. ASSUME NEW x \in Hosts, NEW y \in Hosts, x # y PROVE Rivals(net \ {m}, host[x], host[y], x, y)
  <2>1. Rivals(net, host[x], host[y], x, y) /\ Rivals(net, host[y], host[x], y, x)
    BY DEF Peaceful
  <2>2. CASE m.name # host[x].name \/ (x # g /\ y # g)
    <3>1. {m.from, m.to} # {x, y} \/ m.name # host[x].name
      BY <2>2
    <3> QED BY <2>1, <3>1, OtherPacket
  <2>3. CASE x = g /\ m.name = host[x].name
    <3>1. Both(net \ {m}, host[g], host[y], g, y)
      BY <1>1, <1>2, <2>1, <2>3, PacketIgnored DEF Both
    <3> QED BY <2>3, <3>1 DEF Both
  <2>4. CASE y = g /\ m.name = host[x].name /\ host[x].name = host[y].name
    <3>1. Both(net \ {m}, host[g], host[x], g, x)
      BY <1>1, <1>2, <2>1, <2>4, PacketIgnored DEF Both
    <3> QED BY <2>4, <3>1 DEF Both
  <2>5. CASE host[x].name # host[y].name
    BY <2>5 DEF Rivals
  <2> QED BY <2>2, <2>3, <2>4, <2>5
<1>3. \A x, y \in Hosts : Rivals(net \ {m}, host[x], host[y], x, y)
  <2> SUFFICES ASSUME NEW x \in Hosts, NEW y \in Hosts PROVE Rivals(net \ {m}, host[x], host[y], x, y)
    OBVIOUS
  <2> QED BY <1>2 DEF Rivals
<1> QED BY <1>3 DEF Peaceful

\* A question is to be answered.
LEMMA MarkStep ==
  ASSUME Punctual, TypeOK, Peaceful(host, net), NEW m \in net, m.to \in Hosts, m.kind # "response",
         Verified(host[m.to]), net' = net \ {m},
         host' = [host EXCEPT ![m.to].immed = Mark(host[m.to], m)]
  PROVE  Peaceful(host, net)'
<1> DEFINE g == m.to
           s == host[g]
           r == [s EXCEPT !.immed = Mark(s, m)]
<1>1. s \in HostState /\ DOMAIN host = Hosts /\ net \subseteq Packets
  BY DEF TypeOK
<1>2. r.name = s.name /\ r.type = s.type /\ r.immed = Mark(s, m)
  BY <1>1 DEF HostState
<1>3. host' = [host EXCEPT ![g] = r]
  BY <1>1
<1> HIDE DEF r
<1>4. Verified(r) /\ Fresh(r)
  BY <1>2 DEF Verified, Fresh
<1>5. \A p \in net' : Truthful(p, host')
  <2>1. host'[g] = r /\ \A h \in Hosts \ {g} : host'[h] = host[h]
    BY <1>1, <1>3
  <2> QED BY <1>2, <1>4, <2>1 DEF Peaceful, Truthful
<1>6. ASSUME NEW h \in Hosts \ {g} PROVE Both(net', r, host[h], g, h)
  <2>1. Fresh(host[h]) /\ host[h] \in HostState /\ Both(net, s, host[h], g, h)
    BY DEF Peaceful, TypeOK, Both
  <2> QED BY <1>1, <1>2, <1>4, <2>1, AnswerMarked
<1>7. \A x, y \in Hosts \ {g} : Rivals(net', host[x], host[y], x, y)
  <2> SUFFICES ASSUME NEW x \in Hosts \ {g}, NEW y \in Hosts \ {g} PROVE Rivals(net', host[x], host[y], x, y)
    OBVIOUS
  <2>1. {m.from, m.to} # {x, y} /\ Rivals(net, host[x], host[y], x, y)
    BY DEF Peaceful
  <2> QED BY <2>1, OtherPacket
<1> HIDE DEF g
<1>8. g \in Hosts /\ \A p \in net' : Truthful(p, [host EXCEPT ![g] = r])
  BY <1>3, <1>5 DEF g
<1>9. Peaceful([host EXCEPT ![g] = r], net')
  BY <1>1, <1>4, <1>6, <1>7, <1>8, OneRival
<1> QED BY <1>3, <1>9

\* A packet is received.
LEMMA ReceiveStep ==
  ASSUME Punctual, TypeOK, Peaceful(host, net), NEW m \in net, mDNSCoreReceive(m)
  PROVE  Peaceful(host, net)'
<1> DEFINE g == m.to
           s == host[g]
<1>1. m \in Packets /\ g \in Hosts /\ net' = net \ {m} /\ DOMAIN host = Hosts
  BY DEF TypeOK, Packets, mDNSCoreReceive
<1>2. Sound(s) /\ Fresh(s) /\ s \in HostState
  BY <1>1, HostsSound DEF Peaceful, Sound
<1>3. ASSUME NEW r, Begun(r), ~Verified(s), host' = [host EXCEPT ![g] = r] PROVE Peaceful(host, net)'
  BY <1>1, <1>3, BeginsAgain
<1>4. s.type = "Unique" => ~Verified(s) /\ ~s.immed.answer
  BY <1>2 DEF Verified, Fresh
<1>5. CASE ProcessQuery(g, m)
  <2>1. CASE LosesTieBreak(g, m) /\ \E r \in ResolveSimultaneousProbe(s) : host' = [host EXCEPT ![g] = r]
    <3>1. s.type = "Unique"
      BY <2>1 DEF LosesTieBreak
    <3> QED BY <1>2, <1>3, <1>4, <2>1, <3>1, ResolveBegins
  <2>2. CASE AnswersQuestion(s, m) /\ host' = [host EXCEPT ![g].immed = Mark(s, m)]
    <3>1. Verified(s) /\ m.kind # "response"
      BY <1>5, <2>2 DEF AnswersQuestion, ResourceRecordIsValidAnswer, Verified, ProcessQuery
    <3> QED BY <1>1, <2>2, <3>1, MarkStep
  <2>3. CASE /\ UNCHANGED host
             /\ m.name # s.name \/ (~AnswersQuestion(s, m) /\ ~(m.kind = "probe" /\ LosesTieBreak(g, m)))
    <3>1. m.name = s.name =>
            /\ m.kind = "probe" => /\ ~(s.type = "Unique" /\ g < m.from)
                                   /\ ~(Verified(s) /\ m.qu)
            /\ m.kind = "response" => ~Probing(s)
      BY <1>5, <2>3 DEF ProcessQuery, AnswersQuestion, ResourceRecordIsValidAnswer, Verified, LosesTieBreak
    <3> QED BY <1>1, <2>3, <3>1, IgnoredStep
  <2> QED BY <1>5, <2>1, <2>2, <2>3, Zenon DEF ProcessQuery
<1>6. CASE ReceiveResponse(g, m)
  <2>0. m.kind = "response" /\ (Conflicts(s, m) => m.name = s.name)
    BY <1>6 DEF ReceiveResponse, Conflicts
  <2>1. CASE Conflicts(s, m) /\ s.type = "Verified"
    BY <1>1, <2>0, <2>1, NoConflict DEF Verified
  <2>2. CASE s.type = "Unique" /\ host' = [host EXCEPT ![g] = PauseProbing(s)]
    BY <1>2, <1>3, <1>4, <2>2, PauseBegins
  <2>3. CASE s.type = "Unique" /\ \E r \in DeregisterConflict(s) : host' = [host EXCEPT ![g] = r]
    BY <1>2, <1>3, <1>4, <2>3, DeregisterBegins
  <2>4. CASE ~Conflicts(s, m) /\ UNCHANGED host
    <3>1. m.name = s.name => ~Probing(s)
      BY <2>4 DEF Conflicts, Probing, DefaultProbeCountForTypeUnique
    <3> QED BY <1>1, <2>0, <2>4, <3>1, IgnoredStep
  <2> QED BY <1>6, <2>1, <2>2, <2>3, <2>4, Zenon DEF ReceiveResponse
<1> QED BY <1>5, <1>6 DEF mDNSCoreReceive

\* Time passes.
LEMMA TickStep ==
  ASSUME Punctual, TypeOK, Peaceful(host, net), Tick
  PROVE  Peaceful(host, net)'
<1>1. /\ net' = {Aged(m) : m \in net} /\ \A m \in net : m.age < MaxDelay
      /\ net \subseteq Packets
      /\ \A h \in Hosts : host'[h] = Elapse(host[h])
  BY DEF Tick, Aged, TypeOK
<1>2. ASSUME NEW h \in Hosts
      PROVE  /\ host[h] \in HostState /\ Fresh(host[h])
             /\ ~(host[h].type = "Unique" /\ host[h].wait = 0) /\ ~host[h].immed.answer
  BY DEF Tick, TypeOK, Peaceful, Due, ProbeDue
<1>3. ASSUME NEW h \in Hosts
      PROVE  /\ host'[h].name = host[h].name /\ host'[h].type = host[h].type
             /\ host'[h].probes = host[h].probes /\ host'[h].wait = Less(host[h].wait)
             /\ host'[h].announces = host[h].announces /\ host'[h].interval = host[h].interval
             /\ host'[h].immed = host[h].immed
  <2> DEFINE s == host[h]
             w == Less(s.wait)
             d == Less(s.suppress)
             e == Less(s.quiet)
             f == IF s.quiet <= 1 THEN 0 ELSE s.fails
             c == IF s.sinceMC < QuarterTTL THEN s.sinceMC + 1 ELSE s.sinceMC
  <2>1. host'[h] = [s EXCEPT !.wait = w, !.suppress = d, !.quiet = e, !.fails = f, !.sinceMC = c]
    BY <1>1 DEF Elapse
  <2> HIDE DEF w, d, e, f, c
  <2>2. /\ host'[h].name = s.name /\ host'[h].type = s.type
        /\ host'[h].probes = s.probes /\ host'[h].wait = w
        /\ host'[h].announces = s.announces /\ host'[h].interval = s.interval
        /\ host'[h].immed = s.immed
    BY <1>2, <2>1 DEF HostState
  <2> QED BY <2>2 DEF w
<1>4. \A h \in Hosts : Fresh(host'[h])
  <2> SUFFICES ASSUME NEW h \in Hosts PROVE Fresh(host'[h])
    OBVIOUS
  <2>1. host[h].wait \in Nat
    BY <1>2, Fields
  <2> QED BY <1>2, <1>3, <2>1 DEF Fresh, Verified, Less
<1>5. \A p \in net' : Truthful(p, host')
  <2> SUFFICES ASSUME NEW m \in net PROVE Truthful(Aged(m), host')
    BY <1>1
  <2>1. Aged(m).kind = m.kind /\ Aged(m).from = m.from /\ Aged(m).to = m.to /\ Aged(m).name = m.name
    BY <1>1 DEF Aged, Packets
  <2> QED BY <1>3, <2>1 DEF Peaceful, Truthful, Verified
<1>6. ASSUME NEW g \in Hosts, NEW h \in Hosts PROVE Rivals(net', host'[g], host'[h], g, h)
  <2>1. CASE g = h
    BY <2>1 DEF Rivals
  <2>2. CASE g # h
    <3>1. Both(net, host[g], host[h], g, h)
      BY DEF Peaceful, Both
    <3>2. Both({Aged(m) : m \in net}, host'[g], host'[h], g, h)
      BY <1>1, <1>2, <1>3, <2>2, <3>1, TimePasses
    <3> QED BY <1>1, <3>2 DEF Both
  <2> QED BY <2>1, <2>2
<1> QED BY <1>4, <1>5, <1>6 DEF Peaceful

\* A third party asks.
LEMMA QueryStep ==
  ASSUME TypeOK, Peaceful(host, net), Query
  PROVE  Peaceful(host, net)'
<1>1. /\ host' = host /\ net \subseteq net'
      /\ \A m \in net' : m \in net \/ (m.kind = "query" /\ m.from = ThirdParty /\ m.to \in Hosts)
  BY DEF Query
<1>2. \A h \in Hosts : h # ThirdParty
  BY ProbeAssumption DEF ProbeAssumption, ThirdParty
<1>3. \A m \in net' : Truthful(m, host')
  BY <1>1, <1>2 DEF Peaceful, Truthful
<1>4. \A x, y \in Hosts : Rivals(net', host[x], host[y], x, y)
  BY <1>1, MorePackets DEF Peaceful
<1> QED BY <1>1, <1>3, <1>4 DEF Peaceful

\* A host starts.
LEMMA AdvertiseStep ==
  ASSUME TypeOK, Peaceful(host, net), NEW h \in Hosts, AdvertiseInterface(h)
  PROVE  Peaceful(host, net)'
<1>1. Sound(host[h]) /\ DOMAIN host = Hosts /\ host[h].name \in Nat
  BY HostsSound, Fields DEF Sound
<1>2. PICK r \in mDNS_Register(host[h].name, host[h]) : host' = [host EXCEPT ![h] = r]
  BY DEF AdvertiseInterface
<1>3. Begun(r) /\ ~Verified(host[h]) /\ net' = net
  BY <1>1, <1>2, RegisterBegins DEF AdvertiseInterface, Verified
<1>4. PICK m : m = [to |-> h]
  OBVIOUS
<1>5. m.to = h
  BY <1>4
<1> QED BY <1>1, <1>2, <1>3, <1>5, BeginsAgain

\* At first nobody holds a name.
LEMMA InitUnique == Init => UniqueInv
<1> SUFFICES ASSUME Init PROVE UniqueInv
  OBVIOUS
<1>1. TypeOK
  BY InitTyped
<1>2. faults = 0 => bridged
  BY DEF Init
<1>3. \A h \in Hosts : ~Verified(host[h]) /\ ~Probing(host[h]) /\ Fresh(host[h])
  BY DEF Init, NoHost, Unmarked, Verified, Probing, Fresh
<1>4. Peaceful(host, net)
  BY <1>3, IdleRival DEF Init, Peaceful
<1> QED BY <1>1, <1>2, <1>4 DEF UniqueInv

\* Every step keeps the invariant.
LEMMA StepUnique ==
  ASSUME Punctual, UniqueInv, [Next]_vars
  PROVE  UniqueInv'
<1>1. TypeOK /\ TypeOK'
  BY StepTyped DEF UniqueInv
<1> SUFFICES ASSUME faults' = 0 PROVE bridged' /\ Peaceful(host, net)'
  BY <1>1 DEF UniqueInv
<1>2. CASE UNCHANGED vars
  BY <1>2 DEF vars, UniqueInv, Peaceful
<1>3. CASE Next
  <2>1. faults = 0 /\ bridged /\ bridged' /\ Peaceful(host, net)
    <3>1. faults \in 0..MaxFaults
      BY <1>1 DEF TypeOK
    <3>2. faults' = faults \/ (faults' = faults + 1 /\ bridged' = bridged)
      BY <1>3, Zenon DEF Next, AdvertiseInterface, mDNS_Execute, mDNS_RegisterInterface, mDNSCoreReceive, Lose,
         Query, Bridge, Tick
    <3>3. bridged' = bridged \/ bridged' = TRUE
      BY <1>3, Zenon DEF Next, AdvertiseInterface, mDNS_Execute, mDNS_RegisterInterface, mDNSCoreReceive, Lose,
         Query, Bridge, Tick
    <3> QED BY <3>1, <3>2, <3>3, Constants DEF UniqueInv
  <2>2. ASSUME NEW h \in Hosts, AdvertiseInterface(h) PROVE Peaceful(host, net)'
    BY <1>1, <2>1, <2>2, AdvertiseStep
  <2>3. ASSUME NEW h \in Hosts, mDNS_Execute(h) PROVE Peaceful(host, net)'
    BY <1>1, <2>1, <2>3, ProbeStep, HolderStep
  <2>4. ASSUME NEW h \in Hosts, mDNS_RegisterInterface(h) PROVE FALSE
    BY <2>1, <2>4 DEF mDNS_RegisterInterface
  <2>5. ASSUME NEW m \in net, mDNSCoreReceive(m) PROVE Peaceful(host, net)'
    BY <1>1, <2>1, <2>5, ReceiveStep
  <2>6. ASSUME NEW m \in net, Lose(m) PROVE FALSE
    BY <2>1, <2>6 DEF Lose
  <2>7. CASE Query
    BY <1>1, <2>1, <2>7, QueryStep
  <2>8. ASSUME Bridge PROVE FALSE
    BY <2>1, <2>8 DEF Bridge
  <2>9. CASE Tick
    BY <1>1, <2>1, <2>9, TickStep
  <2> QED BY <1>3, <2>1, <2>2, <2>3, <2>4, <2>5, <2>6, <2>7, <2>8, <2>9 DEF Next
<1> QED BY <1>2, <1>3

\* On a link that loses nothing and delivers within a probe interval, and for
\* hosts that can ask for unicast answers, no two of any number of hosts ever
\* hold the same verified name.
THEOREM NamesAreUnique == ASSUME Punctual PROVE Spec => []UniqueOwner
<1>1. Init => UniqueInv
  BY InitUnique
<1>2. UniqueInv /\ [Next]_vars => UniqueInv'
  BY StepUnique
<1>3. UniqueInv => UniqueOwner
  <2> SUFFICES ASSUME UniqueInv, faults = 0, NEW g \in Hosts, NEW h \in Hosts,
                      host[g].type = "Verified", Owner(h, host[g].name)
               PROVE  g = h
    BY DEF UniqueOwner
  <2>1. Rivals(net, host[g], host[h], g, h)
    BY DEF UniqueInv, Peaceful
  <2> QED BY <2>1 DEF Rivals, Verified, Owner
<1> QED BY <1>1, <1>2, <1>3, PTL DEF Spec

\* A step that leaves the name of a host alone.
LEMMA NameKept ==
  ASSUME TypeOK, NEW g \in Hosts, NEW h \in Hosts, NEW r, host' = [host EXCEPT ![g] = r],
         r.name = host[g].name
  PROVE  host'[h].name = host[h].name
  BY DEF TypeOK

\* SendQueries does.
LEMMA QueriesKeepName ==
  ASSUME NEW s \in HostState PROVE SendQueries(s).name = s.name
<1> DEFINE p == (IF s.probes > DefaultProbeCountForTypeUnique
                 THEN DefaultProbeCountForTypeUnique ELSE s.probes) - 1
           w == s.interval
           i == AnnounceInterval
           z == 0
<1>1. \/ SendQueries(s) = s
      \/ SendQueries(s) = [s EXCEPT !.probes = p, !.wait = w]
      \/ SendQueries(s) = [s EXCEPT !.type = "Verified", !.interval = i, !.wait = z]
  BY DEF SendQueries
<1> HIDE DEF p, w, i, z
<1> QED BY <1>1 DEF HostState

\* A name is lost only to a host that holds it.
LEMMA EvictedByOwner ==
  ASSUME Punctual, UniqueInv, Next, NEW h \in Hosts, faults = 0, host'[h].name # host[h].name
  PROVE  \E g \in Hosts \ {h} : Owner(g, host[h].name)
<1>1. TypeOK /\ Peaceful(host, net) /\ \A g \in Hosts : Sound(host[g]) /\ host[g] \in HostState
  BY HostsSound DEF UniqueInv, Sound
<1>2. ASSUME NEW g \in Hosts, AdvertiseInterface(g) PROVE FALSE
  <2>1. PICK r \in mDNS_Register(host[g].name, host[g]) : host' = [host EXCEPT ![g] = r]
    BY <1>2 DEF AdvertiseInterface
  <2>2. host[g].name \in Nat
    BY <1>1, Fields
  <2>3. r.name = host[g].name
    BY <1>1, <2>1, <2>2, RegisterBegins
  <2> QED BY <1>1, <2>1, <2>3, NameKept
<1>3. ASSUME NEW g \in Hosts, mDNS_Execute(g) PROVE FALSE
  <2> DEFINE q == SendQueries(host[g])
  <2>1. host' = [host EXCEPT ![g] = SendResponses(q)]
    BY <1>3 DEF mDNS_Execute
  <2>2. Sound(q) /\ q.name = host[g].name
    BY <1>1, SendQueriesSound, QueriesKeepName
  <2> HIDE DEF q
  <2>3. SendResponses(q).name = host[g].name
    BY <2>2, ResponsesSentIs
  <2> QED BY <1>1, <2>1, <2>3, NameKept
<1>4. ASSUME NEW g \in Hosts, mDNS_RegisterInterface(g) PROVE FALSE
  <2> DEFINE d == IF host[g].suppress < RestartDelay THEN RestartDelay ELSE host[g].suppress
             s == [host[g] EXCEPT !.suppress = d]
             p == DefaultProbeCountForTypeUnique
             a == IF s.announces < InitialAnnounceCount THEN InitialAnnounceCount ELSE s.announces
             t == [s EXCEPT !.type = "Unique", !.probes = p, !.announces = a]
  <2>1. PICK r \in InitializeLastAPTime(t) : host' = [host EXCEPT ![g] = r]
    BY <1>4 DEF mDNS_RegisterInterface, mDNSCoreRestartRegistration
  <2>2. d \in Nat /\ p \in 0..DefaultProbeCountForTypeUnique + 1 /\ host[g].announces \in 0..InitialAnnounceCount
    BY <1>1, Fields DEF RestartDelay, DefaultProbeCountForTypeUnique
  <2> HIDE DEF d, p
  <2>3. s \in HostState /\ s.name = host[g].name /\ s.announces = host[g].announces
    BY <1>1, <2>2 DEF HostState
  <2> HIDE DEF s
  <2>4. a \in 0..InitialAnnounceCount
    BY <2>2, <2>3, Constants
  <2> HIDE DEF a
  <2>5. t \in HostState /\ t.name = s.name
    BY <2>2, <2>3, <2>4 DEF HostState
  <2> HIDE DEF t
  <2>6. r.name = host[g].name
    BY <2>1, <2>3, <2>5, InitializedIs
  <2> QED BY <1>1, <2>1, <2>6, NameKept
<1>5. ASSUME NEW m \in net, mDNSCoreReceive(m) PROVE \E g \in Hosts \ {h} : Owner(g, host[h].name)
  <2> DEFINE g == m.to
             s == host[g]
  <2>1. m \in Packets /\ g \in Hosts /\ Truthful(m, host)
    BY <1>1 DEF TypeOK, Packets, Peaceful
  <2>2. Sound(s) /\ s \in HostState /\ Fresh(s)
    BY <1>1, <2>1 DEF Peaceful
  <2>3. CASE UNCHANGED host
    BY <2>3
  <2>4. CASE \E r \in ResolveSimultaneousProbe(s) : host' = [host EXCEPT ![g] = r]
    <3> DEFINE p == DefaultProbeCountForTypeUnique
               w == OneSecond
               t == [s EXCEPT !.suppress = w, !.probes = p, !.announces = InitialAnnounceCount]
    <3>1. PICK r \in InitializeLastAPTime(t) : host' = [host EXCEPT ![g] = r]
      BY <2>4 DEF ResolveSimultaneousProbe
    <3>2. /\ w \in Nat /\ p \in 0..DefaultProbeCountForTypeUnique + 1
          /\ InitialAnnounceCount \in 0..InitialAnnounceCount
      BY Constants DEF OneSecond, DefaultProbeCountForTypeUnique
    <3> HIDE DEF w, p
    <3>3. t \in HostState /\ t.name = s.name
      BY <2>2, <3>2 DEF HostState
    <3> HIDE DEF t
    <3>4. r.name = s.name
      BY <3>1, <3>3, InitializedIs
    <3> QED BY <1>1, <2>1, <3>1, <3>4, NameKept
  <2>5. CASE host' = [host EXCEPT ![g].immed = Mark(s, m)]
    <3> DEFINE r == [s EXCEPT !.immed = Mark(s, m)]
    <3>1. host' = [host EXCEPT ![g] = r]
      BY <2>1, <2>5
    <3>2. r.name = s.name
      BY <2>2 DEF HostState
    <3> HIDE DEF r
    <3> QED BY <1>1, <2>1, <3>1, <3>2, NameKept
  <2>6. CASE host' = [host EXCEPT ![g] = PauseProbing(s)]
    <3>1. PauseProbing(s).name = s.name
      <4> DEFINE p == DefaultProbeCountForTypeUnique
                 c == s.conflicts + 1
                 w == OneSecond
      <4>1. PauseProbing(s) = [s EXCEPT !.conflicts = c, !.probes = p, !.wait = w]
        BY DEF PauseProbing
      <4> HIDE DEF p, c, w
      <4> QED BY <2>2, <4>1 DEF HostState
    <3> QED BY <1>1, <2>1, <2>6, <3>1, NameKept
  <2>7. CASE m.kind = "response" /\ Conflicts(s, m) /\ s.type = "Verified"
    <3>1. m.name = s.name
      BY <2>7 DEF Conflicts
    <3> QED BY <1>1, <2>1, <2>7, <3>1, NoConflict DEF Verified
  <2>8. CASE m.kind = "response" /\ Conflicts(s, m) /\ \E r : host' = [host EXCEPT ![g] = r]
    <3>1. Owner(m.from, s.name) /\ m.from \in Hosts /\ m.from # g
      BY <2>1, <2>8 DEF Truthful, Conflicts, Owner, Verified
    <3>2. g = h
      BY <1>1, <2>1, <2>8 DEF TypeOK
    <3> QED BY <3>1, <3>2
  <2>9. ProcessQuery(g, m) \/ ReceiveResponse(g, m)
    BY <1>5 DEF mDNSCoreReceive
  <2> QED BY <2>3, <2>4, <2>5, <2>6, <2>7, <2>8, <2>9, Zenon DEF ProcessQuery, ReceiveResponse
<1>6. ASSUME Query \/ Bridge \/ \E m \in net : Lose(m) PROVE FALSE
  BY <1>6 DEF Query, Bridge, Lose
<1>7. ASSUME Tick PROVE FALSE
  <2>1. host'[h] = Elapse(host[h])
    BY <1>7 DEF Tick
  <2> DEFINE s == host[h]
             w == Less(s.wait)
             d == Less(s.suppress)
             e == Less(s.quiet)
             f == IF s.quiet <= 1 THEN 0 ELSE s.fails
             c == IF s.sinceMC < QuarterTTL THEN s.sinceMC + 1 ELSE s.sinceMC
  <2>2. host'[h] = [s EXCEPT !.wait = w, !.suppress = d, !.quiet = e, !.fails = f, !.sinceMC = c]
    BY <2>1 DEF Elapse
  <2> HIDE DEF w, d, e, f, c
  <2>3. host'[h].name = s.name
    BY <1>1, <2>2 DEF HostState
  <2> QED BY <2>3
<1> QED BY <1>2, <1>3, <1>4, <1>5, <1>6, <1>7 DEF Next

\* On such a link a host gives up its name only for a host that holds it: no
\* tie-break, no stale packet and no host that is still probing costs it its name.
THEOREM OnlyOwnersEvict == ASSUME Punctual PROVE Spec => OnlyOwnerEvicts
<1>1. Init => UniqueInv
  BY InitUnique
<1>2. UniqueInv /\ [Next]_vars => UniqueInv'
  BY StepUnique
<1>3. UniqueInv /\ [Next]_vars
        => [\A h \in Hosts : faults = 0 /\ host'[h].name # host[h].name
              => \E g \in Hosts \ {h} : Owner(g, host[h].name)]_vars
  BY EvictedByOwner
<1> QED BY <1>1, <1>2, <1>3, PTL DEF Spec, OnlyOwnerEvicts
=============================================================================
