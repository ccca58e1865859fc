------------------------- MODULE SRPLSessionProofs -------------------------
(***************************************************************************)
(* Proofs about SRPLSession: type correctness with the tie between an      *)
(* instance and its outgoing connection, the election of one session by    *)
(* server id, the tracking of the incoming connection, and that an         *)
(* established session is only ended by a fault.                           *)
(***************************************************************************)
EXTENDS SRPLSession, WellFoundedInduction, TLAPS

-----------------------------------------------------------------------------
(* One link.                                                               *)

Unconnected == {"none", "disconnected", "idle", "reconnect_wait"}

\* The client end is open, or about to be.
Live(w) == w.client \in {"connecting", "open"}

\* An instance and the connections of its link: the instance holds the one
\* connection whose client end is live.
Linked(i, U) ==
  /\ i \in Instances /\ U \in [Slots -> Wires]
  /\ i.conn = 0 <=> i.out \in Unconnected
  /\ i.conn # 0 => U[i.conn].client # "closed"
  /\ \A k \in Slots : Live(U[k]) => i.conn = k

AllLinked ==
  /\ inst \in [Links -> Instances]
  /\ wire \in [Links -> [Slots -> Wires]]
  /\ \A l \in Links : Linked(inst[l], wire[l])

Typed ==
  /\ id \in [Servers -> Ids]
  /\ regens \in 0..MaxRegens /\ faults \in 0..MaxFaults
  /\ AllLinked

LEMMA BackLink ==
    ASSUME NEW l \in Links
    PROVE  /\ Back(l) \in Links /\ Back(l) # l /\ Back(Back(l)) = l
           /\ Back(l)[1] = l[2] /\ Back(l)[2] = l[1]
           /\ l[1] \in Servers /\ l[2] \in Servers
BY DEF Links, Back

LEMMA ZeroIsNoSlot == 0 \notin Slots /\ 0 \notin Ids
BY SessionAssumption

LEMMA NothingTyped == NoInstance \in Instances /\ NoWire \in Wires
BY DEF NoInstance, NoWire, Instances, Wires

\* Every non-empty set of natural numbers has a least element.
LEMMA LeastNatural ==
    ASSUME NEW F \in SUBSET Nat, F # {}
    PROVE  \E n \in F : \A j \in F : n <= j
<1>1. PICK n \in F : \A j \in F : ~ (<<j, n>> \in OpToRel(<, Nat))
  BY NatLessThanWellFounded, WFMin
<1>2. ASSUME NEW j \in F, j < n PROVE FALSE
  <2>1. <<j, n>> \in Nat \X Nat /\ <<j, n>>[1] = j /\ <<j, n>>[2] = n
    OBVIOUS
  <2>2. <<j, n>>[1] < <<j, n>>[2]
    BY <1>2, <2>1
  <2>3. <<j, n>> \in OpToRel(<, Nat)
    BY <2>1, <2>2, Zenon DEF OpToRel
  <2> QED BY <1>1, <2>3
<1> QED BY <1>2

\* FreeSlot finds a free slot whenever there is one.
LEMMA FreeSlotFree ==
    ASSUME NEW W, NEW l, \E k \in Slots : W[l][k] = NoWire
    PROVE  FreeSlot(W, l) \in Slots /\ W[l][FreeSlot(W, l)] = NoWire
<1> DEFINE F == {k \in Slots : W[l][k] = NoWire}
<1>1. F # {} /\ F \in SUBSET Nat
  BY SessionAssumption
<1>2. \E n \in F : \A j \in F : n <= j
  BY <1>1, LeastNatural
<1> QED BY <1>2 DEF FreeSlot

\* A step of the server end leaves the client end and the instance that holds
\* the connection alone.
LEMMA ServerStepLinked ==
    ASSUME NEW i, NEW U, Linked(i, U),
           NEW V \in [Slots -> Wires], \A k \in Slots : V[k].client = U[k].client
    PROVE  Linked(i, V)
BY DEF Linked, Live, Instances

\* instance->incoming, the timers and what discovery knows do not matter to
\* the outgoing connection.
LEMMA BookkeepingLinked ==
    ASSUME NEW i, NEW U, Linked(i, U),
           NEW j \in Instances, j.conn = i.conn, j.out = i.out
    PROVE  Linked(j, U)
BY DEF Linked

\* A connection in which the client end is closed and nothing else happens.
Fresh(w) == w = [NoWire EXCEPT !.client = "connecting", !.server = "none"]

\* What next_address_get makes of the instance i of link l and of the
\* connections W: j and V.
Addressed(l, i, W, j, V) ==
  /\ inst' = [inst EXCEPT ![l] = j]
  /\ wire' = [W EXCEPT ![l] = V]
  /\ Linked(j, V)
  /\ \A k \in Slots : V[k] = W[l][k] \/ (W[l][k] = NoWire /\ Fresh(V[k]))
  /\ j = [i EXCEPT !.cur = j.cur, !.out = j.out, !.conn = j.conn]
  /\ i.addr /\ i.cur = 0 => V = W[l] /\ j.out = "reconnect_wait"
  /\ ~i.addr => V = W[l] /\ j.out = "disconnected" /\ j.cur = i.cur
  /\ j.conn # 0 => j.cur = 0

\* next_address_get on an instance that holds no connection: the instance is
\* left without one, or holds a fresh one.
LEMMA NextAddressGetLinked ==
    ASSUME NEW l \in Links, NEW i \in Instances,
           NEW W \in [Links -> [Slots -> Wires]],
           \A k \in Slots : ~ Live(W[l][k]),
           NextAddressGet(l, i, W)
    PROVE  \E j \in Instances, V \in [Slots -> Wires] : Addressed(l, i, W, j, V)
<1>1. CASE ~i.addr
  <2> DEFINE j == [i EXCEPT !.out = "disconnected", !.conn = 0]
  <2>1. j \in Instances
    BY DEF Instances
  <2>2. W[l] \in [Slots -> Wires] /\ wire' = [W EXCEPT ![l] = W[l]]
    BY <1>1 DEF NextAddressGet
  <2>3. inst' = [inst EXCEPT ![l] = j]
    BY <1>1 DEF NextAddressGet
  <2>4. Linked(j, W[l])
    BY <2>1, <2>2 DEF Linked, Unconnected, Instances
  <2>5. j = [i EXCEPT !.cur = j.cur, !.out = j.out, !.conn = j.conn] /\ j.cur = i.cur /\ j.out = "disconnected" /\ j.conn = 0
    BY DEF Instances
  <2> HIDE DEF j
  <2>6. Addressed(l, i, W, j, W[l])
    BY <1>1, <2>2, <2>3, <2>4, <2>5 DEF Addressed
  <2> QED BY <2>1, <2>2, <2>6
<1>2. CASE i.addr /\ i.cur = 0
  <2> DEFINE j == [i EXCEPT !.cur = -1, !.out = "reconnect_wait", !.conn = 0]
  <2>1. j \in Instances
    BY DEF Instances
  <2>2. W[l] \in [Slots -> Wires] /\ wire' = [W EXCEPT ![l] = W[l]]
    BY <1>2 DEF NextAddressGet
  <2>3. inst' = [inst EXCEPT ![l] = j]
    BY <1>2 DEF NextAddressGet
  <2>4. Linked(j, W[l])
    BY <2>1, <2>2 DEF Linked, Unconnected, Instances
  <2>5. j = [i EXCEPT !.cur = j.cur, !.out = j.out, !.conn = j.conn] /\ j.out = "reconnect_wait" /\ j.conn = 0
    BY DEF Instances
  <2> HIDE DEF j
  <2>6. Addressed(l, i, W, j, W[l])
    BY <1>2, <2>2, <2>3, <2>4, <2>5 DEF Addressed
  <2> QED BY <2>1, <2>2, <2>6
<1>3. CASE i.addr /\ i.cur = -1 /\ (\E k \in Slots : W[l][k] = NoWire)
  <2> DEFINE k == FreeSlot(W, l)
             j == [i EXCEPT !.cur = 0, !.out = "connecting", !.conn = k]
             w == [NoWire EXCEPT !.client = "connecting", !.server = "none"]
             V == [W[l] EXCEPT ![k] = w]
  <2>0. k \in Slots /\ W[l][k] = NoWire
    BY <1>3, FreeSlotFree
  <2> HIDE DEF k
  <2>1. j \in Instances
    BY <2>0 DEF Instances
  <2>2. w \in Wires /\ w.client = "connecting" /\ Fresh(w)
    BY DEF Wires, NoWire, Fresh
  <2>3. V \in [Slots -> Wires]
    BY <2>0, <2>2
  <2>4. wire' = [W EXCEPT ![l][k] = w] /\ inst' = [inst EXCEPT ![l] = j]
    BY <1>3 DEF NextAddressGet, k
  <2>5. wire' = [W EXCEPT ![l] = V]
    BY <2>4
  <2>6. \A n \in Slots : n # k => V[n] = W[l][n]
    BY <2>0
  <2>7. V[k] = w
    BY <2>0
  <2> HIDE DEF V, w
  <2>8. Linked(j, V)
    BY <2>0, <2>1, <2>2, <2>3, <2>6, <2>7, ZeroIsNoSlot DEF Linked, Unconnected, Instances, Live
  <2>9. j = [i EXCEPT !.cur = j.cur, !.out = j.out, !.conn = j.conn] /\ j.cur = 0
    BY DEF Instances
  <2>10. \A n \in Slots : V[n] = W[l][n] \/ (W[l][n] = NoWire /\ Fresh(V[n]))
    <3>1. Fresh(V[k])
      BY <2>2, <2>7, Zenon
    <3> QED BY <2>0, <2>6, <3>1
  <2>11. i.addr /\ i.cur # 0
    BY <1>3
  <2> HIDE DEF j
  <2>12. Addressed(l, i, W, j, V)
    BY <2>4, <2>5, <2>8, <2>9, <2>10, <2>11 DEF Addressed
  <2> QED BY <2>1, <2>3, <2>12
<1> QED BY <1>1, <1>2, <1>3 DEF NextAddressGet

-----------------------------------------------------------------------------
(* Type correctness.                                                       *)

\* A step that changes the instance of one link and the client ends of that
\* link, and at most the server ends elsewhere.
LEMMA OneLinkStep ==
    ASSUME AllLinked, NEW l \in Links, NEW j \in Instances,
           NEW W \in [Links -> [Slots -> Wires]],
           \A m \in Links, k \in Slots : m # l => W[m][k].client = wire[m][k].client,
           NEW V \in [Slots -> Wires], Linked(j, V),
           inst' = [inst EXCEPT ![l] = j],
           wire' = [W EXCEPT ![l] = V]
    PROVE  AllLinked'
<1>1. inst' \in [Links -> Instances] /\ wire' \in [Links -> [Slots -> Wires]]
  BY DEF AllLinked
<1>2. inst'[l] = j /\ wire'[l] = V
  BY DEF AllLinked
<1>3. ASSUME NEW m \in Links, m # l PROVE Linked(inst'[m], wire'[m])
  <2>1. inst'[m] = inst[m] /\ wire'[m] = W[m] /\ W[m] \in [Slots -> Wires]
    BY <1>3 DEF AllLinked
  <2>2. Linked(inst[m], wire[m])
    BY DEF AllLinked
  <2> QED BY <1>3, <2>1, <2>2, ServerStepLinked
<1>4. \A m \in Links : Linked(inst'[m], wire'[m])
  BY <1>2, <1>3
<1> QED BY <1>1, <1>4 DEF AllLinked

LEMMA WireTyped ==
    ASSUME AllLinked, NEW l \in Links
    PROVE  /\ inst[l] \in Instances /\ wire[l] \in [Slots -> Wires]
           /\ Linked(inst[l], wire[l])
           /\ wire = [wire EXCEPT ![l] = wire[l]]
           /\ inst = [inst EXCEPT ![l] = inst[l]]
BY DEF AllLinked

\* Steps of discovery that only change what is known of the peer.
LEMMA DiscoverTyped ==
    ASSUME Typed, NEW l \in Links, Discover(l)
    PROVE  Typed'
<1> DEFINE i == inst[l]
           o == IF \/ i.out = "none"
                   \/ i.out = "idle" /\ i.id # id[l[2]]
                THEN "disconnected" ELSE i.out
           j == [i EXCEPT !.known = TRUE, !.copies = i.copies + 1, !.discontinuing = FALSE,
                          !.id = id[l[2]], !.out = o]
<1>1. AllLinked /\ i \in Instances /\ wire[l] \in [Slots -> Wires] /\ Linked(i, wire[l])
  BY WireTyped DEF Typed
<1>2. id[l[2]] \in Ids
  BY BackLink DEF Typed
<1>2a. \/ o = i.out /\ o # "none"
       \/ i.out \in {"none", "idle"} /\ o = "disconnected"
  OBVIOUS
<1>5. inst' = [inst EXCEPT ![l] = j]
  BY Zenon DEF Discover
<1> HIDE DEF o
<1>3. j \in Instances
  <2>1. i.copies + 1 \in Nat
    BY <1>1 DEF Instances
  <2> QED BY <1>1, <1>2, <1>2a, <2>1 DEF Instances
<1>4. Linked(j, wire[l])
  BY <1>1, <1>3, <1>2a DEF Linked, Instances, Unconnected
<1>5a. wire' = [wire EXCEPT ![l] = wire[l]]
  BY <1>1, WireTyped DEF Discover
<1> HIDE DEF j
<1>6. AllLinked'
  BY <1>1, <1>3, <1>4, <1>5, <1>5a, OneLinkStep DEF AllLinked
<1> QED BY <1>6 DEF Typed, Discover

\* A step that changes an instance in what its connection does not depend on,
\* and server ends only.
LEMMA BookkeepingStep ==
    ASSUME AllLinked, NEW l \in Links, NEW j \in Instances,
           j.conn = inst[l].conn, j.out = inst[l].out,
           inst' = [inst EXCEPT ![l] = j],
           wire' \in [Links -> [Slots -> Wires]],
           \A m \in Links, k \in Slots : wire'[m][k].client = wire[m][k].client
    PROVE  AllLinked'
<1>1. Linked(inst[l], wire[l]) /\ wire'[l] \in [Slots -> Wires]
  BY DEF AllLinked
<1>2. Linked(inst[l], wire'[l])
  BY <1>1, ServerStepLinked
<1>3. Linked(j, wire'[l])
  BY <1>1, <1>2, BookkeepingLinked
<1> DEFINE W == wire'
<1>4. /\ W \in [Links -> [Slots -> Wires]] /\ W[l] \in [Slots -> Wires]
      /\ wire' = [W EXCEPT ![l] = W[l]]
      /\ \A m \in Links, k \in Slots : m # l => W[m][k].client = wire[m][k].client
      /\ Linked(j, W[l])
  BY <1>3
<1> HIDE DEF W
<1> QED BY <1>4, OneLinkStep

LEMMA LossTyped ==
    ASSUME Typed, NEW l \in Links, BrowseRemove(l) \/ AddressQueryFails(l) \/ AddressRemove(l)
    PROVE  Typed'
<1>1. AllLinked /\ inst[l] \in Instances
  BY WireTyped DEF Typed
<1>2. faults' \in 0..MaxFaults
  BY SessionAssumption DEF Typed, BrowseRemove, AddressQueryFails, AddressRemove
<1>3. wire' = wire /\ wire' \in [Links -> [Slots -> Wires]]
  BY DEF BrowseRemove, AddressQueryFails, AddressRemove, Typed, AllLinked
<1>4. CASE BrowseRemove(l)
  <2> DEFINE j == [inst[l] EXCEPT !.copies = @ - 1]
  <2>1. j \in Instances /\ j.conn = inst[l].conn /\ j.out = inst[l].out
    BY <1>1, <1>4 DEF Instances, BrowseRemove
  <2>2. inst' = [inst EXCEPT ![l] = j]
    BY <1>4 DEF BrowseRemove
  <2> HIDE DEF j
  <2>3. AllLinked'
    BY <1>1, <1>3, <2>1, <2>2, BookkeepingStep
  <2> QED BY <1>2, <1>4, <2>3 DEF Typed, BrowseRemove
<1>5. CASE AddressQueryFails(l)
  <2> DEFINE j == [inst[l] EXCEPT !.discontinuing = TRUE]
  <2>1. j \in Instances /\ j.conn = inst[l].conn /\ j.out = inst[l].out
    BY <1>1 DEF Instances
  <2>2. inst' = [inst EXCEPT ![l] = j]
    BY <1>5 DEF AddressQueryFails
  <2> HIDE DEF j
  <2>3. AllLinked'
    BY <1>1, <1>3, <2>1, <2>2, BookkeepingStep
  <2> QED BY <1>2, <1>5, <2>3 DEF Typed, AddressQueryFails
<1>6. CASE AddressRemove(l)
  <2> DEFINE j == [inst[l] EXCEPT !.addr = FALSE, !.cur = -1]
  <2>1. j \in Instances /\ j.conn = inst[l].conn /\ j.out = inst[l].out
    BY <1>1 DEF Instances
  <2>2. inst' = [inst EXCEPT ![l] = j]
    BY <1>1, <1>6 DEF AddressRemove, AllLinked
  <2> HIDE DEF j
  <2>3. AllLinked'
    BY <1>1, <1>3, <2>1, <2>2, BookkeepingStep
  <2> QED BY <1>2, <1>6, <2>3 DEF Typed, AddressRemove
<1> QED BY <1>4, <1>5, <1>6

\* The evaluation of the server id is a step of the server end.
LEMMA EvaluatedTyped ==
    ASSUME NEW w \in Wires, NEW mine
    PROVE  /\ Evaluated(w, mine) \in Wires
           /\ Evaluated(w, mine).client = w.client
           /\ [Evaluated(w, mine) EXCEPT !.cut = TRUE] \in Wires
           /\ [Evaluated(w, mine) EXCEPT !.cut = TRUE].client = w.client
BY DEF Evaluated, Answer, Reject, Wires

\* A regenerated id is an id, and is counted.
LEMMA RegeneratedTyped ==
    ASSUME Typed, NEW m \in Links, NEW w, NEW mine \in NewIds(m, w), Regenerated(m, mine)
    PROVE  id' \in [Servers -> Ids] /\ regens' \in 0..MaxRegens
<1>1. m[2] \in Servers /\ id[m[2]] \in Ids
  BY BackLink DEF Typed
<1>2. mine \in Ids
  BY <1>1 DEF NewIds
<1>3. id' \in [Servers -> Ids]
  BY <1>2 DEF Typed, Regenerated
<1>4. regens' \in 0..MaxRegens
  BY SessionAssumption DEF Typed, Regenerated
<1> QED BY <1>3, <1>4

LEMMA ServerMessageTyped ==
    ASSUME Typed, NEW m \in Links, NEW k \in Slots, srpl_dso_server_message(m, k)
    PROVE  Typed'
<1>1. /\ AllLinked /\ Back(m) \in Links /\ inst[Back(m)] \in Instances
      /\ wire[m] \in [Slots -> Wires] /\ wire[m][k] \in Wires
  BY BackLink, WireTyped DEF Typed, AllLinked
<1>2. CASE HoldUnclaimed(m, k)
  <2> DEFINE w == [wire[m][k] EXCEPT !.server = "unclaimed"]
  <2>1. w \in Wires /\ w.client = wire[m][k].client
    BY <1>1 DEF Wires
  <2>2. wire' = [wire EXCEPT ![m][k] = w]
    BY <1>2 DEF HoldUnclaimed
  <2> HIDE DEF w
  <2>3. /\ wire' \in [Links -> [Slots -> Wires]]
        /\ \A n \in Links, j \in Slots : wire'[n][j].client = wire[n][j].client
    BY <1>1, <2>1, <2>2 DEF AllLinked
  <2>4. inst' = [inst EXCEPT ![m] = inst[m]] /\ inst[m] \in Instances
    BY <1>1, <1>2 DEF AllLinked, HoldUnclaimed
  <2>5. AllLinked'
    BY <1>1, <2>3, <2>4, BookkeepingStep
  <2> QED BY <1>2, <2>5 DEF Typed, HoldUnclaimed, srpl_dso_server_message
<1>3. CASE Associate(m, k)
  <2>1. PICK mine \in NewIds(m, wire[m][k]) :
          Regenerated(m, mine) /\ wire' = [wire EXCEPT ![m][k] = Evaluated(@, mine)]
    BY <1>3 DEF Associate
  <2> DEFINE w == Evaluated(wire[m][k], mine)
             j == [inst[Back(m)] EXCEPT !.incoming = k]
  <2>2. w \in Wires /\ w.client = wire[m][k].client
    BY <1>1, EvaluatedTyped
  <2>3. wire' = [wire EXCEPT ![m][k] = w]
    BY <2>1
  <2> HIDE DEF w
  <2>4. /\ wire' \in [Links -> [Slots -> Wires]]
        /\ \A n \in Links, h \in Slots : wire'[n][h].client = wire[n][h].client
    BY <1>1, <2>2, <2>3 DEF AllLinked
  <2>5. /\ j \in Instances /\ j.conn = inst[Back(m)].conn /\ j.out = inst[Back(m)].out
        /\ inst' = [inst EXCEPT ![Back(m)] = j]
    BY <1>1, <1>3 DEF Instances, Associate
  <2> HIDE DEF j
  <2>6. AllLinked'
    BY <1>1, <2>4, <2>5, BookkeepingStep
  <2>7. id' \in [Servers -> Ids] /\ regens' \in 0..MaxRegens
    BY <2>1, RegeneratedTyped
  <2> QED BY <2>6, <2>7 DEF Typed, srpl_dso_server_message
<1> QED BY <1>2, <1>3 DEF srpl_dso_server_message

LEMMA UnclaimedTimeoutTyped ==
    ASSUME Typed, NEW m \in Links, NEW k \in Slots, UnclaimedTimeout(m, k)
    PROVE  Typed'
<1>1. AllLinked /\ inst[m] \in Instances /\ wire[m] \in [Slots -> Wires] /\ wire[m][k] \in Wires
  BY WireTyped DEF Typed, AllLinked
<1> DEFINE w == [wire[m][k] EXCEPT !.server = "closed", !.up = 0]
<1>2. w \in Wires /\ w.client = wire[m][k].client
  BY <1>1 DEF Wires
<1>3. wire' = [wire EXCEPT ![m][k] = w]
  BY <1>1 DEF UnclaimedTimeout, AllLinked
<1> HIDE DEF w
<1>4. /\ wire' \in [Links -> [Slots -> Wires]]
      /\ \A n \in Links, j \in Slots : wire'[n][j].client = wire[n][j].client
  BY <1>1, <1>2, <1>3 DEF AllLinked
<1>5. inst' = [inst EXCEPT ![m] = inst[m]] /\ inst[m] \in Instances
  BY <1>1 DEF AllLinked, UnclaimedTimeout
<1>6. AllLinked'
  BY <1>1, <1>4, <1>5, BookkeepingStep
<1> QED BY <1>6 DEF Typed, UnclaimedTimeout

\* next_address_get as a step: W may differ from the connections in server
\* ends, and in the client end of the link itself.
LEMMA NextAddressGetStep ==
    ASSUME AllLinked, NEW l \in Links, NEW i \in Instances,
           NEW W \in [Links -> [Slots -> Wires]],
           \A m \in Links, k \in Slots : m # l => W[m][k].client = wire[m][k].client,
           \A k \in Slots : ~ Live(W[l][k]),
           NextAddressGet(l, i, W)
    PROVE  AllLinked'
<1>1. PICK j \in Instances, V \in [Slots -> Wires] : Addressed(l, i, W, j, V)
  BY NextAddressGetLinked
<1> QED BY <1>1, OneLinkStep DEF Addressed

LEMMA NotLive ==
    ASSUME NEW i, NEW U, Linked(i, U), i.out \in Unconnected
    PROVE  i.conn = 0 /\ \A k \in Slots : ~ Live(U[k])
BY ZeroIsNoSlot DEF Linked

\* address_add delivered to the connection of the link.
LEMMA AddressAddedStep ==
    ASSUME AllLinked, NEW l \in Links, NEW i \in Instances,
           i.out = inst[l].out, i.conn = inst[l].conn,
           NEW W \in [Links -> [Slots -> Wires]],
           \A m \in Links, k \in Slots : W[m][k].client = wire[m][k].client,
           AddressAdded(l, i, W)
    PROVE  AllLinked'
<1>1. Linked(inst[l], wire[l])
  BY WireTyped
<1>2. CASE i.out \in {"disconnected", "reconnect_wait"}
  <2>1. \A k \in Slots : ~ Live(W[l][k])
    BY <1>1, <1>2, NotLive DEF Unconnected, Live
  <2> QED BY <1>2, <2>1, NextAddressGetStep DEF AddressAdded
<1>3. CASE i.out \notin {"disconnected", "reconnect_wait"}
  <2>1. inst' = [inst EXCEPT ![l] = i] /\ wire' = W
    BY <1>3 DEF AddressAdded
  <2> QED BY <2>1, BookkeepingStep
<1> QED BY <1>2, <1>3

LEMMA AddressAddTyped ==
    ASSUME Typed, NEW l \in Links, AddressAdd(l)
    PROVE  Typed'
<1> DEFINE m == Back(l)
<1>1. /\ AllLinked /\ m \in Links /\ inst[l] \in Instances
      /\ wire \in [Links -> [Slots -> Wires]]
  BY BackLink, WireTyped DEF Typed, AllLinked
<1>2. CASE /\ Unclaimed(l) = {}
           /\ AddressAdded(l, [inst[l] EXCEPT !.addr = TRUE], wire)
           /\ UNCHANGED <<id, regens>>
  <2> DEFINE j == [inst[l] EXCEPT !.addr = TRUE]
  <2>1. j \in Instances /\ j.conn = inst[l].conn /\ j.out = inst[l].out
    BY <1>1 DEF Instances
  <2>2. AddressAdded(l, j, wire)
    BY <1>2
  <2> HIDE DEF j
  <2>3. AllLinked'
    BY <1>1, <2>1, <2>2, AddressAddedStep
  <2> QED BY <1>2, <2>3 DEF Typed, AddressAdd
<1>3. ASSUME NEW k \in Unclaimed(l), NEW mine \in Ids,
             mine \in NewIds(m, wire[m][k]),
             Regenerated(m, mine),
             AddressAdded(l, [inst[l] EXCEPT !.addr = TRUE, !.incoming = k],
                  [wire EXCEPT ![m][k] = [Evaluated(wire[m][k], mine) EXCEPT !.cut = TRUE]])
      PROVE  Typed'
  <2> DEFINE j == [inst[l] EXCEPT !.addr = TRUE, !.incoming = k]
             w == [Evaluated(wire[m][k], mine) EXCEPT !.cut = TRUE]
             W == [wire EXCEPT ![m][k] = w]
  <2>1. k \in Slots /\ wire[m][k] \in Wires
    BY <1>1 DEF Unclaimed
  <2>2. j \in Instances /\ j.conn = inst[l].conn /\ j.out = inst[l].out
    BY <1>1, <2>1 DEF Instances
  <2>3. w \in Wires /\ w.client = wire[m][k].client
    BY <2>1, EvaluatedTyped
  <2>4. AddressAdded(l, j, W)
    BY <1>3
  <2> HIDE DEF j, w, m
  <2>5. /\ W \in [Links -> [Slots -> Wires]]
        /\ \A n \in Links, h \in Slots : W[n][h].client = wire[n][h].client
    BY <1>1, <2>1, <2>3
  <2> HIDE DEF W
  <2>6. AllLinked'
    BY <1>1, <2>2, <2>4, <2>5, AddressAddedStep
  <2>7. id' \in [Servers -> Ids] /\ regens' \in 0..MaxRegens
    BY <1>1, <1>3, RegeneratedTyped
  <2> QED BY <2>6, <2>7 DEF Typed, AddressAdd
<1> QED BY <1>2, <1>3 DEF AddressAdd

LEMMA ConnectedTyped ==
    ASSUME Typed, NEW l \in Links, NEW k \in Slots, Connected(l, k)
    PROVE  Typed'
<1>1. /\ AllLinked /\ inst[l] \in Instances /\ wire[l] \in [Slots -> Wires]
      /\ wire[l][k] \in Wires /\ Linked(inst[l], wire[l])
  BY WireTyped DEF Typed
<1> DEFINE w == [wire[l][k] EXCEPT !.client = "open", !.server = "accepted", !.up = id[l[1]]]
           j == [inst[l] EXCEPT !.out = "server_id_response_wait"]
           V == [wire[l] EXCEPT ![k] = w]
<1>2. w \in Wires /\ w.client = "open"
  <2>1. id[l[1]] \in Ids
    BY BackLink DEF Typed
  <2> QED BY <1>1, <2>1 DEF Wires
<1>3. j \in Instances /\ j.conn = k /\ j.out = "server_id_response_wait"
  BY <1>1 DEF Instances, Linked, Live, Connected
<1>4. wire' = [wire EXCEPT ![l] = V] /\ inst' = [inst EXCEPT ![l] = j]
  BY <1>1 DEF Connected, AllLinked
<1>5. \A n \in Slots : n # k => ~ Live(V[n])
  BY <1>1, <1>3 DEF Linked, Instances
<1>6. V[k] = w /\ V \in [Slots -> Wires]
  BY <1>1, <1>2
<1> HIDE DEF w, j, V
<1>7. Linked(j, V)
  BY <1>2, <1>3, <1>5, <1>6, ZeroIsNoSlot DEF Linked, Unconnected
<1>8. AllLinked'
  BY <1>1, <1>3, <1>4, <1>6, <1>7, OneLinkStep DEF AllLinked
<1> QED BY <1>8 DEF Typed, Connected

\* ioloop closes the client end.
LEMMA CloseClientTyped ==
    ASSUME NEW W \in [Links -> [Slots -> Wires]], NEW l \in Links, NEW k \in Slots
    PROVE  /\ CloseClient(W, l, k) \in [Links -> [Slots -> Wires]]
           /\ CloseClient(W, l, k)[l][k].client = "closed"
           /\ \A m \in Links, n \in Slots :
                <<m, n>> # <<l, k>> => CloseClient(W, l, k)[m][n] = W[m][n]
<1> DEFINE w == IF W[l][k].server \in {"none", "closed"} THEN NoWire
                ELSE [W[l][k] EXCEPT !.client = "closed", !.down = "none"]
<1>1. w \in Wires /\ w.client = "closed"
  <2>1. W[l][k] \in Wires
    OBVIOUS
  <2>2. NoWire \in Wires /\ NoWire.client = "closed"
    BY NothingTyped DEF NoWire
  <2>3. /\ [W[l][k] EXCEPT !.client = "closed", !.down = "none"] \in Wires
        /\ [W[l][k] EXCEPT !.client = "closed", !.down = "none"].client = "closed"
    BY <2>1 DEF Wires
  <2> QED BY <2>2, <2>3
<1>2. CloseClient(W, l, k) = [W EXCEPT ![l][k] = w]
  BY DEF CloseClient
<1> HIDE DEF w
<1> QED BY <1>1, <1>2

LEMMA ClientGoneTyped ==
    ASSUME AllLinked, NEW l \in Links, NEW k \in Slots, ClientGone(l, k)
    PROVE  AllLinked'
<1> DEFINE i == [inst[l] EXCEPT !.conn = 0]
           W == CloseClient(wire, l, k)
<1>1. /\ inst[l] \in Instances /\ Linked(inst[l], wire[l]) /\ wire[l] \in [Slots -> Wires]
      /\ wire \in [Links -> [Slots -> Wires]]
  BY WireTyped DEF AllLinked
<1>2. /\ W \in [Links -> [Slots -> Wires]]
      /\ W[l][k].client = "closed"
      /\ \A m \in Links, n \in Slots : <<m, n>> # <<l, k>> => W[m][n] = wire[m][n]
  BY <1>1, CloseClientTyped
<1>3. W[l] \in [Slots -> Wires] /\ W = [W EXCEPT ![l] = W[l]]
  BY <1>2
<1>4. \A m \in Links, n \in Slots : m # l => W[m][n].client = wire[m][n].client
  BY <1>2
<1>5. i \in Instances
  BY <1>1 DEF Instances
<1> HIDE DEF W
<1>6. CASE inst[l].conn # k /\ wire' = W /\ UNCHANGED inst
  <2>1. Linked(inst[l], W[l])
    BY <1>1, <1>2, <1>3, <1>6 DEF Linked, Live, Instances
  <2>2. inst' = [inst EXCEPT ![l] = inst[l]]
    BY <1>6 DEF AllLinked
  <2> QED BY <1>1, <1>2, <1>3, <1>4, <1>6, <2>1, <2>2, OneLinkStep
<1>7. ASSUME inst[l].conn = k PROVE \A n \in Slots : ~ Live(W[l][n])
  BY <1>1, <1>2, <1>7 DEF Linked, Live
<1>8. CASE /\ inst[l].conn = k /\ wire' = W
           /\ inst' = [inst EXCEPT ![l] = [i EXCEPT !.out = "idle"]]
  <2> DEFINE j == [i EXCEPT !.out = "idle"]
  <2>1. j \in Instances /\ j.conn = 0 /\ j.out = "idle"
    BY <1>5 DEF Instances
  <2>2. inst' = [inst EXCEPT ![l] = j]
    BY <1>8
  <2> HIDE DEF j
  <2>3. Linked(j, W[l])
    BY <1>3, <1>7, <1>8, <2>1 DEF Linked, Unconnected
  <2> QED BY ZenonT(60), <1>2, <1>3, <1>4, <1>8, <2>1, <2>2, <2>3, OneLinkStep
<1>9. CASE inst[l].conn = k /\ NextAddressGet(l, i, W)
  <2> HIDE DEF i
  <2> QED BY <1>2, <1>4, <1>5, <1>7, <1>9, NextAddressGetStep
<1> QED BY <1>6, <1>8, <1>9 DEF ClientGone, W

LEMMA ClientDisconnectedTyped ==
    ASSUME Typed, NEW l \in Links, NEW k \in Slots,
           ClientDisconnected(l, k) \/ ConnectFails(l, k)
    PROVE  Typed'
<1>1. AllLinked'
  BY ClientGoneTyped DEF Typed, ClientDisconnected, ConnectFails
<1>2. faults' \in 0..MaxFaults
  BY SessionAssumption DEF Typed, ClientDisconnected, ConnectFails
<1> QED BY <1>1, <1>2 DEF Typed, ClientDisconnected, ConnectFails

\* ioloop closes the server end.
LEMMA CloseServerTyped ==
    ASSUME NEW W \in [Links -> [Slots -> Wires]], NEW m \in Links, NEW k \in Slots
    PROVE  /\ CloseServer(W, m, k) \in [Links -> [Slots -> Wires]]
           /\ CloseServer(W, m, k)[m][k].server = "closed"
           /\ CloseServer(W, m, k)[m][k].client = W[m][k].client
           /\ \A n \in Links, j \in Slots :
                <<n, j>> # <<m, k>> => CloseServer(W, m, k)[n][j] = W[n][j]
<1> DEFINE w == IF W[m][k].client = "closed" THEN NoWire
                ELSE [W[m][k] EXCEPT !.server = "closed", !.cut = FALSE, !.up = 0]
<1>1. w \in Wires /\ w.client = W[m][k].client /\ w.server = "closed"
  <2>1. W[m][k] \in Wires
    OBVIOUS
  <2>2. NoWire \in Wires /\ NoWire.client = "closed" /\ NoWire.server = "closed"
    BY NothingTyped DEF NoWire
  <2> QED BY <2>1, <2>2 DEF Wires
<1>2. CloseServer(W, m, k) = [W EXCEPT ![m][k] = w]
  BY DEF CloseServer
<1> HIDE DEF w
<1> QED BY <1>1, <1>2

LEMMA ServerDisconnectedTyped ==
    ASSUME Typed, NEW m \in Links, NEW k \in Slots, ServerDisconnected(m, k)
    PROVE  Typed'
<1> DEFINE b == Back(m)
           j == IF wire[m][k].server \in {"session", "disconnect_wait"}
                THEN [inst[b] EXCEPT !.incoming = 0] ELSE inst[b]
<1>1. /\ AllLinked /\ b \in Links /\ inst[b] \in Instances
      /\ wire \in [Links -> [Slots -> Wires]]
  BY BackLink, WireTyped DEF Typed, AllLinked
<1>2. /\ wire' \in [Links -> [Slots -> Wires]]
      /\ \A n \in Links, h \in Slots : wire'[n][h].client = wire[n][h].client
  <2> DEFINE W == CloseServer(wire, m, k)
  <2>1. /\ W \in [Links -> [Slots -> Wires]]
        /\ W[m][k].client = wire[m][k].client
        /\ \A n \in Links, h \in Slots : <<n, h>> # <<m, k>> => W[n][h] = wire[n][h]
    BY <1>1, CloseServerTyped
  <2>2. wire' = W
    BY DEF ServerDisconnected
  <2> HIDE DEF W
  <2> QED BY <2>1, <2>2
<1>3. j \in Instances /\ j.conn = inst[b].conn /\ j.out = inst[b].out
  BY <1>1 DEF Instances
<1>4. inst' = [inst EXCEPT ![b] = j]
  BY <1>1, WireTyped DEF ServerDisconnected
<1> HIDE DEF j, b
<1>5. AllLinked'
  BY <1>1, <1>2, <1>3, <1>4, BookkeepingStep
<1> QED BY <1>5 DEF Typed, ServerDisconnected

LEMMA ReceiveResponseTyped ==
    ASSUME Typed, NEW l \in Links, NEW k \in Slots, ReceiveResponse(l, k)
    PROVE  Typed'
<1>1. /\ AllLinked /\ inst[l] \in Instances /\ wire[l] \in [Slots -> Wires]
      /\ wire[l][k] \in Wires /\ Linked(inst[l], wire[l])
  BY WireTyped DEF Typed
<1> DEFINE w == [wire[l][k] EXCEPT !.down = "none"]
           j == [inst[l] EXCEPT !.out = "session"]
           V == [wire[l] EXCEPT ![k] = w]
<1>2. w \in Wires /\ w.client = wire[l][k].client
  BY <1>1 DEF Wires
<1>3. j \in Instances /\ j.conn = k /\ j.out = "session" /\ inst[l].conn = k
  BY <1>1 DEF Instances, Linked, Live, ReceiveResponse
<1>4. wire' = [wire EXCEPT ![l] = V] /\ inst' = [inst EXCEPT ![l] = j]
  BY <1>1 DEF ReceiveResponse, AllLinked
<1>5. V \in [Slots -> Wires] /\ \A n \in Slots : V[n].client = wire[l][n].client
  BY <1>1, <1>2
<1> HIDE DEF w, j, V
<1>6. Linked(j, V)
  BY <1>1, <1>3, <1>5, ZeroIsNoSlot DEF Linked, Unconnected, Live
<1>7. AllLinked'
  BY <1>1, <1>3, <1>4, <1>5, <1>6, OneLinkStep DEF AllLinked
<1> QED BY <1>7 DEF Typed, ReceiveResponse

\* Dropping the connection the instance holds: the client end is cancelled.
LEMMA DropTyped ==
    ASSUME AllLinked, NEW l \in Links, NEW k \in Slots, inst[l].conn = k,
           NEW W \in [Links -> [Slots -> Wires]],
           \A m \in Links, n \in Slots : W[m][n].client = wire[m][n].client,
           inst' = [inst EXCEPT ![l] = [Disconnect(@) EXCEPT !.timer = TRUE]],
           wire' = CancelClient(W, l, k)
    PROVE  AllLinked'
<1>1. inst[l] \in Instances /\ Linked(inst[l], wire[l]) /\ W[l][k] \in Wires
  BY WireTyped
<1> DEFINE j == [Disconnect(inst[l]) EXCEPT !.timer = TRUE]
           w == [W[l][k] EXCEPT !.client = "cancelled"]
           V == [W[l] EXCEPT ![k] = w]
<1>2. j \in Instances /\ j.conn = k /\ j.out = "disconnect_wait"
  BY <1>1, ZeroIsNoSlot DEF Instances, Disconnect
<1>3. inst' = [inst EXCEPT ![l] = j]
  BY DEF AllLinked
<1>4. wire' = [W EXCEPT ![l] = V]
  BY ZeroIsNoSlot DEF CancelClient
<1>5. w \in Wires /\ w.client = "cancelled"
  BY <1>1 DEF Wires
<1>6. V \in [Slots -> Wires] /\ V[k] = w /\ \A n \in Slots : n # k => V[n] = W[l][n]
  BY <1>5
<1> HIDE DEF j, w, V
<1>7. Linked(j, V)
  <2>1. ~Live(V[k]) /\ V[k].client # "closed"
    BY <1>5, <1>6 DEF Live
  <2>2. ASSUME NEW n \in Slots, Live(V[n]) PROVE j.conn = n
    <3>1. n # k
      BY <2>1, <2>2
    <3>2. V[n].client = wire[l][n].client
      BY <1>6, <3>1
    <3>3. Live(wire[l][n])
      BY <2>2, <3>2 DEF Live
    <3> QED BY <1>1, <3>1, <3>3 DEF Linked
  <2>3. j.conn # 0 /\ j.out \notin Unconnected
    BY <1>2, ZeroIsNoSlot DEF Unconnected
  <2> QED BY <1>2, <1>6, <2>1, <2>2, <2>3 DEF Linked
<1>8. \A m \in Links, n \in Slots : m # l => W[m][n].client = wire[m][n].client
  OBVIOUS
<1> QED BY <1>2, <1>3, <1>4, <1>6, <1>7, <1>8, OneLinkStep

LEMMA ReceiveRetryDelayTyped ==
    ASSUME Typed, NEW l \in Links, NEW k \in Slots, ReceiveRetryDelay(l, k)
    PROVE  Typed'
<1>1. /\ AllLinked /\ inst[l] \in Instances /\ Linked(inst[l], wire[l])
      /\ wire[l] \in [Slots -> Wires] /\ wire[l][k] \in Wires
  BY WireTyped DEF Typed
<1> DEFINE w == [wire[l][k] EXCEPT !.down = "none"]
           W == [wire EXCEPT ![l][k].down = "none"]
<1>2. w \in Wires /\ w.client = wire[l][k].client
  BY <1>1 DEF Wires
<1>3. W = [wire EXCEPT ![l][k] = w]
  OBVIOUS
<1>4. wire' = CancelClient(W, l, k)
  BY DEF ReceiveRetryDelay
<1> HIDE DEF w, W
<1>5. /\ W \in [Links -> [Slots -> Wires]]
      /\ \A m \in Links, n \in Slots : W[m][n].client = wire[m][n].client
  BY <1>1, <1>2, <1>3 DEF AllLinked
<1>6. inst[l].conn = k
  BY <1>1 DEF ReceiveRetryDelay, Linked, Live
<1>7. AllLinked'
  BY <1>1, <1>4, <1>5, <1>6, DropTyped DEF ReceiveRetryDelay
<1> QED BY <1>7 DEF Typed, ReceiveRetryDelay

LEMMA ClientDropsTyped ==
    ASSUME Typed, NEW l \in Links, NEW k \in Slots, ClientDrops(l, k)
    PROVE  Typed'
<1>1. AllLinked'
  BY DropTyped DEF Typed, AllLinked, ClientDrops, InSession
<1>2. faults' \in 0..MaxFaults
  BY SessionAssumption DEF Typed, ClientDrops
<1> QED BY <1>1, <1>2 DEF Typed, ClientDrops

LEMMA ServerDropsTyped ==
    ASSUME Typed, NEW m \in Links, NEW k \in Slots, ServerDrops(m, k)
    PROVE  Typed'
<1> DEFINE b == Back(m)
           j == [inst[b] EXCEPT !.timer = TRUE]
           Down(d) == [wire[m][k] EXCEPT !.cut = TRUE, !.server = "disconnect_wait", !.down = d]
<1>1. /\ AllLinked /\ b \in Links /\ inst[b] \in Instances
      /\ wire \in [Links -> [Slots -> Wires]] /\ wire[m][k] \in Wires
  BY BackLink, WireTyped DEF Typed, AllLinked
<1>2. PICK d \in {wire[m][k].down, "retry_delay"} : wire' = [wire EXCEPT ![m][k] = Down(d)]
  BY DEF ServerDrops
<1> DEFINE w == Down(d)
<1>2a. wire' = [wire EXCEPT ![m][k] = w]
  BY <1>2
<1>3. w \in Wires /\ w.client = wire[m][k].client
  BY <1>1 DEF Wires
<1>4. j \in Instances /\ j.conn = inst[b].conn /\ j.out = inst[b].out
  BY <1>1 DEF Instances
<1>5. inst' = [inst EXCEPT ![b] = j]
  BY <1>1 DEF ServerDrops
<1> HIDE DEF j, w, b
<1>6. /\ wire' \in [Links -> [Slots -> Wires]]
      /\ \A n \in Links, h \in Slots : wire'[n][h].client = wire[n][h].client
  BY <1>1, <1>2a, <1>3
<1>7. AllLinked'
  BY <1>1, <1>4, <1>5, <1>6, BookkeepingStep
<1>8. faults' \in 0..MaxFaults
  BY SessionAssumption DEF Typed, ServerDrops
<1> QED BY <1>7, <1>8 DEF Typed, ServerDrops

LEMMA TimersTyped ==
    ASSUME Typed, NEW l \in Links, ReconnectTimeout(l) \/ InstanceReconnect(l)
    PROVE  Typed'
<1>1. /\ AllLinked /\ inst[l] \in Instances /\ Linked(inst[l], wire[l])
      /\ wire \in [Links -> [Slots -> Wires]]
  BY WireTyped DEF Typed, AllLinked
<1>2. CASE ReconnectTimeout(l)
  <2>1. \A k \in Slots : ~ Live(wire[l][k])
    BY <1>1, <1>2, NotLive DEF ReconnectTimeout, Unconnected
  <2>2. AllLinked'
    BY <1>1, <1>2, <2>1, NextAddressGetStep DEF ReconnectTimeout
  <2> QED BY <1>2, <2>2 DEF Typed, ReconnectTimeout
<1>3. CASE InstanceReconnect(l)
  <2> DEFINE i == [inst[l] EXCEPT !.timer = FALSE]
  <2>1. i \in Instances /\ i.conn = inst[l].conn /\ i.out = inst[l].out
    BY <1>1 DEF Instances
  <2>2. \/ inst' = [inst EXCEPT ![l] = i] /\ UNCHANGED wire
        \/ i.out = "idle" /\ NextAddressGet(l, i, wire)
    BY <1>3 DEF InstanceReconnect
  <2> HIDE DEF i
  <2>3. CASE inst' = [inst EXCEPT ![l] = i] /\ UNCHANGED wire
    <3>1. AllLinked'
      BY <1>1, <2>1, <2>3, BookkeepingStep
    <3> QED BY <1>3, <3>1 DEF Typed, InstanceReconnect
  <2>4. CASE i.out = "idle" /\ NextAddressGet(l, i, wire)
    <3>1. \A k \in Slots : ~ Live(wire[l][k])
      BY <1>1, <2>1, <2>4, NotLive DEF Unconnected
    <3>2. AllLinked'
      BY <1>1, <2>1, <2>4, <3>1, NextAddressGetStep
    <3> QED BY <1>3, <3>2 DEF Typed, InstanceReconnect
  <2> QED BY <2>2, <2>3, <2>4
<1> QED BY <1>2, <1>3

LEMMA DiscontinueTimeoutTyped ==
    ASSUME Typed, NEW l \in Links, DiscontinueTimeout(l)
    PROVE  Typed'
<1> DEFINE b == Back(l)
           c == inst[l].conn
           W == CancelClient(wire, l, c)
           Orphan(w, k) ==
             IF w.server \notin {"session", "disconnect_wait"} THEN w
             ELSE [w EXCEPT !.server = "orphan", !.cut = @ \/ k = inst[l].incoming]
           B == [k \in Slots |-> Orphan(wire[b][k], k)]
<1>1. /\ AllLinked /\ b \in Links /\ b # l /\ inst[l] \in Instances
      /\ Linked(inst[l], wire[l])
      /\ wire \in [Links -> [Slots -> Wires]]
  BY BackLink, WireTyped DEF Typed, AllLinked
<1>2. ASSUME NEW w \in Wires, NEW k PROVE Orphan(w, k) \in Wires /\ Orphan(w, k).client = w.client
  <2>1. (w.cut \/ k = inst[l].incoming) \in BOOLEAN
    OBVIOUS
  <2> QED BY <2>1 DEF Wires
<1>3. /\ W \in [Links -> [Slots -> Wires]]
      /\ \A m \in Links : m # l => W[m] = wire[m]
      /\ \A k \in Slots : ~ Live(W[l][k])
  <2>1. CASE c = 0
    BY <1>1, <2>1, ZeroIsNoSlot DEF CancelClient, Linked
  <2>2. CASE c \in Slots
    <3> DEFINE x == [wire[l][c] EXCEPT !.client = "cancelled"]
    <3>0. wire[l][c] \in Wires
      BY <1>1, <2>2
    <3>1. x \in Wires /\ x.client = "cancelled"
      BY <3>0 DEF Wires
    <3>2. W = [wire EXCEPT ![l][c] = x]
      BY <2>2, ZeroIsNoSlot DEF CancelClient
    <3>3. \A k \in Slots : Live(wire[l][k]) => k = c
      BY <1>1 DEF Linked
    <3> HIDE DEF x, W, c
    <3> QED BY <1>1, <2>2, <3>1, <3>2, <3>3 DEF Live
  <2> QED BY <1>1, <2>1, <2>2 DEF Instances
<1>4. W[b] = wire[b]
  BY <1>1, <1>3
<1> HIDE DEF Orphan, b
<1>5. B \in [Slots -> Wires] /\ \A k \in Slots : B[k].client = wire[b][k].client
  BY <1>1, <1>2
<1>6. wire' = [W EXCEPT ![b] = B]
  BY <1>4 DEF DiscontinueTimeout, Orphan, b
<1>7. inst' = [inst EXCEPT ![l] = NoInstance]
  BY DEF DiscontinueTimeout
<1> HIDE DEF W, B, c
<1> DEFINE U == [W EXCEPT ![b] = B]
<1>8. /\ U \in [Links -> [Slots -> Wires]] /\ U[l] = W[l] /\ W[l] \in [Slots -> Wires]
      /\ \A m \in Links, k \in Slots : m # l => U[m][k].client = wire[m][k].client
      /\ U = [U EXCEPT ![l] = U[l]]
  BY <1>1, <1>3, <1>5
<1>9. Linked(NoInstance, W[l])
  BY <1>3, <1>8, NothingTyped DEF Linked, Unconnected, NoInstance
<1> HIDE DEF U
<1>10. AllLinked'
  BY <1>1, <1>6, <1>7, <1>8, <1>9, NothingTyped, OneLinkStep DEF U
<1> QED BY <1>10 DEF Typed, DiscontinueTimeout

LEMMA RestartTyped ==
    ASSUME Typed, NEW s \in Servers, Restart(s)
    PROVE  Typed'
<1>1. wire \in [Links -> [Slots -> Wires]] /\ inst \in [Links -> Instances]
  BY DEF Typed, AllLinked
<1>2. PICK n \in Ids : id' = [id EXCEPT ![s] = n]
  BY DEF Restart
<1>3. id' \in [Servers -> Ids]
  BY <1>2 DEF Typed
<1>4. inst' \in [Links -> Instances]
  BY <1>1, NothingTyped DEF Restart
<1>5. ASSUME NEW l \in Links, NEW k \in Slots
      PROVE  /\ wire'[l][k] \in Wires
             /\ l[1] = s => wire'[l][k].client = "closed"
             /\ l[1] # s => wire'[l][k].client = wire[l][k].client
  <2>1. /\ CloseClient(wire, l, k)[l][k] \in Wires
        /\ CloseClient(wire, l, k)[l][k].client = "closed"
    <3>1. CloseClient(wire, l, k) \in [Links -> [Slots -> Wires]]
      BY <1>1, CloseClientTyped
    <3>2. CloseClient(wire, l, k)[l][k].client = "closed"
      BY <1>1, CloseClientTyped
    <3> QED BY <3>1, <3>2
  <2>2. /\ CloseServer(wire, l, k)[l][k] \in Wires
        /\ CloseServer(wire, l, k)[l][k].client = wire[l][k].client
    BY <1>1, CloseServerTyped
  <2>3. wire'[l][k] = IF l[1] = s THEN CloseClient(wire, l, k)[l][k]
                      ELSE IF l[2] = s /\ wire[l][k] # NoWire THEN CloseServer(wire, l, k)[l][k]
                      ELSE wire[l][k]
    BY DEF Restart
  <2> QED BY <1>1, <2>1, <2>2, <2>3
<1>6. wire' \in [Links -> [Slots -> Wires]]
  BY <1>5 DEF Restart
<1>7. ASSUME NEW l \in Links PROVE Linked(inst'[l], wire'[l])
  <2>1. Linked(inst[l], wire[l]) /\ wire'[l] \in [Slots -> Wires]
    BY <1>6 DEF Typed, AllLinked
  <2>2. CASE l[1] = s
    <3>1. inst'[l] = NoInstance
      BY <2>2 DEF Restart
    <3> QED BY <1>5, <2>1, <2>2, <3>1, NothingTyped DEF Linked, Unconnected, NoInstance, Live
  <2>3. CASE l[1] # s
    <3>1. inst'[l] = inst[l]
      BY <2>3 DEF Restart
    <3> QED BY <1>5, <2>1, <2>3, <3>1, ServerStepLinked
  <2> QED BY <2>2, <2>3
<1>8. AllLinked'
  BY <1>4, <1>6, <1>7 DEF AllLinked
<1>9. faults' \in 0..MaxFaults
  BY SessionAssumption DEF Typed, Restart
<1> QED BY <1>3, <1>8, <1>9 DEF Typed, Restart

LEMMA InitTyped == Init => Typed
<1> SUFFICES ASSUME Init PROVE Typed
  OBVIOUS
<1>1. inst \in [Links -> Instances] /\ wire \in [Links -> [Slots -> Wires]]
  BY NothingTyped DEF Init
<1>2. ASSUME NEW l \in Links PROVE Linked(inst[l], wire[l])
  BY <1>1, NothingTyped DEF Init, Linked, Unconnected, Live, NoInstance, NoWire
<1>3. regens \in 0..MaxRegens /\ faults \in 0..MaxFaults
  BY SessionAssumption DEF Init
<1> QED BY <1>1, <1>2, <1>3 DEF Init, Typed, AllLinked

LEMMA NextTyped == Typed /\ [Next]_vars => Typed'
<1> SUFFICES ASSUME Typed, [Next]_vars PROVE Typed'
  OBVIOUS
<1>1. CASE UNCHANGED vars
  BY <1>1 DEF Typed, AllLinked, vars
<1>2. ASSUME NEW l \in Links, Discovery(l) PROVE Typed'
  BY <1>2, DiscoverTyped, AddressAddTyped DEF Discovery
<1>3. ASSUME NEW l \in Links, NEW k \in Slots, Network(l, k) PROVE Typed'
  BY <1>3, ConnectedTyped, ServerMessageTyped, ReceiveResponseTyped, ReceiveRetryDelayTyped,
     ClientDisconnectedTyped, ServerDisconnectedTyped DEF Network
<1>4. ASSUME NEW l \in Links, NEW k \in Slots, UnclaimedTimeout(l, k) PROVE Typed'
  BY <1>4, UnclaimedTimeoutTyped
<1>5. ASSUME NEW l \in Links, Timers(l) PROVE Typed'
  BY <1>5, TimersTyped, DiscontinueTimeoutTyped DEF Timers
<1>6. CASE Faults
  BY <1>6, LossTyped, ClientDisconnectedTyped, ServerDropsTyped, ClientDropsTyped, RestartTyped
     DEF Faults
<1> QED BY <1>1, <1>2, <1>3, <1>4, <1>5, <1>6 DEF Next

LEMMA TypedImpliesTypeOK == Typed => TypeOK
BY DEF Typed, TypeOK, AllLinked, Linked, Unconnected

\* SRPLSession is type-correct, and the outgoing srpl_connection_t holds a
\* connection exactly in the states that have one: no callback, timer or
\* fault leaves an instance with a connection whose end is closed.
THEOREM TypeCorrect == Spec => []TypeOK
<1>1. Spec => []Typed
  BY InitTyped, NextTyped, PTL DEF Spec
<1> QED BY <1>1, TypedImpliesTypeOK, PTL

-----------------------------------------------------------------------------
(* The election.                                                           *)

\* What a connection from the server with id a to the server with id b
\* implies, as long as its client has not closed it: the id on its way is the
\* client's, and the server answered only a larger id.
Elected(w, a, b) ==
  w.client # "closed" => /\ w.up # 0 => w.up = a
                         /\ w.server = "session" => b < a

ElectedIn(W) == \A l \in Links, k \in Slots : Elected(W[l][k], id[l[1]], id[l[2]])

Elections == regens = 0 => ElectedIn(wire)

\* A connection on which no id is sent and none is answered.
LEMMA StillElected ==
    ASSUME NEW w \in Wires, NEW v \in Wires, NEW a, NEW b, Elected(w, a, b),
           v.up \in {0, w.up}, v.server = "session" => w.server = "session",
           v.client # "closed" => w.client # "closed"
    PROVE  Elected(v, a, b)
BY DEF Elected

LEMMA NewElected ==
    ASSUME NEW a, NEW b
    PROVE  Elected(NoWire, a, b) /\ \A w : Fresh(w) => Elected(w, a, b)
BY DEF Elected, NoWire, Fresh

\* One connection changes.
LEMMA OneElected ==
    ASSUME NEW W \in [Links -> [Slots -> Wires]], ElectedIn(W),
           NEW l \in Links, NEW k \in Slots,
           NEW w \in Wires, Elected(w, id[l[1]], id[l[2]])
    PROVE  ElectedIn([W EXCEPT ![l][k] = w])
BY DEF ElectedIn

LEMMA NextAddressGetElected ==
    ASSUME NEW l \in Links, NEW i \in Instances,
           NEW W \in [Links -> [Slots -> Wires]], ElectedIn(W),
           \A k \in Slots : ~ Live(W[l][k]),
           NextAddressGet(l, i, W)
    PROVE  ElectedIn(wire')
<1>1. PICK j \in Instances, V \in [Slots -> Wires] : Addressed(l, i, W, j, V)
  BY NextAddressGetLinked
<1>2. /\ wire' = [W EXCEPT ![l] = V]
      /\ \A k \in Slots : V[k] = W[l][k] \/ Fresh(V[k])
  BY <1>1 DEF Addressed
<1> DEFINE U == [W EXCEPT ![l] = V]
<1>3. ASSUME NEW m \in Links, NEW k \in Slots PROVE Elected(U[m][k], id[m[1]], id[m[2]])
  <2>1. U[m][k] = W[m][k] \/ Fresh(U[m][k])
    BY <1>2
  <2>2. Elected(W[m][k], id[m[1]], id[m[2]])
    BY DEF ElectedIn
  <2> QED BY <2>1, <2>2, NewElected
<1> QED BY <1>2, <1>3 DEF ElectedIn

\* server_id_evaluate answers a larger id only.
LEMMA EvaluatedElected ==
    ASSUME Typed, NEW w \in Wires, NEW m \in Links, Elected(w, id[m[1]], id[m[2]])
    PROVE  /\ Elected(Evaluated(w, id[m[2]]), id[m[1]], id[m[2]])
           /\ Elected([Evaluated(w, id[m[2]]) EXCEPT !.cut = TRUE], id[m[1]], id[m[2]])
<1>1. id[m[2]] \in Nat \ {0}
  BY BackLink, SessionAssumption DEF Typed
<1> QED BY <1>1 DEF Evaluated, Answer, Reject, Elected, Wires

\* As long as no id has been regenerated, an evaluation leaves the ids alone.
LEMMA NoRegeneration ==
    ASSUME Typed, regens' = 0, NEW m \in Links, NEW mine, Regenerated(m, mine)
    PROVE  mine = id[m[2]] /\ id' = id /\ regens = 0
<1>1. regens \in Nat /\ id \in [Servers -> Ids]
  BY SessionAssumption DEF Typed
<1>2. mine = id[m[2]] /\ regens = 0
  BY <1>1 DEF Regenerated
<1> QED BY <1>1, <1>2 DEF Regenerated

LEMMA CloseClientElected ==
    ASSUME NEW W \in [Links -> [Slots -> Wires]], ElectedIn(W), NEW l \in Links, NEW k \in Slots
    PROVE  ElectedIn(CloseClient(W, l, k))
<1>1. /\ CloseClient(W, l, k)[l][k].client = "closed"
      /\ \A m \in Links, n \in Slots :
           <<m, n>> # <<l, k>> => CloseClient(W, l, k)[m][n] = W[m][n]
  BY CloseClientTyped
<1> QED BY <1>1 DEF ElectedIn, Elected

LEMMA CloseServerElected ==
    ASSUME NEW W \in [Links -> [Slots -> Wires]], ElectedIn(W), NEW m \in Links, NEW k \in Slots
    PROVE  ElectedIn(CloseServer(W, m, k))
<1> DEFINE w == IF W[m][k].client = "closed" THEN NoWire
                ELSE [W[m][k] EXCEPT !.server = "closed", !.cut = FALSE, !.up = 0]
<1>1. CloseServer(W, m, k) = [W EXCEPT ![m][k] = w]
  BY DEF CloseServer
<1>2. W[m][k] \in Wires
  OBVIOUS
<1>3. [W[m][k] EXCEPT !.server = "closed", !.cut = FALSE, !.up = 0] \in Wires
  BY <1>2 DEF Wires
<1>4. Elected([W[m][k] EXCEPT !.server = "closed", !.cut = FALSE, !.up = 0], id[m[1]], id[m[2]])
  BY <1>2 DEF Elected, Wires
<1>5. w \in Wires /\ Elected(w, id[m[1]], id[m[2]])
  BY <1>3, <1>4, NewElected, NothingTyped
<1> HIDE DEF w
<1>6. ElectedIn([W EXCEPT ![m][k] = w])
  BY <1>5, OneElected
<1> QED BY <1>1, <1>6

LEMMA ClientGoneElected ==
    ASSUME AllLinked, ElectedIn(wire), NEW l \in Links, NEW k \in Slots, ClientGone(l, k)
    PROVE  ElectedIn(wire')
<1> DEFINE i == [inst[l] EXCEPT !.conn = 0]
           W == CloseClient(wire, l, k)
<1>1. /\ inst[l] \in Instances /\ Linked(inst[l], wire[l])
      /\ wire \in [Links -> [Slots -> Wires]]
  BY WireTyped DEF AllLinked
<1>2. /\ W \in [Links -> [Slots -> Wires]]
      /\ W[l][k].client = "closed"
      /\ \A m \in Links, n \in Slots : <<m, n>> # <<l, k>> => W[m][n] = wire[m][n]
      /\ ElectedIn(W)
  BY <1>1, CloseClientTyped, CloseClientElected
<1>3. i \in Instances
  BY <1>1 DEF Instances
<1> HIDE DEF W, i
<1>4. CASE wire' = W
  BY <1>2, <1>4
<1>5. CASE inst[l].conn = k /\ NextAddressGet(l, i, W)
  <2>1. \A n \in Slots : ~ Live(W[l][n])
    BY <1>1, <1>2, <1>5 DEF Linked, Live
  <2> QED BY <1>2, <1>3, <1>5, <2>1, NextAddressGetElected
<1> QED BY <1>4, <1>5 DEF ClientGone, W, i

LEMMA AddressAddElected ==
    ASSUME Typed, ElectedIn(wire), NEW l \in Links, AddressAdd(l), regens' = 0
    PROVE  ElectedIn(wire') /\ id' = id
<1> DEFINE m == Back(l)
<1>1. /\ AllLinked /\ m \in Links /\ inst[l] \in Instances
      /\ wire \in [Links -> [Slots -> Wires]] /\ Linked(inst[l], wire[l])
  BY BackLink, WireTyped DEF Typed, AllLinked
<1>2. ASSUME NEW i \in Instances, i.out = inst[l].out,
             NEW W \in [Links -> [Slots -> Wires]], ElectedIn(W),
             \A n \in Links, k \in Slots : W[n][k].client = wire[n][k].client,
             AddressAdded(l, i, W)
      PROVE  ElectedIn(wire')
  <2>1. CASE i.out \in {"disconnected", "reconnect_wait"}
    <3>1. \A k \in Slots : ~ Live(W[l][k])
      BY <1>1, <1>2, <2>1, NotLive DEF Unconnected, Live
    <3> QED BY <1>2, <2>1, <3>1, NextAddressGetElected DEF AddressAdded
  <2>2. CASE i.out \notin {"disconnected", "reconnect_wait"}
    BY <1>2, <2>2 DEF AddressAdded
  <2> QED BY <2>1, <2>2
<1>3. CASE /\ AddressAdded(l, [inst[l] EXCEPT !.addr = TRUE], wire)
           /\ UNCHANGED <<id, regens>>
  <2> DEFINE j == [inst[l] EXCEPT !.addr = TRUE]
  <2>1. j \in Instances /\ j.out = inst[l].out
    BY <1>1 DEF Instances
  <2>2. AddressAdded(l, j, wire)
    BY <1>3
  <2> HIDE DEF j
  <2>3. ElectedIn(wire')
    BY <1>1, <1>2, <2>1, <2>2
  <2> QED BY <1>3, <2>3
<1>4. ASSUME NEW k \in Unclaimed(l), NEW mine \in Ids,
             Regenerated(m, mine),
             AddressAdded(l, [inst[l] EXCEPT !.addr = TRUE, !.incoming = k],
                  [wire EXCEPT ![m][k] = [Evaluated(wire[m][k], mine) EXCEPT !.cut = TRUE]])
      PROVE  ElectedIn(wire') /\ id' = id
  <2> DEFINE j == [inst[l] EXCEPT !.addr = TRUE, !.incoming = k]
             w == [Evaluated(wire[m][k], mine) EXCEPT !.cut = TRUE]
             W == [wire EXCEPT ![m][k] = w]
  <2>1. k \in Slots /\ wire[m][k] \in Wires
    BY <1>1 DEF Unclaimed
  <2>2. j \in Instances /\ j.out = inst[l].out
    BY <1>1, <2>1 DEF Instances
  <2>3. w \in Wires /\ w.client = wire[m][k].client
    BY <2>1, EvaluatedTyped
  <2>4. mine = id[m[2]] /\ id' = id
    BY <1>1, <1>4, NoRegeneration
  <2>5. Elected(wire[m][k], id[m[1]], id[m[2]])
    BY <1>1, <2>1 DEF ElectedIn
  <2>6. Elected(w, id[m[1]], id[m[2]])
    BY <1>1, <1>4, <2>1, <2>4, <2>5, EvaluatedElected
  <2>7. AddressAdded(l, j, W)
    BY <1>4
  <2> HIDE DEF j, w, m
  <2>8. ElectedIn(W)
    BY <1>1, <2>1, <2>3, <2>6, OneElected
  <2>9. /\ W \in [Links -> [Slots -> Wires]]
        /\ \A n \in Links, h \in Slots : W[n][h].client = wire[n][h].client
    BY <1>1, <2>1, <2>3
  <2> HIDE DEF W
  <2> QED BY <1>2, <2>2, <2>4, <2>7, <2>8, <2>9
<1> QED BY <1>3, <1>4 DEF AddressAdd

LEMMA ServerMessageElected ==
    ASSUME Typed, ElectedIn(wire), NEW m \in Links, NEW k \in Slots,
           srpl_dso_server_message(m, k), regens' = 0
    PROVE  ElectedIn(wire') /\ id' = id
<1>1. /\ wire \in [Links -> [Slots -> Wires]] /\ wire[m][k] \in Wires
      /\ Elected(wire[m][k], id[m[1]], id[m[2]])
  BY DEF Typed, AllLinked, ElectedIn
<1>2. CASE HoldUnclaimed(m, k)
  <2> DEFINE w == [wire[m][k] EXCEPT !.server = "unclaimed"]
  <2>1. w \in Wires /\ Elected(w, id[m[1]], id[m[2]])
    BY <1>1 DEF Wires, Elected
  <2>2. wire' = [wire EXCEPT ![m][k] = w] /\ id' = id
    BY <1>2 DEF HoldUnclaimed
  <2> HIDE DEF w
  <2>3. ElectedIn([wire EXCEPT ![m][k] = w])
    BY <1>1, <2>1, OneElected
  <2> QED BY <2>2, <2>3
<1>3. CASE Associate(m, k)
  <2>1. PICK mine \in NewIds(m, wire[m][k]) :
          Regenerated(m, mine) /\ wire' = [wire EXCEPT ![m][k] = Evaluated(@, mine)]
    BY <1>3 DEF Associate
  <2>2. mine = id[m[2]] /\ id' = id
    BY <2>1, NoRegeneration
  <2> DEFINE w == Evaluated(wire[m][k], id[m[2]])
  <2>3. w \in Wires /\ Elected(w, id[m[1]], id[m[2]])
    BY <1>1, EvaluatedTyped, EvaluatedElected
  <2>4. wire' = [wire EXCEPT ![m][k] = w]
    BY <2>1, <2>2
  <2> HIDE DEF w
  <2>5. ElectedIn([wire EXCEPT ![m][k] = w])
    BY <1>1, <2>3, OneElected
  <2> QED BY <2>2, <2>4, <2>5
<1> QED BY <1>2, <1>3 DEF srpl_dso_server_message

\* One connection on which no id is sent and none is answered.
LEMMA OneStillElected ==
    ASSUME Typed, ElectedIn(wire), NEW l \in Links, NEW k \in Slots, NEW w \in Wires,
           w.up \in {0, wire[l][k].up}, w.server = "session" => wire[l][k].server = "session",
           w.client # "closed" => wire[l][k].client # "closed",
           wire' = [wire EXCEPT ![l][k] = w]
    PROVE  ElectedIn(wire')
<1>1. /\ wire \in [Links -> [Slots -> Wires]] /\ wire[l][k] \in Wires
      /\ Elected(wire[l][k], id[l[1]], id[l[2]])
  BY DEF Typed, AllLinked, ElectedIn
<1>2. Elected(w, id[l[1]], id[l[2]])
  BY <1>1, StillElected
<1>3. ElectedIn([wire EXCEPT ![l][k] = w])
  BY <1>1, <1>2, OneElected
<1> QED BY <1>3

LEMMA NetworkElected ==
    ASSUME Typed, ElectedIn(wire), NEW l \in Links, NEW k \in Slots, Network(l, k), regens' = 0
    PROVE  ElectedIn(wire') /\ id' = id
<1>0. /\ AllLinked /\ wire \in [Links -> [Slots -> Wires]] /\ wire[l][k] \in Wires
      /\ Linked(inst[l], wire[l])
  BY DEF Typed, AllLinked
<1>1. CASE Connected(l, k)
  <2> DEFINE w == [wire[l][k] EXCEPT !.client = "open", !.server = "accepted", !.up = id[l[1]]]
  <2>1. id[l[1]] \in Ids
    BY BackLink DEF Typed
  <2>2. w \in Wires /\ Elected(w, id[l[1]], id[l[2]])
    BY <1>0, <2>1 DEF Wires, Elected
  <2>3. wire' = [wire EXCEPT ![l][k] = w] /\ id' = id
    BY <1>1 DEF Connected
  <2> HIDE DEF w
  <2>4. ElectedIn([wire EXCEPT ![l][k] = w])
    BY <1>0, <2>2, OneElected
  <2> QED BY <2>3, <2>4
<1>2. CASE srpl_dso_server_message(l, k)
  BY <1>2, ServerMessageElected
<1>3. CASE ReceiveResponse(l, k)
  <2> DEFINE w == [wire[l][k] EXCEPT !.down = "none"]
  <2>1. w \in Wires /\ w.up = wire[l][k].up /\ w.server = wire[l][k].server
        /\ w.client = wire[l][k].client
    BY <1>0 DEF Wires
  <2>2. wire' = [wire EXCEPT ![l][k] = w] /\ id' = id
    BY <1>3 DEF ReceiveResponse
  <2> HIDE DEF w
  <2> QED BY <2>1, <2>2, OneStillElected
<1>4. CASE ReceiveRetryDelay(l, k)
  <2> DEFINE w == [wire[l][k] EXCEPT !.down = "none", !.client = "cancelled"]
  <2>1. w \in Wires /\ w.up = wire[l][k].up /\ w.server = wire[l][k].server
        /\ wire[l][k].client # "closed"
    BY <1>0, <1>4 DEF Wires, ReceiveRetryDelay
  <2>2. wire' = [wire EXCEPT ![l][k] = w] /\ id' = id
    BY <1>0, <1>4, ZeroIsNoSlot DEF ReceiveRetryDelay, CancelClient
  <2> HIDE DEF w
  <2> QED BY <2>1, <2>2, OneStillElected
<1>5. CASE ClientDisconnected(l, k)
  BY <1>0, <1>5, ClientGoneElected DEF ClientDisconnected
<1>6. CASE ServerDisconnected(l, k)
  BY <1>0, <1>6, CloseServerElected DEF ServerDisconnected
<1> QED BY <1>1, <1>2, <1>3, <1>4, <1>5, <1>6 DEF Network

LEMMA TimersElected ==
    ASSUME Typed, ElectedIn(wire), NEW l \in Links, Timers(l)
    PROVE  ElectedIn(wire') /\ id' = id
<1>0. /\ AllLinked /\ wire \in [Links -> [Slots -> Wires]] /\ inst[l] \in Instances
      /\ Linked(inst[l], wire[l])
  BY DEF Typed, AllLinked
<1>1. CASE ReconnectTimeout(l)
  <2>1. \A k \in Slots : ~ Live(wire[l][k])
    BY <1>0, <1>1, NotLive DEF ReconnectTimeout, Unconnected
  <2> QED BY <1>0, <1>1, <2>1, NextAddressGetElected DEF ReconnectTimeout
<1>2. CASE InstanceReconnect(l)
  <2> DEFINE i == [inst[l] EXCEPT !.timer = FALSE]
  <2>1. i \in Instances /\ i.out = inst[l].out
    BY <1>0 DEF Instances
  <2>2. \/ UNCHANGED wire
        \/ i.out = "idle" /\ NextAddressGet(l, i, wire)
    BY <1>2 DEF InstanceReconnect
  <2>3. id' = id
    BY <1>2 DEF InstanceReconnect
  <2> HIDE DEF i
  <2>4. CASE UNCHANGED wire
    BY <2>3, <2>4
  <2>5. CASE i.out = "idle" /\ NextAddressGet(l, i, wire)
    <3>1. \A k \in Slots : ~ Live(wire[l][k])
      BY <1>0, <2>1, <2>5, NotLive DEF Unconnected
    <3> QED BY <1>0, <2>1, <2>3, <2>5, <3>1, NextAddressGetElected
  <2> QED BY <2>2, <2>4, <2>5
<1>3. CASE DiscontinueTimeout(l)
  <2> DEFINE b == Back(l)
             c == inst[l].conn
             W == CancelClient(wire, l, c)
             Orphan(w, k) ==
               IF w.server \notin {"session", "disconnect_wait"} THEN w
               ELSE [w EXCEPT !.server = "orphan", !.cut = @ \/ k = inst[l].incoming]
             B == [k \in Slots |-> Orphan(W[b][k], k)]
  <2>1. b \in Links /\ b # l /\ (c = 0 \/ c \in Slots)
    BY <1>0, BackLink DEF Instances
  <2>2. ASSUME NEW w \in Wires, NEW k, NEW x, NEW y, Elected(w, x, y)
        PROVE  Elected(Orphan(w, k), x, y)
    BY <2>2 DEF Wires, Elected
  <2>3. W \in [Links -> [Slots -> Wires]] /\ ElectedIn(W)
    <3>1. CASE c = 0
      BY <1>0, <3>1 DEF CancelClient
    <3>2. CASE c \in Slots
      <4> DEFINE x == [wire[l][c] EXCEPT !.client = "cancelled"]
      <4>0. wire[l][c] \in Wires /\ wire[l][c].client # "closed"
        BY <1>0, <3>2, ZeroIsNoSlot DEF Linked
      <4>1. x \in Wires
        BY <4>0 DEF Wires
      <4>2. W = [wire EXCEPT ![l][c] = x]
        BY <3>2, ZeroIsNoSlot DEF CancelClient
      <4>3. Elected(wire[l][c], id[l[1]], id[l[2]])
        BY <3>2 DEF ElectedIn
      <4>4. Elected(x, id[l[1]], id[l[2]])
        BY <4>0, <4>3 DEF Elected, Wires
      <4> HIDE DEF x, W, c
      <4>5. ElectedIn([wire EXCEPT ![l][c] = x])
        BY <1>0, <3>2, <4>1, <4>4, OneElected
      <4> QED BY <1>0, <3>2, <4>1, <4>2, <4>5
    <3> QED BY <2>1, <3>1, <3>2
  <2>4. wire' = [W EXCEPT ![b] = B] /\ id' = id
    BY <1>3 DEF DiscontinueTimeout
  <2> HIDE DEF Orphan, W, b, c
  <2>5. \A k \in Slots : Elected(B[k], id[b[1]], id[b[2]])
    BY <2>1, <2>2, <2>3 DEF ElectedIn
  <2> HIDE DEF B
  <2>6. ElectedIn([W EXCEPT ![b] = B])
    BY <2>1, <2>3, <2>5 DEF ElectedIn
  <2> QED BY <2>4, <2>6
<1> QED BY <1>1, <1>2, <1>3 DEF Timers

LEMMA FaultsElected ==
    ASSUME Typed, ElectedIn(wire), Faults
    PROVE  Elections'
<1>0. AllLinked /\ wire \in [Links -> [Slots -> Wires]]
  BY DEF Typed, AllLinked
<1>1. ASSUME ElectedIn(wire'), id' = id PROVE Elections'
  BY <1>1 DEF Elections, ElectedIn
<1>2. ASSUME NEW l \in Links, BrowseRemove(l) \/ AddressQueryFails(l) \/ AddressRemove(l)
      PROVE  Elections'
  BY <1>1, <1>2 DEF BrowseRemove, AddressQueryFails, AddressRemove
<1>3. ASSUME NEW l \in Links, NEW k \in Slots, ConnectFails(l, k) PROVE Elections'
  BY <1>0, <1>1, <1>3, ClientGoneElected DEF ConnectFails
<1>4. ASSUME NEW m \in Links, NEW k \in Slots, ServerDrops(m, k) PROVE Elections'
  <2> DEFINE Down(d) == [wire[m][k] EXCEPT !.cut = TRUE, !.server = "disconnect_wait", !.down = d]
  <2>1. wire[m][k] \in Wires /\ id' = id
    BY <1>0, <1>4 DEF ServerDrops
  <2>0. PICK d \in {wire[m][k].down, "retry_delay"} : wire' = [wire EXCEPT ![m][k] = Down(d)]
    BY <1>4 DEF ServerDrops
  <2> DEFINE w == Down(d)
  <2>2. w \in Wires /\ w.up = wire[m][k].up /\ w.server # "session" /\ w.client = wire[m][k].client
    BY <2>1 DEF Wires
  <2>3. wire' = [wire EXCEPT ![m][k] = w] /\ id' = id
    BY <2>0, <2>1
  <2> HIDE DEF w
  <2>4. ElectedIn(wire')
    BY <2>2, <2>3, OneStillElected
  <2> QED BY <1>1, <2>3, <2>4
<1>5. ASSUME NEW l \in Links, NEW k \in Slots, ClientDrops(l, k) PROVE Elections'
  <2> DEFINE w == [wire[l][k] EXCEPT !.client = "cancelled"]
  <2>1. wire[l][k] \in Wires
    BY <1>0
  <2>2. w \in Wires /\ w.up = wire[l][k].up /\ w.server = wire[l][k].server
        /\ wire[l][k].client # "closed"
    BY <1>5, <2>1 DEF Wires, ClientDrops, InSession
  <2>3. wire' = [wire EXCEPT ![l][k] = w] /\ id' = id
    BY <1>0, <1>5, ZeroIsNoSlot DEF ClientDrops, CancelClient
  <2> HIDE DEF w
  <2>4. ElectedIn(wire')
    BY <2>2, <2>3, OneStillElected
  <2> QED BY <1>1, <2>3, <2>4
<1>6. ASSUME NEW s \in Servers, Restart(s) PROVE Elections'
  <2>1. PICK n \in Ids : id' = [id EXCEPT ![s] = n]
    BY <1>6 DEF Restart
  <2>2. ASSUME NEW l \in Links, NEW k \in Slots
        PROVE  Elected(wire'[l][k], id'[l[1]], id'[l[2]])
    <3>1. wire'[l][k] = IF l[1] = s THEN CloseClient(wire, l, k)[l][k]
                        ELSE IF l[2] = s /\ wire[l][k] # NoWire THEN CloseServer(wire, l, k)[l][k]
                        ELSE wire[l][k]
      BY <1>6 DEF Restart
    <3>2. l[1] \in Servers /\ l[2] \in Servers /\ id \in [Servers -> Ids]
      BY BackLink DEF Typed
    <3>3. CASE l[1] = s
      <4>1. CloseClient(wire, l, k)[l][k].client = "closed"
        BY <1>0, CloseClientTyped
      <4> QED BY <3>1, <3>3, <4>1 DEF Elected
    <3>4. CASE l[1] # s /\ l[2] # s
      <4>1. id'[l[1]] = id[l[1]] /\ id'[l[2]] = id[l[2]] /\ wire'[l][k] = wire[l][k]
        BY <2>1, <3>1, <3>2, <3>4
      <4> QED BY <4>1 DEF ElectedIn
    <3>5. CASE l[1] # s /\ l[2] = s /\ wire[l][k] = NoWire
      <4>1. wire'[l][k] = NoWire
        BY <3>1, <3>5
      <4> QED BY <4>1, NewElected
    <3>6. CASE l[1] # s /\ l[2] = s /\ wire[l][k] # NoWire
      <4> DEFINE w == CloseServer(wire, l, k)[l][k]
      <4>1. ElectedIn(CloseServer(wire, l, k))
        BY <1>0, CloseServerElected
      <4>2. Elected(w, id[l[1]], id[l[2]])
        BY <4>1 DEF ElectedIn
      <4>3. w.server = "closed"
        BY <1>0, CloseServerTyped
      <4>4. wire'[l][k] = w /\ id'[l[1]] = id[l[1]]
        BY <2>1, <3>1, <3>2, <3>6
      <4> HIDE DEF w
      <4> QED BY <4>2, <4>3, <4>4 DEF Elected
    <3> QED BY <3>3, <3>4, <3>5, <3>6
  <2> QED BY <2>2 DEF Elections, ElectedIn
<1> QED BY <1>2, <1>3, <1>4, <1>5, <1>6 DEF Faults

\* The number of regenerated ids never decreases.
LEMMA RegensGrow ==
    ASSUME Typed, [Next]_vars, regens' = 0
    PROVE  regens = 0
<1>1. regens \in Nat
  BY SessionAssumption DEF Typed
<1>2. ASSUME NEW m, NEW mine, Regenerated(m, mine) PROVE regens = 0
  BY <1>1, <1>2 DEF Regenerated
<1> QED BY ZenonT(60), <1>1, <1>2 DEF Next, vars, Discovery, Discover, AddressAdd, Network, Connected,
      srpl_dso_server_message, HoldUnclaimed, Associate, ReceiveResponse, ReceiveRetryDelay,
      ClientDisconnected, ServerDisconnected, UnclaimedTimeout, Timers, ReconnectTimeout,
      InstanceReconnect, DiscontinueTimeout, Faults, BrowseRemove, AddressQueryFails,
      AddressRemove, ConnectFails, ServerDrops, ClientDrops, Restart

LEMMA NextElections == Typed /\ Elections /\ [Next]_vars => Elections'
<1> SUFFICES ASSUME Typed, Elections, [Next]_vars, regens' = 0 PROVE Elections'
  BY DEF Elections
<1>1. ElectedIn(wire) /\ wire \in [Links -> [Slots -> Wires]]
  BY RegensGrow DEF Elections, Typed, AllLinked
<1>2. ASSUME ElectedIn(wire'), id' = id PROVE Elections'
  BY <1>2 DEF Elections, ElectedIn
<1>3. CASE UNCHANGED vars
  BY <1>1, <1>2, <1>3 DEF vars
<1>4. ASSUME NEW l \in Links, Discovery(l) PROVE Elections'
  BY <1>1, <1>2, <1>4, AddressAddElected DEF Discovery, Discover
<1>5. ASSUME NEW l \in Links, NEW k \in Slots, Network(l, k) PROVE Elections'
  BY <1>1, <1>2, <1>5, NetworkElected
<1>6. ASSUME NEW l \in Links, NEW k \in Slots, UnclaimedTimeout(l, k) PROVE Elections'
  <2> DEFINE w == [wire[l][k] EXCEPT !.server = "closed", !.up = 0]
  <2>1. wire[l][k] \in Wires
    BY <1>1
  <2>2. w \in Wires /\ w.up = 0 /\ w.server # "session" /\ w.client = wire[l][k].client
    BY <2>1 DEF Wires
  <2>3. wire' = [wire EXCEPT ![l][k] = w] /\ id' = id
    BY <1>1, <1>6 DEF UnclaimedTimeout
  <2> HIDE DEF w
  <2>4. ElectedIn(wire')
    BY <1>1, <2>2, <2>3, OneStillElected
  <2> QED BY <1>2, <2>3, <2>4
<1>7. ASSUME NEW l \in Links, Timers(l) PROVE Elections'
  BY <1>1, <1>2, <1>7, TimersElected
<1>8. CASE Faults
  BY <1>1, <1>8, FaultsElected
<1> QED BY <1>3, <1>4, <1>5, <1>6, <1>7, <1>8 DEF Next

\* The comparison of ids decides: a session in either direction puts the
\* server's id below the client's.
LEMMA ElectionsImplyOneSession == Typed /\ Elections => OneSession
<1> SUFFICES ASSUME Typed, Elections, regens = 0, NEW l \in Links,
                    Established(l), Established(Back(l))
             PROVE  FALSE
  BY DEF OneSession
<1>1. /\ Back(l) \in Links /\ Back(l)[1] = l[2] /\ Back(l)[2] = l[1]
      /\ id[l[1]] \in Nat /\ id[l[2]] \in Nat
  BY BackLink, SessionAssumption DEF Typed
<1>2. ASSUME NEW m \in Links, Established(m) PROVE id[m[2]] < id[m[1]]
  BY <1>2 DEF Established, InSession, Elections, ElectedIn, Elected
<1>3. id[l[2]] < id[l[1]] /\ id[l[1]] < id[l[2]]
  BY <1>1, <1>2
<1> QED BY <1>1, <1>3

\* Two servers never replicate over two sessions at a time, whatever fails,
\* restarts or is retried, as long as no server has drawn a new id because it
\* met its own.
THEOREM ElectionIsSafe == Spec => []OneSession
<1>1. Init => Elections
  BY NewElected DEF Init, Elections, ElectedIn
<1>2. Spec => [](Typed /\ Elections)
  BY <1>1, InitTyped, NextTyped, NextElections, PTL DEF Spec
<1> QED BY <1>2, ElectionsImplyOneSession, PTL

-----------------------------------------------------------------------------
(* Without faults.                                                         *)

\* The instance i, the connections U that it made, and the peer's
\* instance->incoming n, before the first fault: no timer of the instance is
\* running, at most one connection exists, and a session is the one that the
\* peer has noted.
Clean(i, U, n) ==
  /\ ~i.discontinuing /\ ~i.timer
  /\ i.conn # 0 => i.cur = 0
  /\ ~i.addr => i.out \in {"none", "disconnected"} /\ \A k \in Slots : U[k] = NoWire
  /\ \A k \in Slots : /\ U[k].down # "retry_delay"
                      /\ U[k].server = "session" /\ ~U[k].cut => n = k
  /\ \A j, k \in Slots : U[j] # NoWire /\ U[k] # NoWire => j = k

AllClean == \A l \in Links : Clean(inst[l], wire[l], inst[Back(l)].incoming)

Faultless == faults = 0 => AllClean

\* A step on a link and its reverse.
LEMMA CleanStep ==
    ASSUME AllClean, NEW l \in Links,
           \A m \in Links \ {l, Back(l)} : inst'[m] = inst[m] /\ wire'[m] = wire[m],
           Clean(inst'[l], wire'[l], inst'[Back(l)].incoming),
           Clean(inst'[Back(l)], wire'[Back(l)], inst'[l].incoming)
    PROVE  AllClean'
<1>1. ASSUME NEW m \in Links PROVE Clean(inst'[m], wire'[m], inst'[Back(m)].incoming)
  <2>1. CASE m = l
    BY <2>1
  <2>2. CASE m = Back(l)
    <3>1. Back(m) = l
      BY <2>2, BackLink
    <3> QED BY <2>2, <3>1
  <2>3. CASE m # l /\ m # Back(l)
    <3>1. Back(m) \in Links /\ Back(m) # l /\ Back(m) # Back(l)
      BY <2>3, BackLink
    <3>2. inst'[m] = inst[m] /\ wire'[m] = wire[m] /\ inst'[Back(m)] = inst[Back(m)]
      BY <2>3, <3>1
    <3> QED BY <3>2 DEF AllClean
  <2> QED BY <2>1, <2>2, <2>3
<1> QED BY <1>1 DEF AllClean

\* The only connection of a link changes.
LEMMA OneWireClean ==
    ASSUME NEW i \in Instances, NEW U \in [Slots -> Wires], NEW n, Clean(i, U, n),
           NEW k \in Slots, U[k] # NoWire,
           NEW w \in Wires, w.down # "retry_delay",
           NEW p, w.server = "session" /\ ~w.cut => p = k
    PROVE  Clean(i, [U EXCEPT ![k] = w], p)
<1> DEFINE V == [U EXCEPT ![k] = w]
<1>1. \A j \in Slots : j # k => U[j] = NoWire /\ V[j] = NoWire
  BY DEF Clean
<1>2. V[k] = w
  OBVIOUS
<1>3. i.addr
  BY DEF Clean
<1>4. NoWire.server # "session" /\ NoWire.down # "retry_delay"
  BY DEF NoWire
<1> HIDE DEF V
<1>5. \A j \in Slots : V[j].down # "retry_delay" /\ (V[j].server = "session" /\ ~V[j].cut => p = j)
  BY <1>1, <1>2, <1>4
<1>6. \A j, h \in Slots : V[j] # NoWire /\ V[h] # NoWire => j = h
  BY <1>1
<1>7. Clean(i, V, p)
  BY <1>3, <1>5, <1>6 DEF Clean
<1> QED BY <1>7 DEF V

\* The instance changes in what it knows of the peer, or moves on.
LEMMA InstanceClean ==
    ASSUME NEW i \in Instances, NEW j \in Instances, NEW U, NEW n, Clean(i, U, n),
           j.addr = i.addr, ~j.discontinuing, j.timer = i.timer,
           j.conn # 0 => j.cur = 0,
           ~j.addr => j.out \in {"none", "disconnected"}
    PROVE  Clean(j, U, n)
BY DEF Clean, Instances

\* next_address_get on a link without connections.
LEMMA NextAddressGetClean ==
    ASSUME NEW l \in Links, NEW i \in Instances, ~i.discontinuing, ~i.timer,
           NEW W \in [Links -> [Slots -> Wires]],
           \A k \in Slots : W[l][k] = NoWire,
           inst \in [Links -> Instances],
           NextAddressGet(l, i, W)
    PROVE  /\ \A n : Clean(inst'[l], wire'[l], n)
           /\ \A m \in Links : m # l => inst'[m] = inst[m] /\ wire'[m] = W[m]
           /\ inst'[l].incoming = i.incoming
<1>1. \A k \in Slots : ~ Live(W[l][k])
  BY DEF Live, NoWire
<1>2. PICK j \in Instances, V \in [Slots -> Wires] : Addressed(l, i, W, j, V)
  BY <1>1, NextAddressGetLinked
<1>3. inst'[l] = j /\ wire'[l] = V
  BY <1>2 DEF Addressed
<1>4. \A m \in Links : m # l => inst'[m] = inst[m] /\ wire'[m] = W[m]
  BY <1>2 DEF Addressed
<1>5. /\ ~j.discontinuing /\ ~j.timer /\ j.incoming = i.incoming /\ j.addr = i.addr
      /\ j.conn # 0 => j.cur = 0
  <2>1. j = [i EXCEPT !.cur = j.cur, !.out = j.out, !.conn = j.conn]
    BY <1>2 DEF Addressed
  <2>2. /\ j.discontinuing = i.discontinuing /\ j.timer = i.timer
        /\ j.incoming = i.incoming /\ j.addr = i.addr
    BY <2>1 DEF Instances
  <2> QED BY <1>2, <2>2 DEF Addressed
<1>6. ~j.addr => j.out = "disconnected" /\ \A k \in Slots : V[k] = NoWire
  BY <1>2, <1>5 DEF Addressed
<1>7. \A k \in Slots : V[k] = NoWire \/ (Fresh(V[k]) /\ j.conn = k)
  <2>1. \A k \in Slots : V[k] = NoWire \/ Fresh(V[k])
    BY <1>2 DEF Addressed
  <2>2. ASSUME NEW k \in Slots, Fresh(V[k]) PROVE j.conn = k
    <3>1. V[k].client = "connecting"
      BY <2>2 DEF Fresh, NoWire
    <3> QED BY <1>2, <3>1 DEF Addressed, Linked, Live
  <2> QED BY <2>1, <2>2
<1>8. /\ \A k \in Slots : V[k].server # "session" /\ V[k].down # "retry_delay"
      /\ \A h, k \in Slots : V[h] # NoWire /\ V[k] # NoWire => h = k
  <2> DEFINE f == [NoWire EXCEPT !.client = "connecting", !.server = "none"]
  <2>0. /\ NoWire.server # "session" /\ NoWire.down # "retry_delay"
        /\ f.server # "session" /\ f.down # "retry_delay"
    BY DEF NoWire
  <2>1. ASSUME NEW w, w = NoWire \/ w = f
        PROVE  w.server # "session" /\ w.down # "retry_delay"
    <3> HIDE DEF f
    <3> QED BY <2>0, <2>1
  <2>2. \A k \in Slots : V[k].server # "session" /\ V[k].down # "retry_delay"
    BY <1>7, <2>1, Zenon DEF Fresh
  <2>3. \A k \in Slots : V[k] # NoWire => k = j.conn
    BY <1>7
  <2> QED BY <2>2, <2>3
<1>9. \A n : Clean(j, V, n)
  BY <1>5, <1>6, <1>8 DEF Clean
<1> QED BY <1>3, <1>4, <1>5, <1>9

\* The facts every case below starts from.
LEMMA CleanFacts ==
    ASSUME Typed, AllClean, NEW l \in Links
    PROVE  /\ Back(l) \in Links /\ Back(l) # l /\ Back(Back(l)) = l
           /\ inst \in [Links -> Instances] /\ wire \in [Links -> [Slots -> Wires]]
           /\ inst[l] \in Instances /\ inst[Back(l)] \in Instances
           /\ wire[l] \in [Slots -> Wires] /\ wire[Back(l)] \in [Slots -> Wires]
           /\ Linked(inst[l], wire[l])
           /\ Clean(inst[l], wire[l], inst[Back(l)].incoming)
           /\ Clean(inst[Back(l)], wire[Back(l)], inst[l].incoming)
<1>1. Back(l) \in Links /\ Back(l) # l /\ Back(Back(l)) = l
  BY BackLink
<1>2. inst \in [Links -> Instances] /\ wire \in [Links -> [Slots -> Wires]] /\ Linked(inst[l], wire[l])
  BY DEF Typed, AllLinked
<1>3. /\ Clean(inst[l], wire[l], inst[Back(l)].incoming)
      /\ Clean(inst[Back(l)], wire[Back(l)], inst[Back(Back(l))].incoming)
  BY <1>1 DEF AllClean
<1>4. Clean(inst[Back(l)], wire[Back(l)], inst[l].incoming)
  BY <1>1, <1>3
<1> QED BY <1>1, <1>2, <1>3, <1>4

\* A step that only changes the instance of a link.
LEMMA InstanceStepClean ==
    ASSUME Typed, AllClean, NEW l \in Links, NEW j \in Instances,
           j.incoming = inst[l].incoming,
           j.addr = inst[l].addr, ~j.discontinuing, j.timer = inst[l].timer,
           j.conn # 0 => j.cur = 0,
           ~j.addr => j.out \in {"none", "disconnected"},
           inst' = [inst EXCEPT ![l] = j], wire' = wire
    PROVE  AllClean'
<1>1. /\ inst'[l] = j /\ inst'[Back(l)] = inst[Back(l)] /\ Back(l) \in Links
      /\ \A m \in Links \ {l, Back(l)} : inst'[m] = inst[m] /\ wire'[m] = wire[m]
  BY CleanFacts
<1>2. Clean(j, wire[l], inst[Back(l)].incoming)
  BY CleanFacts, InstanceClean
<1>3. Clean(inst[Back(l)], wire[Back(l)], j.incoming)
  BY CleanFacts
<1> QED BY <1>1, <1>2, <1>3, CleanStep

\* The connection k of link m becomes w, its instance i and the one of the
\* peer, which may note another incoming connection, b.
WireStep(m, k, w, i, b) ==
  /\ wire[m][k] # NoWire /\ w \in Wires /\ w.down # "retry_delay"
  /\ wire' = [wire EXCEPT ![m][k] = w]
  /\ i \in Instances /\ i.addr = inst[m].addr /\ ~i.discontinuing /\ ~i.timer
  /\ i.conn # 0 => i.cur = 0
  /\ ~i.addr => i.out \in {"none", "disconnected"}
  /\ i.incoming = inst[m].incoming
  /\ b \in Instances /\ b = [inst[Back(m)] EXCEPT !.incoming = b.incoming]
  /\ w.server = "session" /\ ~w.cut => b.incoming = k
  /\ inst' = [inst EXCEPT ![m] = i, ![Back(m)] = b]

LEMMA WireStepClean ==
    ASSUME Typed, AllClean, NEW m \in Links, NEW k \in Slots, NEW w, NEW i, NEW b,
           WireStep(m, k, w, i, b)
    PROVE  AllClean'
<1> USE DEF WireStep
<1>1. /\ inst'[m] = i /\ inst'[Back(m)] = b
      /\ wire'[m] = [wire[m] EXCEPT ![k] = w] /\ wire'[Back(m)] = wire[Back(m)]
      /\ \A n \in Links \ {m, Back(m)} : inst'[n] = inst[n] /\ wire'[n] = wire[n]
  BY CleanFacts
<1>2. Clean(inst[m], wire'[m], b.incoming)
  BY <1>1, CleanFacts, OneWireClean
<1>3. Clean(i, wire'[m], b.incoming)
  <2>1. i.timer = inst[m].timer
    BY CleanFacts DEF Clean, Instances
  <2> QED BY <1>2, <2>1, CleanFacts, InstanceClean
<1>4. Clean(b, wire[Back(m)], i.incoming)
  <2>1. /\ b.addr = inst[Back(m)].addr /\ b.discontinuing = inst[Back(m)].discontinuing
        /\ b.timer = inst[Back(m)].timer /\ b.conn = inst[Back(m)].conn
        /\ b.cur = inst[Back(m)].cur /\ b.out = inst[Back(m)].out
    BY CleanFacts DEF Instances
  <2> QED BY <2>1, CleanFacts DEF Clean
<1> QED BY <1>1, <1>3, <1>4, CleanStep

LEMMA DiscoveryClean ==
    ASSUME Typed, AllClean, NEW l \in Links, Discovery(l)
    PROVE  AllClean'
<1> DEFINE m == Back(l)
<1>0. /\ m \in Links /\ m # l
      /\ inst \in [Links -> Instances] /\ wire \in [Links -> [Slots -> Wires]]
      /\ inst[l] \in Instances /\ inst[m] \in Instances
      /\ wire[l] \in [Slots -> Wires] /\ wire[m] \in [Slots -> Wires]
      /\ Clean(inst[l], wire[l], inst[m].incoming)
      /\ Clean(inst[m], wire[m], inst[l].incoming)
  BY CleanFacts
<1> HIDE DEF m
<1>1. CASE Discover(l)
  <2> DEFINE i == inst[l]
             o == IF \/ i.out = "none"
                     \/ i.out = "idle" /\ i.id # id[l[2]]
                  THEN "disconnected" ELSE i.out
             j == [i EXCEPT !.known = TRUE, !.copies = i.copies + 1, !.discontinuing = FALSE,
                            !.id = id[l[2]], !.out = o]
  <2>1. inst' = [inst EXCEPT ![l] = j] /\ wire' = wire
    BY <1>1, Zenon DEF Discover
  <2>2. o = i.out \/ o = "disconnected"
    OBVIOUS
  <2> HIDE DEF o
  <2>3. j \in Instances
    <3>1. Typed'
      BY <1>1, DiscoverTyped
    <3> QED BY <1>0, <2>1, <3>1 DEF Typed, AllLinked
  <2>4. /\ j.incoming = i.incoming /\ j.addr = i.addr /\ ~j.discontinuing
        /\ j.timer = i.timer /\ j.conn = i.conn /\ j.cur = i.cur /\ j.out = o
    BY <1>0 DEF Instances
  <2>5. /\ j.conn # 0 => j.cur = 0
        /\ ~j.addr => j.out \in {"none", "disconnected"}
    BY <1>0, <2>2, <2>4 DEF Clean
  <2> HIDE DEF j
  <2> QED BY <2>1, <2>3, <2>4, <2>5, InstanceStepClean
<1>2. ASSUME NEW i \in Instances, i.out = inst[l].out, i.addr,
             i.discontinuing = inst[l].discontinuing, i.timer = inst[l].timer,
             i.conn = inst[l].conn, i.cur = inst[l].cur,
             NEW W \in [Links -> [Slots -> Wires]],
             \A n \in Links : n # m => W[n] = wire[n],
             Clean(inst[m], W[m], i.incoming), ~inst[l].addr,
             AddressAdded(l, i, W)
      PROVE  AllClean'
  <2>1. \A k \in Slots : W[l][k] = NoWire
    BY <1>0, <1>2 DEF Clean
  <2>2. ~i.discontinuing /\ ~i.timer
    BY <1>0, <1>2 DEF Clean, Instances
  <2>3. CASE NextAddressGet(l, i, W)
    <3>1. /\ \A n : Clean(inst'[l], wire'[l], n)
          /\ \A n \in Links : n # l => inst'[n] = inst[n] /\ wire'[n] = W[n]
          /\ inst'[l].incoming = i.incoming
      BY ZenonT(60), <1>0, <1>2, <2>1, <2>2, <2>3, NextAddressGetClean
    <3>2. Clean(inst'[m], wire'[m], inst'[l].incoming)
      BY <1>0, <1>2, <3>1
    <3>3. \A n \in Links \ {l, m} : inst'[n] = inst[n] /\ wire'[n] = wire[n]
      BY <1>2, <3>1
    <3> QED BY <3>1, <3>2, <3>3, CleanStep DEF m
  <2>4. CASE inst' = [inst EXCEPT ![l] = i] /\ wire' = W
    <3>1. inst'[l] = i /\ inst'[m] = inst[m]
      BY <1>0, <2>4
    <3>2. Clean(i, W[l], inst[m].incoming)
      BY <1>0, <1>2, <2>1, <2>2 DEF Clean, NoWire
    <3>3. \A n \in Links \ {l, m} : inst'[n] = inst[n] /\ wire'[n] = wire[n]
      BY <1>0, <1>2, <2>4
    <3> QED BY <1>2, <2>4, <3>1, <3>2, <3>3, CleanStep DEF m
  <2> QED BY <1>2, <2>3, <2>4 DEF AddressAdded
<1>3. CASE AddressAdded(l, [inst[l] EXCEPT !.addr = TRUE], wire) /\ ~inst[l].addr
  <2> DEFINE j == [inst[l] EXCEPT !.addr = TRUE]
  <2>1. /\ j \in Instances /\ j.out = inst[l].out /\ j.addr
        /\ j.discontinuing = inst[l].discontinuing /\ j.timer = inst[l].timer
        /\ j.conn = inst[l].conn /\ j.cur = inst[l].cur /\ j.incoming = inst[l].incoming
    BY <1>0 DEF Instances
  <2>2. AddressAdded(l, j, wire)
    BY <1>3
  <2> HIDE DEF j
  <2> QED BY <1>0, <1>2, <1>3, <2>1, <2>2
<1>4. ASSUME NEW k \in Unclaimed(l), NEW mine \in Ids, ~inst[l].addr,
             AddressAdded(l, [inst[l] EXCEPT !.addr = TRUE, !.incoming = k],
                  [wire EXCEPT ![m][k] = [Evaluated(wire[m][k], mine) EXCEPT !.cut = TRUE]])
      PROVE  AllClean'
  <2> DEFINE j == [inst[l] EXCEPT !.addr = TRUE, !.incoming = k]
             w == [Evaluated(wire[m][k], mine) EXCEPT !.cut = TRUE]
             W == [wire EXCEPT ![m][k] = w]
  <2>1. k \in Slots /\ wire[m][k] \in Wires /\ wire[m][k].server = "unclaimed"
    BY <1>0 DEF Unclaimed, m
  <2>2. /\ j \in Instances /\ j.out = inst[l].out /\ j.addr
        /\ j.discontinuing = inst[l].discontinuing /\ j.timer = inst[l].timer
        /\ j.conn = inst[l].conn /\ j.cur = inst[l].cur /\ j.incoming = k
    BY <1>0, <2>1 DEF Instances
  <2>3. w \in Wires /\ w.cut
    BY ZenonT(60), <2>1, EvaluatedTyped DEF Evaluated, Answer, Reject, Wires
  <2>4. w.down # "retry_delay"
    BY <1>0, <2>1 DEF Evaluated, Answer, Reject, Wires, Clean
  <2>5. wire[m][k] # NoWire
    BY <2>1 DEF NoWire
  <2>6. AddressAdded(l, j, W)
    BY <1>4
  <2> HIDE DEF j, w
  <2>7. Clean(inst[m], [wire[m] EXCEPT ![k] = w], j.incoming)
    BY <1>0, <2>1, <2>2, <2>3, <2>4, <2>5, OneWireClean
  <2>8. /\ W \in [Links -> [Slots -> Wires]] /\ W[m] = [wire[m] EXCEPT ![k] = w]
        /\ \A n \in Links : n # m => W[n] = wire[n]
    BY <1>0, <2>1, <2>3
  <2> HIDE DEF W
  <2> QED BY <1>2, <1>4, <2>2, <2>6, <2>7, <2>8
<1> QED BY <1>1, <1>3, <1>4 DEF Discovery, AddressAdd, m

\* A connection that changes without its instances changing.
LEMMA WireOnlyClean ==
    ASSUME Typed, AllClean, NEW m \in Links, NEW k \in Slots, wire[m][k] # NoWire,
           NEW w \in Wires, w.down # "retry_delay",
           w.server = "session" /\ ~w.cut => inst[Back(m)].incoming = k,
           wire' = [wire EXCEPT ![m][k] = w], inst' = inst
    PROVE  AllClean'
<1>1. /\ inst[m] \in Instances /\ inst[Back(m)] \in Instances
      /\ inst[Back(m)] = [inst[Back(m)] EXCEPT !.incoming = inst[Back(m)].incoming]
      /\ inst' = [inst EXCEPT ![m] = inst[m], ![Back(m)] = inst[Back(m)]]
  BY CleanFacts DEF Instances
<1>2. /\ ~inst[m].discontinuing /\ ~inst[m].timer
      /\ inst[m].conn # 0 => inst[m].cur = 0
      /\ ~inst[m].addr => inst[m].out \in {"none", "disconnected"}
  BY CleanFacts DEF Clean
<1>3. WireStep(m, k, w, inst[m], inst[Back(m)])
  BY <1>1, <1>2 DEF WireStep
<1> QED BY <1>3, WireStepClean

\* The late callback of a client end that is closed: before the first fault
\* it leads to idle or to reconnect_wait, never straight to a new connection.
LEMMA ClientGoneClean ==
    ASSUME Typed, AllClean, NEW l \in Links, NEW k \in Slots,
           wire[l][k].client # "closed", ClientGone(l, k)
    PROVE  AllClean'
<1> DEFINE i == [inst[l] EXCEPT !.conn = 0]
           W == CloseClient(wire, l, k)
           u == wire[l][k]
           w == IF u.server \in {"none", "closed"} THEN NoWire
                ELSE [u EXCEPT !.client = "closed", !.down = "none"]
           b == inst[Back(l)]
<1>0. /\ Back(l) \in Links /\ Back(l) # l
      /\ inst \in [Links -> Instances] /\ wire \in [Links -> [Slots -> Wires]]
      /\ inst[l] \in Instances /\ b \in Instances
      /\ wire[l] \in [Slots -> Wires] /\ Linked(inst[l], wire[l])
      /\ Clean(inst[l], wire[l], b.incoming)
  BY CleanFacts
<1>1. u \in Wires /\ u # NoWire
  BY <1>0 DEF NoWire
<1>2. inst[l].addr
  BY <1>0, <1>1 DEF Clean
<1>3. W = [wire EXCEPT ![l][k] = w]
  BY DEF CloseClient
<1>4. w \in Wires /\ w.down # "retry_delay" /\ (w.server = "session" /\ ~w.cut => b.incoming = k)
  <2>1. CASE u.server \in {"none", "closed"}
    BY <2>1, NothingTyped DEF NoWire
  <2>2. CASE u.server \notin {"none", "closed"}
    BY <1>0, <1>1, <2>2 DEF Wires, Clean
  <2> QED BY <2>1, <2>2
<1>5. \/ wire' = W /\ inst' = inst
      \/ wire' = W /\ inst' = [inst EXCEPT ![l] = [i EXCEPT !.out = "idle"]]
      \/ inst[l].conn = k /\ NextAddressGet(l, i, W)
  BY DEF ClientGone
<1>6. CASE wire' = W /\ inst' = inst
  <2> HIDE DEF w, W
  <2> QED BY <1>1, <1>3, <1>4, <1>6, WireOnlyClean
<1>7. ASSUME NEW j \in Instances,
             j.addr, j.conn = 0, j.incoming = inst[l].incoming,
             j.discontinuing = inst[l].discontinuing, j.timer = inst[l].timer,
             inst' = [inst EXCEPT ![l] = j], wire' = W
      PROVE  AllClean'
  <2>1. ~j.discontinuing /\ ~j.timer
    BY <1>0, <1>7 DEF Clean
  <2>2. inst' = [inst EXCEPT ![l] = j, ![Back(l)] = b] /\ b = [b EXCEPT !.incoming = b.incoming]
    <3>1. b = [b EXCEPT !.incoming = b.incoming]
      BY <1>0 DEF Instances
    <3> QED BY <1>0, <1>7, <3>1
  <2>3. wire' = [wire EXCEPT ![l][k] = w]
    BY <1>3, <1>7
  <2> HIDE DEF w, W
  <2>4. j.addr = inst[l].addr
    BY <1>0, <1>2, <1>7 DEF Instances
  <2>5. WireStep(l, k, w, j, b)
    BY <1>0, <1>1, <1>4, <1>7, <2>1, <2>2, <2>3, <2>4 DEF WireStep
  <2> QED BY <2>5, WireStepClean
<1>8. /\ i \in Instances /\ i.conn = 0 /\ i.addr /\ i.incoming = inst[l].incoming
      /\ i.discontinuing = inst[l].discontinuing /\ i.timer = inst[l].timer /\ i.cur = inst[l].cur
  BY <1>0, <1>2 DEF Instances
<1>9. CASE wire' = W /\ inst' = [inst EXCEPT ![l] = [i EXCEPT !.out = "idle"]]
  <2> DEFINE j == [i EXCEPT !.out = "idle"]
  <2>1. /\ j \in Instances /\ j.addr /\ j.conn = 0 /\ j.incoming = inst[l].incoming
        /\ j.discontinuing = inst[l].discontinuing /\ j.timer = inst[l].timer
    BY <1>0, <1>2 DEF Instances
  <2>2. inst' = [inst EXCEPT ![l] = j] /\ wire' = W
    BY <1>9
  <2> HIDE DEF j, W
  <2> QED BY <1>7, <2>1, <2>2
<1>10. CASE inst[l].conn = k /\ NextAddressGet(l, i, W)
  <2> DEFINE j == [i EXCEPT !.cur = -1, !.out = "reconnect_wait", !.conn = 0]
  <2>1. i.cur = 0
    BY <1>0, <1>8, <1>10, ZeroIsNoSlot DEF Clean
  <2>2. inst' = [inst EXCEPT ![l] = j] /\ wire' = W
    BY <1>8, <1>10, <2>1 DEF NextAddressGet
  <2>3. /\ j \in Instances /\ j.addr /\ j.conn = 0 /\ j.incoming = inst[l].incoming
        /\ j.discontinuing = inst[l].discontinuing /\ j.timer = inst[l].timer
    BY <1>0, <1>2 DEF Instances
  <2> HIDE DEF j, W
  <2> QED BY <1>7, <2>2, <2>3
<1> QED BY <1>5, <1>6, <1>9, <1>10

LEMMA NetworkClean ==
    ASSUME Typed, AllClean, NEW l \in Links, NEW k \in Slots, Network(l, k)
    PROVE  AllClean'
<1> DEFINE u == wire[l][k]
           b == inst[Back(l)]
<1>0. /\ Back(l) \in Links /\ Back(l) # l
      /\ inst \in [Links -> Instances] /\ wire \in [Links -> [Slots -> Wires]]
      /\ inst[l] \in Instances /\ b \in Instances /\ u \in Wires
      /\ wire[l] \in [Slots -> Wires] /\ Linked(inst[l], wire[l])
      /\ Clean(inst[l], wire[l], b.incoming)
  BY CleanFacts
<1>a. u.client # "closed" \/ u.server # "closed" => u # NoWire /\ inst[l].addr
  <2>1. u.client # "closed" \/ u.server # "closed" => u # NoWire
    BY DEF NoWire
  <2> QED BY <1>0, <2>1 DEF Clean
\* A connection and the state of its instance change.
<1>b. ASSUME NEW w \in Wires, NEW o, [inst[l] EXCEPT !.out = o] \in Instances,
             u.client # "closed", w.down # "retry_delay",
             w.server = "session" /\ ~w.cut => b.incoming = k,
             inst' = [inst EXCEPT ![l].out = o], wire' = [wire EXCEPT ![l][k] = w]
      PROVE  AllClean'
  <2> DEFINE j == [inst[l] EXCEPT !.out = o]
  <2>1. /\ j.addr = inst[l].addr /\ j.conn = inst[l].conn /\ j.incoming = inst[l].incoming
        /\ j.discontinuing = inst[l].discontinuing /\ j.timer = inst[l].timer /\ j.cur = inst[l].cur
    BY <1>0 DEF Instances
  <2>2. ~j.discontinuing /\ ~j.timer /\ (j.conn # 0 => j.cur = 0) /\ j.addr
    BY <1>0, <1>a, <1>b, <2>1 DEF Clean
  <2>3. inst' = [inst EXCEPT ![l] = j, ![Back(l)] = b] /\ b = [b EXCEPT !.incoming = b.incoming]
    BY <1>0, <1>b DEF Instances
  <2>4. j \in Instances
    BY <1>b
  <2> HIDE DEF j
  <2>5. WireStep(l, k, w, j, b)
    BY <1>0, <1>a, <1>b, <2>1, <2>2, <2>3, <2>4 DEF WireStep
  <2> QED BY <2>5, WireStepClean
\* A connection changes, and what the peer has noted.
<1>c. ASSUME NEW w \in Wires, NEW n \in Slots \cup {0}, u # NoWire, w.down # "retry_delay",
             w.server = "session" /\ ~w.cut => n = k,
             inst' = [inst EXCEPT ![Back(l)].incoming = n],
             wire' = [wire EXCEPT ![l][k] = w]
      PROVE  AllClean'
  <2> DEFINE j == [b EXCEPT !.incoming = n]
  <2>1. j \in Instances /\ j.incoming = n /\ j = [b EXCEPT !.incoming = j.incoming]
    BY <1>0 DEF Instances
  <2>2. /\ ~inst[l].discontinuing /\ ~inst[l].timer
        /\ inst[l].conn # 0 => inst[l].cur = 0
        /\ ~inst[l].addr => inst[l].out \in {"none", "disconnected"}
    BY <1>0 DEF Clean
  <2>3. inst' = [inst EXCEPT ![l] = inst[l], ![Back(l)] = j]
    BY <1>0, <1>c
  <2> HIDE DEF j
  <2>4. WireStep(l, k, w, inst[l], j)
    BY <1>0, <1>c, <2>1, <2>2, <2>3 DEF WireStep
  <2> QED BY <2>4, WireStepClean
<1>1. CASE Connected(l, k)
  <2> DEFINE w == [u EXCEPT !.client = "open", !.server = "accepted", !.up = id[l[1]]]
  <2>1. id[l[1]] \in Ids
    BY BackLink DEF Typed
  <2>2. w \in Wires /\ w.down # "retry_delay" /\ w.server # "session"
    BY <1>0, <2>1 DEF Wires, Clean
  <2>3. [inst[l] EXCEPT !.out = "server_id_response_wait"] \in Instances
    BY <1>0 DEF Instances
  <2>4. /\ wire' = [wire EXCEPT ![l][k] = w] /\ u.client # "closed"
        /\ inst' = [inst EXCEPT ![l].out = "server_id_response_wait"]
    BY <1>1 DEF Connected
  <2> HIDE DEF w
  <2> QED BY <1>b, <2>2, <2>3, <2>4
<1>2. CASE srpl_dso_server_message(l, k)
  <2>0. u # NoWire
    BY <1>2 DEF srpl_dso_server_message, NoWire
  <2>1. CASE HoldUnclaimed(l, k)
    <3> DEFINE w == [u EXCEPT !.server = "unclaimed"]
    <3>1. w \in Wires /\ w.down # "retry_delay" /\ w.server # "session"
      BY <1>0 DEF Wires, Clean
    <3>2. wire' = [wire EXCEPT ![l][k] = w] /\ inst' = inst
      BY <2>1 DEF HoldUnclaimed
    <3> HIDE DEF w
    <3> QED BY <2>0, <3>1, <3>2, WireOnlyClean
  <2>2. CASE Associate(l, k)
    <3>1. PICK mine \in NewIds(l, u) : wire' = [wire EXCEPT ![l][k] = Evaluated(@, mine)]
      BY <2>2 DEF Associate
    <3> DEFINE w == Evaluated(u, mine)
    <3>2. w \in Wires
      BY <1>0, EvaluatedTyped
    <3>3. w.down # "retry_delay"
      BY <1>0 DEF Evaluated, Answer, Reject, Wires, Clean
    <3>4. wire' = [wire EXCEPT ![l][k] = w] /\ inst' = [inst EXCEPT ![Back(l)].incoming = k]
      BY <2>2, <3>1 DEF Associate
    <3> HIDE DEF w
    <3> QED BY <1>c, <2>0, <3>2, <3>3, <3>4
  <2> QED BY <1>2, <2>1, <2>2 DEF srpl_dso_server_message
<1>3. CASE ReceiveResponse(l, k)
  <2> DEFINE w == [u EXCEPT !.down = "none"]
  <2>1. /\ w \in Wires /\ w.down # "retry_delay"
        /\ w.server = "session" /\ ~w.cut => b.incoming = k
    BY <1>0 DEF Wires, Clean
  <2>2. [inst[l] EXCEPT !.out = "session"] \in Instances
    BY <1>0 DEF Instances
  <2>3. /\ wire' = [wire EXCEPT ![l][k] = w] /\ u.client # "closed"
        /\ inst' = [inst EXCEPT ![l].out = "session"]
    BY <1>3 DEF ReceiveResponse
  <2> HIDE DEF w
  <2> QED BY <1>b, <2>1, <2>2, <2>3
<1>4. CASE ReceiveRetryDelay(l, k)
  BY <1>0, <1>4 DEF ReceiveRetryDelay, Clean
<1>5. CASE ClientDisconnected(l, k)
  <2>1. u.client # "closed"
    BY <1>5 DEF ClientDisconnected
  <2> QED BY <1>5, <2>1, ClientGoneClean DEF ClientDisconnected
<1>6. CASE ServerDisconnected(l, k)
  <2> DEFINE w == IF u.client = "closed" THEN NoWire
                  ELSE [u EXCEPT !.server = "closed", !.cut = FALSE, !.up = 0]
  <2>1. w \in Wires /\ w.down # "retry_delay" /\ w.server # "session"
    <3>1. CASE u.client = "closed"
      BY <3>1, NothingTyped DEF NoWire
    <3>2. CASE u.client # "closed"
      BY <1>0, <3>2 DEF Wires, Clean
    <3> QED BY <3>1, <3>2
  <2>2. wire' = [wire EXCEPT ![l][k] = w] /\ u # NoWire
    BY <1>6 DEF ServerDisconnected, CloseServer, NoWire
  <2>3. inst' = inst \/ inst' = [inst EXCEPT ![Back(l)].incoming = 0]
    BY <1>6 DEF ServerDisconnected
  <2> HIDE DEF w
  <2> QED BY <1>c, <2>1, <2>2, <2>3, WireOnlyClean
<1> QED BY <1>1, <1>2, <1>3, <1>4, <1>5, <1>6 DEF Network

\* Before the first fault only srpl_connection_reconnect_timeout runs, and a
\* timer fires when every earlier connection of the link is gone.
LEMMA TimersClean ==
    ASSUME Typed, AllClean, NEW l \in Links, Timers(l)
    PROVE  AllClean'
<1> DEFINE m == Back(l)
<1>0. /\ m \in Links /\ m # l
      /\ inst \in [Links -> Instances] /\ wire \in [Links -> [Slots -> Wires]]
      /\ inst[l] \in Instances /\ Linked(inst[l], wire[l])
      /\ Clean(inst[l], wire[l], inst[m].incoming)
      /\ Clean(inst[m], wire[m], inst[l].incoming)
  BY CleanFacts
<1>1. ReconnectTimeout(l)
  BY <1>0 DEF Timers, InstanceReconnect, DiscontinueTimeout, Clean, Instances
<1>2. \A k \in Slots : ~ Live(wire[l][k]) /\ Settled(wire[l][k])
  BY <1>0, <1>1, NotLive DEF ReconnectTimeout, Unconnected, Quiet
<1>3. \A k \in Slots : wire[l][k] = NoWire
  BY <1>2 DEF Settled, Live
<1>4. ~inst[l].discontinuing /\ ~inst[l].timer
  BY <1>0 DEF Clean
<1> HIDE DEF m
<1>5. /\ \A n : Clean(inst'[l], wire'[l], n)
      /\ \A n \in Links : n # l => inst'[n] = inst[n] /\ wire'[n] = wire[n]
      /\ inst'[l].incoming = inst[l].incoming
  BY <1>0, <1>1, <1>3, <1>4, NextAddressGetClean DEF ReconnectTimeout
<1>6. Clean(inst'[m], wire'[m], inst'[l].incoming)
  BY <1>0, <1>5
<1> QED BY <1>5, <1>6, CleanStep DEF m

\* Every fault is counted.
LEMMA FaultsCounted == Faults => faults' = faults + 1
<1>1. ASSUME NEW l, BrowseRemove(l) \/ AddressQueryFails(l) \/ AddressRemove(l)
      PROVE  faults' = faults + 1
  BY <1>1, Zenon DEF BrowseRemove, AddressQueryFails, AddressRemove
<1>2. ASSUME NEW l, NEW k, ConnectFails(l, k) \/ ServerDrops(l, k) \/ ClientDrops(l, k)
      PROVE  faults' = faults + 1
  BY <1>2, Zenon DEF ConnectFails, ServerDrops, ClientDrops
<1>3. ASSUME NEW s, Restart(s) PROVE faults' = faults + 1
  BY <1>3, Zenon DEF Restart
<1> QED BY <1>1, <1>2, <1>3 DEF Faults

LEMMA NextFaultless == Typed /\ Faultless /\ [Next]_vars => Faultless'
<1> SUFFICES ASSUME Typed, Faultless, [Next]_vars, faults' = 0 PROVE AllClean'
  BY DEF Faultless
<1>0. faults \in Nat
  BY SessionAssumption DEF Typed
<1>1. CASE UNCHANGED vars
  BY <1>1 DEF vars, Faultless, AllClean
<1>2. ASSUME NEW l \in Links, Discovery(l) PROVE AllClean'
  <2>1. faults = 0
    BY <1>2 DEF Discovery, Discover, AddressAdd
  <2> QED BY <1>2, <2>1, DiscoveryClean DEF Faultless
<1>3. ASSUME NEW l \in Links, NEW k \in Slots, Network(l, k) PROVE AllClean'
  <2>1. faults = 0
    BY <1>3 DEF Network, Connected, srpl_dso_server_message, ReceiveResponse,
                ReceiveRetryDelay, ClientDisconnected, ServerDisconnected
  <2> QED BY <1>3, <2>1, NetworkClean DEF Faultless
<1>4. ASSUME NEW l \in Links, NEW k \in Slots, UnclaimedTimeout(l, k) PROVE AllClean'
  <2> DEFINE w == [wire[l][k] EXCEPT !.server = "closed", !.up = 0]
  <2>1. AllClean
    BY <1>4 DEF UnclaimedTimeout, Faultless
  <2>2. wire[l][k] \in Wires /\ Clean(inst[l], wire[l], inst[Back(l)].incoming)
        /\ wire \in [Links -> [Slots -> Wires]]
    BY <2>1, CleanFacts
  <2>3. w \in Wires /\ w.down # "retry_delay" /\ w.server # "session"
    BY <2>2 DEF Wires, Clean
  <2>4. wire' = [wire EXCEPT ![l][k] = w] /\ inst' = inst
    BY <1>4, <2>2 DEF UnclaimedTimeout
  <2>5. wire[l][k] # NoWire
    BY <1>4 DEF UnclaimedTimeout, NoWire
  <2> HIDE DEF w
  <2> QED BY <2>1, <2>3, <2>4, <2>5, WireOnlyClean
<1>5. ASSUME NEW l \in Links, Timers(l) PROVE AllClean'
  <2>1. faults = 0
    BY <1>5 DEF Timers, ReconnectTimeout, InstanceReconnect, DiscontinueTimeout
  <2> QED BY <1>5, <2>1, TimersClean DEF Faultless
<1>6. CASE Faults
  BY <1>0, <1>6, FaultsCounted
<1> QED BY <1>1, <1>2, <1>3, <1>4, <1>5, <1>6 DEF Next

LEMMA InitFaultless == Init => Faultless
BY BackLink DEF Init, Faultless, AllClean, Clean, NoInstance, NoWire

LEMMA SessionInvariant == Spec => [](Typed /\ Faultless)
BY InitTyped, InitFaultless, NextTyped, NextFaultless, PTL DEF Spec

\* instance->incoming is the session that the peer has with us, as long as
\* there has been no fault: neither the late callback of an earlier connection
\* has cleared it nor has a later connection replaced it.
THEOREM IncomingIsTracked == Spec => []IncomingTracked
<1>1. Faultless => IncomingTracked
  BY DEF Faultless, AllClean, Clean, IncomingTracked, InSession
<1> QED BY <1>1, SessionInvariant, PTL

-----------------------------------------------------------------------------
(* A session is kept.                                                      *)

\* The step of an established session: it goes on, or a fault is counted.
Kept == \A l \in Links, k \in Slots : InSession(l, k) => InSession(l, k)'

\* Only the connections and instances of one link and its reverse change, and
\* a session of theirs goes on.
LEMMA NextAddressGetKeeps ==
    ASSUME AllLinked, NEW l \in Links, NEW i \in Instances,
           NEW W \in [Links -> [Slots -> Wires]],
           \A m \in Links, k \in Slots : InSession(m, k) => W[m][k] = wire[m][k],
           \A k \in Slots : ~ InSession(l, k),
           \A k \in Slots : ~ Live(W[l][k]),
           NextAddressGet(l, i, W)
    PROVE  Kept
<1>1. PICK j \in Instances, V \in [Slots -> Wires] : Addressed(l, i, W, j, V)
  BY NextAddressGetLinked
<1>2. inst' = [inst EXCEPT ![l] = j] /\ wire' = [W EXCEPT ![l] = V]
  BY <1>1 DEF Addressed
<1>3. ASSUME NEW m \in Links, NEW k \in Slots, InSession(m, k) PROVE InSession(m, k)'
  <2>1. m # l
    BY <1>3
  <2>2. inst'[m] = inst[m] /\ wire'[m][k] = wire[m][k]
    BY <1>2, <1>3, <2>1 DEF AllLinked
  <2> QED BY <1>3, <2>2 DEF InSession
<1> QED BY <1>3 DEF Kept

\* A step on one connection that is in no session, or stays in it.
LEMMA WireKeeps ==
    ASSUME AllLinked, NEW l \in Links, NEW k \in Slots, NEW w,
           wire' = [wire EXCEPT ![l][k] = w],
           InSession(l, k) => w.client = "open" /\ w.server = "session" /\ ~w.cut,
           \A m \in Links, n \in Slots : InSession(m, n) =>
             inst'[m].out = "session" /\ inst'[m].conn = n
    PROVE  Kept
<1>1. ASSUME NEW m \in Links, NEW n \in Slots, InSession(m, n) PROVE InSession(m, n)'
  <2>1. wire \in [Links -> [Slots -> Wires]]
    BY DEF AllLinked
  <2>2. CASE m = l /\ n = k
    <3>1. wire'[m][n] = w
      BY <2>1, <2>2
    <3> QED BY <1>1, <2>2, <3>1 DEF InSession
  <2>3. CASE m # l \/ n # k
    <3>1. wire'[m][n] = wire[m][n]
      BY <2>1, <2>3
    <3> QED BY <1>1, <3>1 DEF InSession
  <2> QED BY <2>2, <2>3
<1> QED BY <1>1 DEF Kept

\* The only connection whose client end is live is the one that is held.
LEMMA SessionHeld ==
    ASSUME AllLinked, NEW l \in Links, NEW k \in Slots, InSession(l, k)
    PROVE  /\ inst[l].conn = k /\ inst[l].out = "session"
           /\ \A n \in Slots : Live(wire[l][n]) => n = k
BY DEF AllLinked, Linked, InSession

LEMMA ClientGoneKeeps ==
    ASSUME Typed, AllClean, NEW l \in Links, NEW k \in Slots, ClientGone(l, k), ~ InSession(l, k)
    PROVE  Kept
<1> DEFINE i == [inst[l] EXCEPT !.conn = 0]
           W == CloseClient(wire, l, k)
<1>1. /\ AllLinked /\ inst[l] \in Instances /\ Linked(inst[l], wire[l])
      /\ wire \in [Links -> [Slots -> Wires]] /\ inst \in [Links -> Instances]
  BY WireTyped DEF Typed, AllLinked
<1>2. /\ W \in [Links -> [Slots -> Wires]]
      /\ W[l][k].client = "closed"
      /\ \A m \in Links, n \in Slots : <<m, n>> # <<l, k>> => W[m][n] = wire[m][n]
  BY <1>1, CloseClientTyped
<1>3. \A m \in Links, n \in Slots : InSession(m, n) => W[m][n] = wire[m][n]
  BY <1>2
<1>4. i \in Instances
  BY <1>1 DEF Instances
<1> HIDE DEF W
<1>5. CASE wire' = W /\ inst' = inst
  BY <1>3, <1>5 DEF Kept, InSession
<1>6. CASE /\ inst[l].conn = k /\ wire' = W
           /\ inst' = [inst EXCEPT ![l] = [i EXCEPT !.out = "idle"]]
  <2>1. ASSUME NEW m \in Links, NEW n \in Slots, InSession(m, n) PROVE InSession(m, n)'
    <3>1. m # l
      BY <1>6, <2>1 DEF InSession
    <3>2. inst'[m] = inst[m] /\ wire'[m][n] = wire[m][n]
      BY <1>1, <1>3, <1>6, <2>1, <3>1
    <3> QED BY <2>1, <3>2 DEF InSession
  <2> QED BY <2>1 DEF Kept
<1>7. CASE inst[l].conn = k /\ NextAddressGet(l, i, W)
  <2>1. \A n \in Slots : ~ Live(W[l][n])
    BY <1>1, <1>2, <1>7 DEF Linked, Live
  <2>2. \A n \in Slots : ~ InSession(l, n)
    BY <1>7 DEF InSession
  <2> HIDE DEF i
  <2> QED BY <1>1, <1>2, <1>3, <1>4, <1>7, <2>1, <2>2, NextAddressGetKeeps
<1> QED BY <1>5, <1>6, <1>7 DEF ClientGone, W

\* A step that leaves the connections alone, and the session state of the
\* instances.
LEMMA InstanceKeeps ==
    ASSUME wire' = wire,
           \A m \in Links : inst[m].out = "session" =>
             inst'[m].out = "session" /\ inst'[m].conn = inst[m].conn
    PROVE  Kept
BY DEF Kept, InSession

LEMMA DiscoveryKeeps ==
    ASSUME Typed, AllClean, NEW l \in Links, Discovery(l)
    PROVE  Kept
<1> DEFINE m == Back(l)
<1>0. /\ AllLinked /\ m \in Links /\ m # l /\ Linked(inst[l], wire[l])
      /\ inst \in [Links -> Instances] /\ wire \in [Links -> [Slots -> Wires]]
      /\ inst[l] \in Instances
  BY CleanFacts DEF Typed
<1> HIDE DEF m
<1>1. CASE Discover(l)
  <2>1. wire' = wire /\ inst' \in [Links -> Instances]
    BY <1>1, DiscoverTyped DEF Discover, Typed, AllLinked
  <2>2. ASSUME NEW n \in Links, inst[n].out = "session"
        PROVE  inst'[n].out = "session" /\ inst'[n].conn = inst[n].conn
    <3>1. CASE n # l
      BY <1>0, <1>1, <3>1, <2>2 DEF Discover
    <3>2. CASE n = l
      <4> DEFINE j == [inst[l] EXCEPT !.known = TRUE, !.copies = inst[l].copies + 1,
                         !.discontinuing = FALSE, !.id = id[l[2]], !.out = "session"]
      <4>1. inst'[l] = j
        BY <1>0, <1>1, <2>2, <3>2 DEF Discover
      <4>2. j.out = "session" /\ j.conn = inst[l].conn
        BY <1>0 DEF Instances
      <4> HIDE DEF j
      <4> QED BY <3>2, <4>1, <4>2
    <3> QED BY <3>1, <3>2
  <2> QED BY <2>1, <2>2, InstanceKeeps
<1>2. ASSUME NEW i \in Instances, i.out = inst[l].out, i.conn = inst[l].conn,
             NEW W \in [Links -> [Slots -> Wires]],
             \A n \in Links, k \in Slots : W[n][k].client = wire[n][k].client,
             \A n \in Links, k \in Slots : InSession(n, k) => W[n][k] = wire[n][k],
             AddressAdded(l, i, W)
      PROVE  Kept
  <2>1. CASE i.out \in {"disconnected", "reconnect_wait"}
    <3>1. \A k \in Slots : ~ Live(W[l][k])
      BY <1>0, <1>2, <2>1, NotLive DEF Unconnected, Live
    <3>2. \A k \in Slots : ~ InSession(l, k)
      BY <1>2, <2>1 DEF InSession
    <3> QED BY <1>0, <1>2, <2>1, <3>1, <3>2, NextAddressGetKeeps DEF AddressAdded
  <2>2. CASE i.out \notin {"disconnected", "reconnect_wait"}
    <3>1. inst' = [inst EXCEPT ![l] = i] /\ wire' = W
      BY <1>2, <2>2 DEF AddressAdded
    <3> QED BY <1>0, <1>2, <3>1 DEF Kept, InSession
  <2> QED BY <2>1, <2>2
<1>3. CASE AddressAdded(l, [inst[l] EXCEPT !.addr = TRUE], wire)
  <2> DEFINE j == [inst[l] EXCEPT !.addr = TRUE]
  <2>1. j \in Instances /\ j.out = inst[l].out /\ j.conn = inst[l].conn
    BY <1>0 DEF Instances
  <2>2. AddressAdded(l, j, wire)
    BY <1>3
  <2> HIDE DEF j
  <2> QED BY <1>0, <1>2, <2>1, <2>2
<1>4. ASSUME NEW k \in Unclaimed(l), NEW mine \in Ids,
             AddressAdded(l, [inst[l] EXCEPT !.addr = TRUE, !.incoming = k],
                  [wire EXCEPT ![m][k] = [Evaluated(wire[m][k], mine) EXCEPT !.cut = TRUE]])
      PROVE  Kept
  <2> DEFINE j == [inst[l] EXCEPT !.addr = TRUE, !.incoming = k]
             w == [Evaluated(wire[m][k], mine) EXCEPT !.cut = TRUE]
             W == [wire EXCEPT ![m][k] = w]
  <2>1. k \in Slots /\ wire[m][k] \in Wires /\ wire[m][k].server = "unclaimed"
    BY <1>0 DEF Unclaimed, m
  <2>2. j \in Instances /\ j.out = inst[l].out /\ j.conn = inst[l].conn
    BY <1>0, <2>1 DEF Instances
  <2>3. w \in Wires /\ w.client = wire[m][k].client
    BY <2>1, EvaluatedTyped
  <2>4. AddressAdded(l, j, W)
    BY <1>4
  <2>5. ~ InSession(m, k)
    BY <2>1 DEF InSession
  <2> HIDE DEF j, w
  <2>6. /\ W \in [Links -> [Slots -> Wires]]
        /\ \A n \in Links, h \in Slots : W[n][h].client = wire[n][h].client
        /\ \A n \in Links, h \in Slots : InSession(n, h) => W[n][h] = wire[n][h]
    BY <1>0, <2>1, <2>3, <2>5
  <2> HIDE DEF W
  <2> QED BY <1>2, <2>2, <2>4, <2>6
<1> QED BY <1>1, <1>3, <1>4 DEF Discovery, AddressAdd, m

LEMMA NetworkKeeps ==
    ASSUME Typed, AllClean, NEW l \in Links, NEW k \in Slots, Network(l, k)
    PROVE  Kept
<1> DEFINE u == wire[l][k]
<1>0. /\ AllLinked /\ Back(l) \in Links /\ Back(l) # l /\ Linked(inst[l], wire[l])
      /\ inst \in [Links -> Instances] /\ wire \in [Links -> [Slots -> Wires]]
      /\ inst[l] \in Instances /\ u \in Wires
      /\ Clean(inst[l], wire[l], inst[Back(l)].incoming)
  BY CleanFacts DEF Typed
\* instance->incoming does not matter to a session of the peer's own.
<1>a. ASSUME NEW n, \/ inst' = [inst EXCEPT ![Back(l)].incoming = n]
                    \/ inst' = inst
      PROVE  \A m \in Links : inst'[m].out = inst[m].out /\ inst'[m].conn = inst[m].conn
  <2>1. CASE inst' = [inst EXCEPT ![Back(l)].incoming = n]
    <3> DEFINE j == [inst[Back(l)] EXCEPT !.incoming = n]
    <3>1. j.out = inst[Back(l)].out /\ j.conn = inst[Back(l)].conn
      BY <1>0 DEF Instances
    <3>2. inst'[Back(l)] = j /\ \A m \in Links : m # Back(l) => inst'[m] = inst[m]
      BY <1>0, <2>1
    <3> HIDE DEF j
    <3> QED BY <3>1, <3>2
  <2>2. CASE inst' = inst
    BY <2>2
  <2> QED BY <1>a, <2>1, <2>2
<1>1. CASE Connected(l, k)
  <2> DEFINE w == [u EXCEPT !.client = "open", !.server = "accepted", !.up = id[l[1]]]
  <2>1. wire' = [wire EXCEPT ![l][k] = w] /\ inst' = [inst EXCEPT ![l].out = "server_id_response_wait"]
    BY <1>1 DEF Connected
  <2>2. \A n \in Slots : ~ InSession(l, n)
    BY <1>0, <1>1, SessionHeld DEF Connected, Live, InSession
  <2>3. \A m \in Links : m # l => inst'[m] = inst[m]
    BY <1>0, <2>1
  <2>4. \A m \in Links, n \in Slots : InSession(m, n) =>
          inst'[m].out = "session" /\ inst'[m].conn = n
    BY <2>2, <2>3 DEF InSession
  <2> HIDE DEF w
  <2> QED BY <1>0, <2>1, <2>2, <2>4, WireKeeps
<1>2. CASE srpl_dso_server_message(l, k)
  <2>0. ~ InSession(l, k)
    BY <1>2 DEF srpl_dso_server_message, InSession
  <2>1. PICK w, n : wire' = [wire EXCEPT ![l][k] = w] /\
                    (inst' = [inst EXCEPT ![Back(l)].incoming = n] \/ inst' = inst)
    <3>1. CASE HoldUnclaimed(l, k)
      <4> DEFINE v == [u EXCEPT !.server = "unclaimed"]
      <4>1. wire' = [wire EXCEPT ![l][k] = v] /\ inst' = inst
        BY <3>1 DEF HoldUnclaimed
      <4> HIDE DEF v
      <4> QED BY <4>1
    <3>2. CASE Associate(l, k)
      <4>1. PICK mine \in NewIds(l, u) : wire' = [wire EXCEPT ![l][k] = Evaluated(@, mine)]
        BY <3>2 DEF Associate
      <4> DEFINE v == Evaluated(u, mine)
      <4>2. wire' = [wire EXCEPT ![l][k] = v] /\ inst' = [inst EXCEPT ![Back(l)].incoming = k]
        BY <3>2, <4>1 DEF Associate
      <4> HIDE DEF v
      <4> QED BY <4>2
    <3> QED BY <1>2, <3>1, <3>2 DEF srpl_dso_server_message
  <2>2. \A m \in Links : inst'[m].out = inst[m].out /\ inst'[m].conn = inst[m].conn
    BY <1>a, <2>1
  <2> QED BY <1>0, <2>0, <2>1, <2>2, WireKeeps DEF InSession
<1>3. CASE ReceiveResponse(l, k)
  <2> DEFINE w == [u EXCEPT !.down = "none"]
             j == [inst[l] EXCEPT !.out = "session"]
  <2>1. wire' = [wire EXCEPT ![l][k] = w] /\ inst' = [inst EXCEPT ![l] = j]
    BY <1>3 DEF ReceiveResponse
  <2>2. w.client = u.client /\ w.server = u.server /\ w.cut = u.cut
    BY <1>0 DEF Wires
  <2>3. j.out = "session" /\ j.conn = inst[l].conn
    BY <1>0 DEF Instances
  <2> HIDE DEF w, j
  <2>4. \A m \in Links, n \in Slots : InSession(m, n) =>
          inst'[m].out = "session" /\ inst'[m].conn = n
    BY <1>0, <2>1, <2>3 DEF InSession
  <2>5. InSession(l, k) => w.client = "open" /\ w.server = "session" /\ ~w.cut
    BY <2>2 DEF InSession
  <2> QED BY <1>0, <2>1, <2>4, <2>5, WireKeeps
<1>4. CASE ReceiveRetryDelay(l, k)
  BY <1>0, <1>4 DEF ReceiveRetryDelay, Clean
<1>5. CASE ClientDisconnected(l, k)
  <2>1. ~ InSession(l, k)
    BY <1>5 DEF ClientDisconnected, InSession
  <2> QED BY <1>5, <2>1, ClientGoneKeeps DEF ClientDisconnected
<1>6. CASE ServerDisconnected(l, k)
  <2> DEFINE w == IF u.client = "closed" THEN NoWire
                  ELSE [u EXCEPT !.server = "closed", !.cut = FALSE, !.up = 0]
  <2>1. wire' = [wire EXCEPT ![l][k] = w]
    BY <1>6 DEF ServerDisconnected, CloseServer
  <2>2. ~ InSession(l, k)
    BY <1>6 DEF ServerDisconnected, InSession
  <2>3. \/ inst' = [inst EXCEPT ![Back(l)].incoming = 0]
        \/ inst' = inst
    BY <1>6 DEF ServerDisconnected
  <2>4. \A m \in Links : inst'[m].out = inst[m].out /\ inst'[m].conn = inst[m].conn
    BY <1>a, <2>3
  <2> HIDE DEF w
  <2> QED BY <1>0, <2>1, <2>2, <2>4, WireKeeps DEF InSession
<1> QED BY <1>1, <1>2, <1>3, <1>4, <1>5, <1>6 DEF Network

LEMMA TimersKeep ==
    ASSUME Typed, AllClean, NEW l \in Links, Timers(l)
    PROVE  Kept
<1>0. /\ AllLinked /\ Linked(inst[l], wire[l]) /\ inst[l] \in Instances
      /\ wire \in [Links -> [Slots -> Wires]]
      /\ Clean(inst[l], wire[l], inst[Back(l)].incoming)
  BY CleanFacts DEF Typed
<1>1. ReconnectTimeout(l)
  BY <1>0 DEF Timers, InstanceReconnect, DiscontinueTimeout, Clean, Instances
<1>2. \A k \in Slots : ~ Live(wire[l][k]) /\ ~ InSession(l, k)
  BY <1>0, <1>1, NotLive DEF ReconnectTimeout, Unconnected, InSession
<1> QED BY <1>0, <1>1, <1>2, NextAddressGetKeeps DEF ReconnectTimeout

LEMMA NextKeeps ==
    ASSUME Typed, Faultless, [Next]_vars, faults' = 0
    PROVE  Kept
<1>0. faults \in Nat
  BY SessionAssumption DEF Typed
<1>1. CASE UNCHANGED vars
  BY <1>1 DEF vars, Kept, InSession
<1>2. ASSUME NEW l \in Links, Discovery(l) PROVE Kept
  <2>1. faults = 0
    BY <1>2 DEF Discovery, Discover, AddressAdd
  <2> QED BY <1>2, <2>1, DiscoveryKeeps DEF Faultless
<1>3. ASSUME NEW l \in Links, NEW k \in Slots, Network(l, k) PROVE Kept
  <2>1. faults = 0
    BY <1>3 DEF Network, Connected, srpl_dso_server_message, ReceiveResponse,
                ReceiveRetryDelay, ClientDisconnected, ServerDisconnected
  <2> QED BY <1>3, <2>1, NetworkKeeps DEF Faultless
<1>4. ASSUME NEW l \in Links, NEW k \in Slots, UnclaimedTimeout(l, k) PROVE Kept
  <2> DEFINE w == [wire[l][k] EXCEPT !.server = "closed", !.up = 0]
  <2>1. AllLinked /\ wire \in [Links -> [Slots -> Wires]]
    BY DEF Typed, AllLinked
  <2>2. wire' = [wire EXCEPT ![l][k] = w] /\ inst' = inst
    BY <1>4, <2>1 DEF UnclaimedTimeout
  <2>3. ~ InSession(l, k)
    BY <1>4 DEF UnclaimedTimeout, InSession
  <2> HIDE DEF w
  <2> QED BY <2>1, <2>2, <2>3, WireKeeps DEF InSession
<1>5. ASSUME NEW l \in Links, Timers(l) PROVE Kept
  <2>1. faults = 0
    BY <1>5 DEF Timers, ReconnectTimeout, InstanceReconnect, DiscontinueTimeout
  <2> QED BY <1>5, <2>1, TimersKeep DEF Faultless
<1>6. CASE Faults
  BY <1>0, <1>6, FaultsCounted
<1> QED BY <1>1, <1>2, <1>3, <1>4, <1>5, <1>6 DEF Next

\* An established session ends by a fault only: neither the rejection of the
\* connection in the other direction, nor a changed id of the peer, nor a
\* timer takes it down.
THEOREM SessionIsKept == Spec => SessionKept
<1>1. Typed /\ Faultless /\ [Next]_vars =>
        [\A l \in Links, k \in Slots :
           InSession(l, k) /\ faults' = 0 => InSession(l, k)']_vars
  BY NextKeeps DEF Kept
<1> QED BY <1>1, SessionInvariant, PTL DEF Spec, SessionKept

=============================================================================
