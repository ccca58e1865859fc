---------------------------- MODULE SRPLSession ----------------------------
(***************************************************************************)
(* How two SRP servers that have discovered each other come to exactly one *)
(* replication session (ServiceRegistration/srp-replication.c): every      *)
(* server connects to every other one and sends its server id; the one     *)
(* with the larger id keeps the connection it made, the other one has its  *)
(* connection dropped and goes idle.  What happens inside a session is the *)
(* subject of SRPLSync.                                                    *)
(*                                                                         *)
(* A link is a pair <<s, p>>: inst[<<s, p>>] is what s keeps about its     *)
(* peer p (srpl_instance_t and its outgoing srpl_connection_t), and        *)
(* wire[<<s, p>>] are the TCP connections that s made to p.  Connections   *)
(* behave as in the Apple event loop: ioloop_comm_cancel is followed later *)
(* by a call of the disconnected callback.  Each server has one address.   *)
(***************************************************************************)
EXTENDS Integers, FiniteSets

CONSTANTS
  Servers,   \* the SRP servers
  Ids,       \* server ids
  Slots,     \* TCP connections that may exist on a link at a time
  MaxRegens, \* bound on regenerated server ids
  MaxFaults  \* bound on faults

ASSUME SessionAssumption ==
  /\ IsFiniteSet(Servers)
  /\ Ids \subseteq Nat \ {0} /\ Ids # {}
  /\ Slots \subseteq Nat \ {0} /\ IsFiniteSet(Slots)
  /\ {MaxRegens, MaxFaults} \subseteq Nat

VARIABLES
  id,     \* per server, server_id
  inst,   \* per link, the instance
  wire,   \* per link and slot, the TCP connection
  regens, \* server ids regenerated so far
  faults  \* faults so far

vars == <<id, inst, wire, regens, faults>>

Links == {l \in Servers \X Servers : l[1] # l[2]}
Back(l) == <<l[2], l[1]>>

NoInstance ==
  [known |-> FALSE, id |-> 0, copies |-> 0, discontinuing |-> FALSE,
   addr |-> FALSE, cur |-> -1, timer |-> FALSE, incoming |-> 0,
   out |-> "none", conn |-> 0]

\* cut: the server end was cancelled, and its callback is yet to come.
NoWire == [client |-> "closed", server |-> "closed", cut |-> FALSE,
           up |-> 0, down |-> "none"]

FreeSlot(W, l) ==
  CHOOSE k \in Slots : W[l][k] = NoWire /\ \A j \in Slots : W[l][j] = NoWire => k <= j

-----------------------------------------------------------------------------
(* State actions of the outgoing connection of link l, whose instance is i; *)
(* W are the connections.                                                  *)

\* next_address_get: disconnected without an address, reconnect_wait at the
\* end of the list, otherwise connect.
NextAddressGet(l, i, W) ==
  \/ /\ ~i.addr
     /\ inst' = [inst EXCEPT ![l] = [i EXCEPT !.out = "disconnected", !.conn = 0]]
     /\ wire' = W
  \/ /\ i.addr /\ i.cur = 0
     /\ inst' = [inst EXCEPT ![l] = [i EXCEPT !.cur = -1, !.out = "reconnect_wait",
                                              !.conn = 0]]
     /\ wire' = W
  \/ /\ i.addr /\ i.cur = -1
     /\ \E k \in Slots : W[l][k] = NoWire
     /\ LET k == FreeSlot(W, l)
        IN /\ inst' = [inst EXCEPT ![l] = [i EXCEPT !.cur = 0, !.out = "connecting",
                                                    !.conn = k]]
           /\ wire' = [W EXCEPT ![l][k] = [NoWire EXCEPT !.client = "connecting",
                                                         !.server = "none"]]

\* srpl_incoming_connection_is_active: any state but session_message_wait,
\* which an incoming connection leaves in the step it enters it.
IncomingIsActive(i) == i.incoming # 0

\* Mutation of Disconnect: idle before the connection is gone.
Disconnect_at_once(i) == [i EXCEPT !.out = "idle"]

\* disconnect and disconnect_wait for the outgoing connection.
Disconnect(i) == [i EXCEPT !.out = IF i.conn = 0 THEN "idle" ELSE "disconnect_wait"]

CancelClient(W, l, k) ==
  IF k = 0 THEN W ELSE [W EXCEPT ![l][k].client = "cancelled"]

\* Timers run for half a minute and more: one fires only when nothing is in
\* flight.
Settled(w) ==
  \/ w = NoWire
  \/ w.client = "open" /\ w.server = "session" /\ ~w.cut /\ w.down = "none"
  \/ w.client = "open" /\ w.server = "unclaimed"

Quiet == \A l \in Links, k \in Slots : Settled(wire[l][k])

-----------------------------------------------------------------------------
(* Discovery *)

\* Mutation of Discover: a changed id starts over whatever the state.
Discover_restarts(l) ==
  LET i == inst[l] IN
    /\ ~i.known \/ i.id # id[l[2]] \/ i.copies = 0
    /\ inst' = [inst EXCEPT ![l] =
         [i EXCEPT !.known = TRUE, !.copies = i.copies + 1, !.discontinuing = FALSE,
                   !.id = id[l[2]], !.out = "disconnected"]]
    /\ UNCHANGED <<id, wire, regens, faults>>

\* srpl_resolve_callback and srpl_instance_add: the advertised id of the peer
\* is new.
Discover(l) ==
  LET i == inst[l] IN
    /\ ~i.known \/ i.id # id[l[2]] \/ i.copies = 0
    /\ inst' = [inst EXCEPT ![l] =
         [i EXCEPT !.known = TRUE, !.copies = i.copies + 1, !.discontinuing = FALSE,
                   !.id = id[l[2]],
                   !.out = IF \/ i.out = "none"
                              \/ i.out = "idle" /\ i.id # id[l[2]]
                           THEN "disconnected" ELSE i.out]]
    /\ UNCHANGED <<id, wire, regens, faults>>

\* srpl_browse_callback for a removed instance: srpl_instance_discontinue
\* counts the copy down to zero, and zero means "already discontinuing".
BrowseRemove(l) ==
  /\ inst[l].known /\ inst[l].copies > 0 /\ faults < MaxFaults
  /\ inst' = [inst EXCEPT ![l].copies = @ - 1]
  /\ faults' = faults + 1
  /\ UNCHANGED <<id, wire, regens>>

\* An error of the address query discontinues the instance unconditionally,
\* after 30 seconds.
AddressQueryFails(l) ==
  /\ inst[l].known /\ inst[l].copies > 0 /\ faults < MaxFaults
  /\ inst' = [inst EXCEPT ![l].discontinuing = TRUE]
  /\ faults' = faults + 1
  /\ UNCHANGED <<id, wire, regens>>

\* srpl_instance_discontinue_timeout lets go of both connections; the
\* incoming connections of the instance are left without one.
DiscontinueTimeout(l) ==
  LET Orphan(w, k) ==
        IF w.server \notin {"session", "disconnect_wait"} THEN w
        ELSE [w EXCEPT !.server = "orphan", !.cut = @ \/ k = inst[l].incoming]
      W == CancelClient(wire, l, inst[l].conn)
  IN /\ Quiet /\ inst[l].discontinuing
     /\ inst' = [inst EXCEPT ![l] = NoInstance]
     /\ wire' = [W EXCEPT ![Back(l)] = [k \in Slots |-> Orphan(@[k], k)]]
     /\ UNCHANGED <<id, regens, faults>>

AddressRemove(l) ==
  /\ inst[l].addr /\ faults < MaxFaults
  /\ inst' = [inst EXCEPT ![l].addr = FALSE, ![l].cur = -1]
  /\ faults' = faults + 1
  /\ UNCHANGED <<id, wire, regens>>

-----------------------------------------------------------------------------
(* Incoming connections.  The server end of wire[m][k] belongs to m[2],    *)
(* whose instance for the peer is inst[Back(m)].                           *)

\* server_id_evaluate on the incoming connection k of link m: the server end
\* of the smaller id answers and is in session, the larger one disconnects.
Answer(w) == [w EXCEPT !.server = "session", !.up = 0, !.down = "response"]
Reject(w) == [w EXCEPT !.server = "disconnect_wait", !.cut = TRUE, !.up = 0]

\* Mutation of Evaluated: any id that differs is answered.
Evaluated_unordered(w, mine) == IF mine # w.up THEN Answer(w) ELSE Reject(w)

Evaluated(w, mine) == IF mine < w.up THEN Answer(w) ELSE Reject(w)

\* The ids the server may have after the evaluation: equal ids make it
\* generate ids at random until they differ.
NewIds(m, w) ==
  IF id[m[2]] = w.up THEN Ids \ {w.up} ELSE {id[m[2]]}

\* srpl_add_unclaimed_server keeps a connection from an unknown address.
HoldUnclaimed(m, k) ==
  /\ ~inst[Back(m)].addr
  /\ wire' = [wire EXCEPT ![m][k].server = "unclaimed"]
  /\ UNCHANGED <<id, inst, regens>>

Regenerated(m, mine) ==
  /\ id' = [id EXCEPT ![m[2]] = mine]
  /\ regens' = IF mine = id[m[2]] THEN regens ELSE regens + 1
  /\ regens' <= MaxRegens

\* Mutation of Associate: instance->incoming is not set.
Associate_untracked(m, k) ==
  /\ inst[Back(m)].addr
  /\ \E mine \in NewIds(m, wire[m][k]) :
       /\ Regenerated(m, mine)
       /\ wire' = [wire EXCEPT ![m][k] = Evaluated(@, mine)]
  /\ UNCHANGED inst

\* srpl_associate_incoming_with_instance replaces whatever instance->incoming
\* was, and hands the message on.
Associate(m, k) ==
  /\ inst[Back(m)].addr
  /\ \E mine \in NewIds(m, wire[m][k]) :
       /\ Regenerated(m, mine)
       /\ wire' = [wire EXCEPT ![m][k] = Evaluated(@, mine)]
  /\ inst' = [inst EXCEPT ![Back(m)].incoming = k]

srpl_dso_server_message(m, k) ==
  /\ wire[m][k].server = "accepted" /\ wire[m][k].up # 0
  /\ HoldUnclaimed(m, k) \/ Associate(m, k)
  /\ UNCHANGED faults

\* srpl_unclaimed_dispose_callback after two minutes.
UnclaimedTimeout(m, k) ==
  /\ Quiet /\ wire[m][k].server = "unclaimed"
  /\ wire' = [wire EXCEPT ![m][k].server = "closed", ![m][k].up = 0]
  /\ UNCHANGED <<id, inst, regens, faults>>

\* Mutation of AddressAdded: the first address starts nothing.
AddressAdded_waiting_only(l, i, W) ==
  IF i.out = "reconnect_wait"
  THEN NextAddressGet(l, i, W)
  ELSE inst' = [inst EXCEPT ![l] = i] /\ wire' = W

\* address_add delivered to the outgoing connection.
AddressAdded(l, i, W) ==
  IF i.out \in {"disconnected", "reconnect_wait"}
  THEN NextAddressGet(l, i, W)
  ELSE inst' = [inst EXCEPT ![l] = i] /\ wire' = W

Unclaimed(l) == {k \in Slots : wire[Back(l)][k].server = "unclaimed"}

\* srpl_instance_address_callback.  An unclaimed connection from the address
\* is associated with the instance; srpl_unclaimed_cancel then cancels it.
AddressAdd(l) ==
  /\ inst[l].known /\ ~inst[l].addr
  /\ \/ /\ Unclaimed(l) = {}
        /\ AddressAdded(l, [inst[l] EXCEPT !.addr = TRUE], wire)
        /\ UNCHANGED <<id, regens>>
     \/ \E k \in Unclaimed(l), mine \in Ids :
          LET w == wire[Back(l)][k]
          IN /\ mine \in NewIds(Back(l), w)
             /\ Regenerated(Back(l), mine)
             /\ AddressAdded(l, [inst[l] EXCEPT !.addr = TRUE, !.incoming = k],
                  [wire EXCEPT ![Back(l)][k] = [Evaluated(w, mine) EXCEPT !.cut = TRUE]])
  /\ UNCHANGED faults

-----------------------------------------------------------------------------
(* The network *)

\* srpl_connected and server_id_send.
Connected(l, k) ==
  /\ wire[l][k].client = "connecting"
  /\ wire' = [wire EXCEPT ![l][k] = [@ EXCEPT !.client = "open", !.server = "accepted",
                                              !.up = id[l[1]]]]
  /\ inst' = [inst EXCEPT ![l].out = "server_id_response_wait"]
  /\ UNCHANGED <<id, regens, faults>>

\* An end that is closed forgets what it had not read; a connection with both
\* ends closed is gone.
CloseClient(W, l, k) ==
  [W EXCEPT ![l][k] = IF @.server \in {"none", "closed"} THEN NoWire
                      ELSE [@ EXCEPT !.client = "closed", !.down = "none"]]

CloseServer(W, m, k) ==
  [W EXCEPT ![m][k] = IF @.client = "closed" THEN NoWire
                      ELSE [@ EXCEPT !.server = "closed", !.cut = FALSE, !.up = 0]]

\* srpl_disconnected_callback of an outgoing connection.
ClientGone(l, k) ==
  LET i == [inst[l] EXCEPT !.conn = 0]
      W == CloseClient(wire, l, k)
  IN \/ /\ inst[l].conn # k
        /\ wire' = W /\ UNCHANGED inst
     \/ /\ inst[l].conn = k /\ (inst[l].out = "disconnect_wait" \/ IncomingIsActive(i))
        /\ wire' = W
        /\ inst' = [inst EXCEPT ![l] = [i EXCEPT !.out = "idle"]]
     \/ /\ inst[l].conn = k /\ inst[l].out # "disconnect_wait" /\ ~IncomingIsActive(i)
        /\ NextAddressGet(l, i, W)

ClientDisconnected(l, k) ==
  LET w == wire[l][k] IN
    /\ \/ w.client = "cancelled"
       \/ w.client = "open" /\ w.down = "none" /\ (w.cut \/ w.server = "closed")
    /\ ClientGone(l, k)
    /\ UNCHANGED <<id, regens, faults>>

ConnectFails(l, k) ==
  /\ wire[l][k].client = "connecting" /\ faults < MaxFaults
  /\ ClientGone(l, k)
  /\ faults' = faults + 1
  /\ UNCHANGED <<id, regens>>

\* srpl_disconnected_callback of an incoming connection, and the callback of
\* one that no instance has claimed: instance->incoming is cleared, whichever
\* connection it is.
ServerDisconnected(m, k) ==
  LET w == wire[m][k] IN
    /\ w.server \notin {"none", "closed"}
    /\ w.cut \/ w.client \in {"cancelled", "closed"}
    /\ wire' = CloseServer(wire, m, k)
    /\ inst' = IF w.server \in {"session", "disconnect_wait"}
               THEN [inst EXCEPT ![Back(m)].incoming = 0] ELSE inst
    /\ UNCHANGED <<id, regens, faults>>

\* server_id_response_wait.
ReceiveResponse(l, k) ==
  /\ wire[l][k].client = "open" /\ wire[l][k].down = "response"
  /\ wire' = [wire EXCEPT ![l][k].down = "none"]
  /\ inst' = [inst EXCEPT ![l].out = "session"]
  /\ UNCHANGED <<id, regens, faults>>

\* srpl_dso_retry_delay: reconnect later, and drop the connection.
ReceiveRetryDelay(l, k) ==
  /\ wire[l][k].client = "open" /\ wire[l][k].down = "retry_delay"
  /\ inst' = [inst EXCEPT ![l] = [Disconnect(@) EXCEPT !.timer = TRUE]]
  /\ wire' = CancelClient([wire EXCEPT ![l][k].down = "none"], l, k)
  /\ UNCHANGED <<id, regens, faults>>

-----------------------------------------------------------------------------
(* Timers *)

\* srpl_connection_reconnect_timeout
ReconnectTimeout(l) ==
  /\ Quiet /\ inst[l].out = "reconnect_wait"
  /\ NextAddressGet(l, inst[l], wire)
  /\ UNCHANGED <<id, regens, faults>>

\* srpl_instance_reconnect
InstanceReconnect(l) ==
  LET i == [inst[l] EXCEPT !.timer = FALSE] IN
    /\ Quiet /\ inst[l].timer
    /\ \/ /\ i.incoming # 0 \/ i.out # "idle"
          /\ inst' = [inst EXCEPT ![l] = i]
          /\ UNCHANGED wire
       \/ /\ i.incoming = 0 /\ i.out = "idle"
          /\ NextAddressGet(l, i, wire)
    /\ UNCHANGED <<id, regens, faults>>

-----------------------------------------------------------------------------
(* Faults *)

InSession(l, k) ==
  /\ inst[l].out = "session" /\ inst[l].conn = k
  /\ wire[l][k].client = "open" /\ wire[l][k].server = "session" /\ ~wire[l][k].cut

\* A protocol error is met at the server end, or at the client end: both
\* srpl_connection_drop_state for five minutes.  The server end sends a retry
\* delay, which the client end accepts if its last request is not answered yet.
ServerDrops(m, k) ==
  /\ InSession(m, k) /\ faults < MaxFaults
  /\ \E d \in {wire[m][k].down, "retry_delay"} :
       /\ d = "retry_delay" => inst[Back(m)].incoming = k
       /\ wire' = [wire EXCEPT ![m][k] =
             [@ EXCEPT !.cut = TRUE, !.server = "disconnect_wait", !.down = d]]
  /\ inst' = [inst EXCEPT ![Back(m)].timer = TRUE]
  /\ faults' = faults + 1
  /\ UNCHANGED <<id, regens>>

ClientDrops(l, k) ==
  /\ InSession(l, k) /\ faults < MaxFaults
  /\ wire' = CancelClient(wire, l, k)
  /\ inst' = [inst EXCEPT ![l] = [Disconnect(@) EXCEPT !.timer = TRUE]]
  /\ faults' = faults + 1
  /\ UNCHANGED <<id, regens>>

\* The server restarts with a random id; the peers' ends see a reset.
Restart(s) ==
  /\ faults < MaxFaults
  /\ \E n \in Ids : id' = [id EXCEPT ![s] = n]
  /\ inst' = [l \in Links |-> IF l[1] = s THEN NoInstance ELSE inst[l]]
  /\ wire' = [l \in Links |-> [k \in Slots |->
       IF l[1] = s THEN CloseClient(wire, l, k)[l][k]
       ELSE IF l[2] = s /\ wire[l][k] # NoWire THEN CloseServer(wire, l, k)[l][k]
       ELSE wire[l][k]]]
  /\ faults' = faults + 1
  /\ UNCHANGED regens

-----------------------------------------------------------------------------
Init ==
  /\ id \in [Servers -> Ids]
  /\ inst = [l \in Links |-> NoInstance]
  /\ wire = [l \in Links |-> [k \in Slots |-> NoWire]]
  /\ regens = 0 /\ faults = 0

Discovery(l) == Discover(l) \/ AddressAdd(l)

Network(l, k) ==
  \/ Connected(l, k) \/ srpl_dso_server_message(l, k)
  \/ ReceiveResponse(l, k) \/ ReceiveRetryDelay(l, k)
  \/ ClientDisconnected(l, k) \/ ServerDisconnected(l, k)

Timers(l) == ReconnectTimeout(l) \/ InstanceReconnect(l) \/ DiscontinueTimeout(l)

Faults ==
  \/ \E l \in Links : BrowseRemove(l) \/ AddressQueryFails(l) \/ AddressRemove(l)
  \/ \E l \in Links, k \in Slots :
       ConnectFails(l, k) \/ ServerDrops(l, k) \/ ClientDrops(l, k)
  \/ \E s \in Servers : Restart(s)

Next ==
  \/ \E l \in Links : Discovery(l)
  \/ \E l \in Links, k \in Slots : Network(l, k)
  \/ \E l \in Links, k \in Slots : UnclaimedTimeout(l, k)
  \/ \E l \in Links : Timers(l)
  \/ Faults

\* Discovery answers, the network delivers, and a timer that has been set
\* fires although other traffic comes and goes.
Fairness ==
  /\ \A l \in Links : WF_vars(Discovery(l)) /\ SF_vars(Timers(l))
  /\ \A l \in Links, k \in Slots : WF_vars(Network(l, k)) /\ SF_vars(UnclaimedTimeout(l, k))

Spec == Init /\ [][Next]_vars /\ Fairness

-----------------------------------------------------------------------------
Instances ==
  [known : BOOLEAN, id : Ids \cup {0}, copies : Nat, discontinuing : BOOLEAN,
   addr : BOOLEAN, cur : {-1, 0}, timer : BOOLEAN, incoming : Slots \cup {0},
   out : {"none", "disconnected", "idle", "reconnect_wait", "connecting",
          "server_id_response_wait", "session", "disconnect_wait"},
   conn : Slots \cup {0}]

Wires ==
  [client : {"connecting", "open", "cancelled", "closed"},
   server : {"none", "accepted", "unclaimed", "session", "disconnect_wait",
             "orphan", "closed"},
   cut : BOOLEAN, up : Ids \cup {0}, down : {"none", "response", "retry_delay"}]

\* Type invariant; moreover the outgoing srpl_connection_t holds a connection
\* exactly in the states that have one, and it is one whose end is not closed.
TypeOK ==
  /\ id \in [Servers -> Ids]
  /\ inst \in [Links -> Instances]
  /\ wire \in [Links -> [Slots -> Wires]]
  /\ regens \in 0..MaxRegens /\ faults \in 0..MaxFaults
  /\ \A l \in Links :
       /\ inst[l].conn = 0 <=> inst[l].out \in {"none", "disconnected", "idle", "reconnect_wait"}
       /\ inst[l].conn # 0 => wire[l][inst[l].conn].client # "closed"

Established(l) == \E k \in Slots : InSession(l, k)

\* The election by server id: as long as no server has drawn a new id because
\* it met its own, two servers never replicate over two sessions at a time,
\* whatever connections fail, restart or are retried meanwhile
\* (srpl_server_id_evaluate_action at either end).
OneSession ==
  regens = 0 => \A l \in Links : ~(Established(l) /\ Established(Back(l)))

\* instance->incoming is the session the peer has with us: the late
\* srpl_disconnected_callback of an earlier connection has not cleared it, and
\* no later connection has replaced it.
IncomingTracked ==
  faults = 0 => \A l \in Links, k \in Slots : InSession(l, k) => inst[Back(l)].incoming = k

\* An established session ends by a fault only: neither the rejection of the
\* connection in the other direction, a changed server id of the peer nor a
\* reconnect timer takes it down.
SessionKept ==
  [][\A l \in Links, k \in Slots :
       InSession(l, k) /\ faults' = 0 => InSession(l, k)']_vars

NoUnclaimed == \A l \in Links, k \in Slots : wire[l][k].server # "unclaimed"

\* Without faults, two servers with different ids that know each other's
\* address by the time the other one connects come to a session, in one
\* direction or the other, and keep it.
ElectionCompletes ==
  \A l \in Links :
    [](faults = 0 /\ regens = 0 /\ NoUnclaimed) =>
      <>[](Established(l) \/ Established(Back(l)))

\* What the comment at the head of srp-replication.c promises: when our
\* connection to a server has ended and there is no established connection
\* from it, we try to connect again.
ReconnectsAfterDisconnect ==
  [](regens < MaxRegens) =>
    \A l \in Links :
      inst[l].addr /\ inst[l].conn = 0 /\ ~Established(Back(l))
        ~> inst[l].conn # 0 \/ Established(Back(l)) \/ ~inst[l].addr
=============================================================================
