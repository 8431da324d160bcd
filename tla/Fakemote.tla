------------------------------- MODULE Fakemote -------------------------------
(***************************************************************************)
(* The life of connections through fakemote: gamepads that come and go     *)
(* (input_device.c), the fake Wiimotes they drive (fake_wiimote.c and      *)
(* fake_wiimote_mgr.c), and the connection handles of real Wiimotes        *)
(* (hci_state.c), between a host whose Bluetooth stack learns of all this  *)
(* late, and a dongle whose events and data come by separate pipes.        *)
(*                                                                         *)
(* All handlers run to their end on one thread, so each is one action.  An *)
(* assertion that fails stops that thread for good (__assert_func): hung.  *)
(* The layers above HCI (L2CAP and HID of a fake Wiimote) are not modelled *)
(* here, except that the host may refuse an L2CAP channel, to which the    *)
(* fake Wiimote answers by disconnecting.                                  *)
(***************************************************************************)
EXTENDS HciState, InputDevices, Sequences

CONSTANTS
    NumWiimotes,    \* MAX_FAKE_WIIMOTES, 2 in the code
    Reals,          \* real Wiimotes
    Phys,           \* connection handles of the dongle
    EvtCap,         \* events for the host that can wait: the ReadyQ and the
                    \* buffers the host has posted
    MaxAcl,         \* packets a connection may have in flight
    CmdReplies,     \* numbers of events that answer a command on a fake
                    \* Wiimote; 0 for a command the manager does not know
    Budgets,        \* how often each disturbance may happen: the choices
    Nobody          \* no peer

ASSUME CoreAssumption ==
    /\ NumWiimotes \in Nat \ {0}
    /\ EvtCap \in Nat
    /\ ReconnectDelay \in Nat
    /\ CmdReplies \subseteq Nat
    /\ Nobody \notin (1..NumWiimotes) \cup Reals
    /\ (1..NumWiimotes) \cap Reals = {}     \* FAKE_WIIMOTE_BDADDR: addresses
                                            \* that no real Wiimote has

Wiimotes == 1..NumWiimotes
Peers == Wiimotes \cup Reals

VARIABLES
    wm,             \* the fake Wiimotes
    slots,          \* the input devices
    hci,            \* the tracked HCI state
    evtQ,           \* events on their way to the host
    overflow,       \* an event was lost because evtQ was full
    hung,           \* the assertion that stopped the module, "no" if none
    plugged,        \* gamepads that are plugged in
    host,           \* what the host knows: connection requests it has not
                    \* answered, those it accepted and that are not complete,
                    \* the peer behind each handle, packets sent to it and
                    \* not yet credited, a reset in progress
    dongle,         \* open connections, events and data to be handed up,
                    \* a reset it has not yet performed
    budget          \* disturbances that may still happen

vars == <<wm, slots, hci, evtQ, overflow, hung, plugged, host, dongle, budget>>

module == <<wm, slots, hci, evtQ, overflow, hung>>

-----------------------------------------------------------------------------
(* Events for the host                                                      *)

ConReq(p) == [type |-> "con_req", peer |-> p]
ConCompl(p, v) == [type |-> "con_compl", peer |-> p, handle |-> v]
DisconCompl(v) == [type |-> "discon_compl", handle |-> v]
NumCompl(counts) == [type |-> "num_compl", counts |-> counts]
OnHandle(v) == [type |-> "on_handle", handle |-> v] \* any other with a handle
Reply == [type |-> "reply"]                         \* command status and such
ResetCompl == [type |-> "reset_compl"]

-----------------------------------------------------------------------------
(* As in the other modules, the definitions named ..._Without... and         *)
(* ..._With... are faulty variants that the runs must tell from the code.    *)

-----------------------------------------------------------------------------
(* The state of the module as a value: a handler maps it to the next one.   *)

Now == [wm |-> wm, slots |-> slots, hci |-> hci, evtQ |-> evtQ,
        overflow |-> overflow, hung |-> hung]

\* (The next state is taken from a set so that TLC computes it once.)
Becomes(next) ==
    \E s \in {next} :
        /\ wm' = s.wm /\ slots' = s.slots /\ hci' = s.hci
        /\ evtQ' = s.evtQ /\ overflow' = s.overflow /\ hung' = s.hung

\* An assertion fails.  What the handler did before is not kept: nothing will
\* run on it.
Halt(where) == [Now EXCEPT !.hung = where]

Inject_WithoutCapacity(s, e) == [s EXCEPT !.evtQ = Append(@, e)]

\* Injects an event; the result of a failed injection is ignored.
Inject(s, e) ==
    IF Len(s.evtQ) < EvtCap THEN [s EXCEPT !.evtQ = Append(@, e)]
                            ELSE [s EXCEPT !.overflow = TRUE]

\* Injects events, asserting each time that it succeeded.
InjectAsserted(s, es) ==
    IF Len(s.evtQ) + Len(es) <= EvtCap THEN [s EXCEPT !.evtQ = @ \o es]
                                       ELSE Halt("inject")

-----------------------------------------------------------------------------
(* One fake Wiimote (fake_wiimote.c)                                        *)

\* A fake Wiimote that was never used: static data, all zero.
IdleWiimote == [active |-> FALSE, baseband |-> "inactive", handle |-> 0,
                dev |-> NoSlot, credits |-> 0]

\* fake_wiimote_init_state and the assignment to active that follows it.
Activated(x, sl) == [x EXCEPT !.active = TRUE, !.baseband = "request",
                              !.dev = sl, !.credits = 0]

Connected(s, w) == s.wm[w].active /\ s.wm[w].baseband = "complete"

Disconnect_WithoutRelease(s, w) ==
    LET x == s.wm[w]
        t == [s EXCEPT !.wm[w].active = FALSE]
    IN  IF x.baseband = "complete" THEN Inject(t, DisconCompl(x.handle)) ELSE t

\* fake_wiimote_disconnect
Disconnect(s, w) ==
    LET x == s.wm[w]
        released == [s EXCEPT !.wm[w].active = FALSE,
                              !.slots = IF x.dev # NoSlot
                                        THEN ReleaseWiimote(@, x.dev) ELSE @]
    IN  IF x.baseband = "complete" THEN Inject(released, DisconCompl(x.handle))
                                   ELSE released

AcceptCon_WithoutAlloc(s, w, master) ==
    LET v == s.hci.last
        complete == [s EXCEPT !.wm[w].baseband = "complete",
                              !.wm[w].handle = v]
    IN  InjectAsserted(complete,
            <<Reply>> \o (IF master THEN <<Reply>> ELSE <<>>)
                      \o <<ConCompl(w, v)>>)

\* fake_wiimote_handle_hci_cmd_accept_con: command status, a role change when
\* the host wants to be master, connection complete.
AcceptCon(s, w, master) ==
    LET v == s.hci.last
        complete == [s EXCEPT !.wm[w].baseband = "complete",
                              !.wm[w].handle = v,
                              !.hci = VirtAlloc(@)]
    IN  InjectAsserted(complete,
            <<Reply>> \o (IF master THEN <<Reply>> ELSE <<>>)
                      \o <<ConCompl(w, v)>>)

-----------------------------------------------------------------------------
(* The periodic timer                                                       *)

\* input_device_handle_removed: the Wiimote forgets the device before it is
\* disconnected.
DeviceRemoved(s, d) ==
    LET held == SlotsOf(s.slots, d)
        sl == Min(held)
        w == s.slots[sl].assigned
        t == IF w = NoWiimote THEN s
             ELSE Disconnect([s EXCEPT !.wm[w].dev = NoSlot], w)
    IN  IF held = {} THEN s ELSE [t EXCEPT !.slots = ClearDevice(@, sl)]

\* The callbacks that egc_handle_events makes for one gamepad.
EgcEvent(s, e) ==
    CASE e.type = "added" -> [s EXCEPT !.slots = DeviceAdded(@, e.pad)]
      [] e.type = "removed" -> DeviceRemoved(s, e.pad)
      [] e.type = "none" -> s

Rank(x, S) == Cardinality({y \in S : y < x})

\* fake_wiimote_mgr_check_assign_input_devices: each inactive Wiimote in turn
\* takes the first gamepad still unassigned.
Pair(s, w, sl) ==
    LET idle == {x \in Wiimotes : ~s.wm[x].active}
    IN  /\ w \in idle
        /\ sl \in Unassigned(s.slots)
        /\ Rank(w, idle) = Rank(sl, Unassigned(s.slots))

AssignDevices(s) ==
    [s EXCEPT
        !.wm = [w \in Wiimotes |->
                  IF \E sl \in Slots : Pair(s, w, sl)
                  THEN Activated(@[w], CHOOSE sl \in Slots : Pair(s, w, sl))
                  ELSE @[w]],
        !.slots = [sl \in Slots |->
                     IF \E w \in Wiimotes : Pair(s, w, sl)
                     THEN [@[sl] EXCEPT !.assigned =
                             CHOOSE w \in Wiimotes : Pair(s, w, sl)]
                     ELSE @[sl]]]

\* The connection requests of the Wiimotes in S, the first Wiimote's first.
Requests(S) ==
    [i \in 1..Cardinality(S) |-> ConReq(CHOOSE w \in S : Rank(w, S) = i - 1)]

RequestConnections_WithoutRetry(s) ==
    LET wanting == {w \in Wiimotes : /\ s.wm[w].active
                                     /\ s.wm[w].baseband = "request"}
        sent == {w \in wanting : Len(s.evtQ) + Rank(w, wanting) < EvtCap}
    IN  [s EXCEPT
           !.wm = [w \in Wiimotes |->
                     IF w \in wanting THEN [@[w] EXCEPT !.baseband = "inactive"]
                                      ELSE @[w]],
           !.evtQ = @ \o Requests(sent)]

\* fake_wiimote_tick of every active Wiimote that has yet to request its
\* connection: it goes on trying until the event could be queued.
RequestConnections(s) ==
    LET wanting == {w \in Wiimotes : /\ s.wm[w].active
                                     /\ s.wm[w].baseband = "request"}
        sent == {w \in wanting : Len(s.evtQ) + Rank(w, wanting) < EvtCap}
    IN  [s EXCEPT
           !.wm = [w \in Wiimotes |->
                     IF w \in sent THEN [@[w] EXCEPT !.baseband = "inactive"]
                                   ELSE @[w]],
           !.evtQ = @ \o Requests(sent)]

SendCompletedPackets_WithoutReset(s) ==
    LET con == {w \in Wiimotes : Connected(s, w)}
        counts == [v \in {s.wm[w].handle : w \in con} |->
                     s.wm[CHOOSE w \in con : s.wm[w].handle = v].credits]
    IN  IF \E v \in DOMAIN counts : counts[v] > 0
        THEN Inject(s, NumCompl(counts))
        ELSE s

\* fake_wiimote_mgr_send_event_number_of_completed_packets: the counts are
\* reset before, and whether or not, the event can be queued.
SendCompletedPackets(s) ==
    LET con == {w \in Wiimotes : Connected(s, w)}
        counts == [v \in {s.wm[w].handle : w \in con} |->
                     s.wm[CHOOSE w \in con : s.wm[w].handle = v].credits]
        reset == [s EXCEPT !.wm = [w \in Wiimotes |->
                     IF w \in con THEN [@[w] EXCEPT !.credits = 0] ELSE @[w]]]
    IN  IF \E v \in DOMAIN counts : counts[v] > 0
        THEN Inject(reset, NumCompl(counts))
        ELSE s

-----------------------------------------------------------------------------
(* Commands and data of the host                                            *)

\* get_fake_wiimote_for_hci_con_handle: the Wiimotes a handle belongs to.
FakesOf(s, v) == {w \in Wiimotes : Connected(s, w) /\ s.wm[w].handle = v}

\* A command on handle v that is none of the fake Wiimotes': the handle is
\* translated, which must succeed.
TranslateOrHalt(v, where) ==
    IF WithVirt(hci, v) = {} THEN Halt(where) ELSE Now

\* HCI_CMD_RESET: the manager lets go of the gamepads of active Wiimotes, the
\* tracker forgets everything, and the command goes on to the dongle.
ResetState ==
    LET used == {wm[w].dev : w \in {x \in Wiimotes : wm[x].active}} \ {NoSlot}
    IN  [Now EXCEPT
           !.wm = [w \in Wiimotes |-> [@[w] EXCEPT !.active = FALSE]],
           !.slots = [sl \in Slots |-> IF sl \in used
                                       THEN ReleaseWiimote(@, sl)[sl]
                                       ELSE @[sl]],
           !.hci = HciReset]

-----------------------------------------------------------------------------
(* Events and data of the dongle (hci_state.c), on their way to the host    *)

\* The tracker sees event e of the dongle: it maps and unmaps handles, and
\* translates those that the event carries.
TrackEvent(e) ==
    CASE e.type = "con_compl" ->
           LET mapped == MapHandle(VirtAlloc(hci), e.handle, hci.last)
           IN  IF Free(hci) = {} THEN Halt("map")
               ELSE Inject([Now EXCEPT !.hci = mapped],
                           ConCompl(e.peer, hci.last))
      [] e.type \in {"discon_compl", "on_handle"} ->
           LET v == GetVirt(hci, e.handle)
           IN  IF WithPhys(hci, e.handle) = {} THEN Halt("event")
               ELSE IF e.type = "discon_compl"
                    THEN Inject([Now EXCEPT !.hci = UnmapVirt(@, v)],
                                DisconCompl(v))
                    ELSE Inject(Now, OnHandle(v))
      [] OTHER -> Inject(Now, e)

-----------------------------------------------------------------------------
(* The environment: what the host knows, and the dongle                     *)

NoCon == [v \in VirtHandles |-> [peer |-> Nobody, sent |-> 0]]

Init ==
    /\ wm = [w \in Wiimotes |-> IdleWiimote]
    /\ slots = EmptySlots
    /\ hci = HciReset
    /\ evtQ = <<>>
    /\ overflow = FALSE
    /\ hung = "no"
    /\ plugged = {}
    /\ host = [requests |-> {}, accepted |-> {}, con |-> NoCon, resetting |-> FALSE]
    /\ dongle = [link |-> [h \in Phys |-> Nobody], evts |-> <<>>, acl |-> <<>>,
                 reset |-> FALSE]
    /\ budget \in Budgets

Spend(what) == budget[what] > 0 /\ budget' = [budget EXCEPT ![what] = @ - 1]

\* Gamepads that come and go, as egc_handle_events reports them.
NoEgc == [type |-> "none"]
Attach(d) == [type |-> "added", pad |-> d]
Detach(d) == [type |-> "removed", pad |-> d]

EgcEvents(in) == {NoEgc} \cup {Attach(d) : d \in Pads \ in}
                         \cup {Detach(d) : d \in in}

PluggedAfter(in, e) == CASE e.type = "added" -> in \cup {e.pad}
                         [] e.type = "removed" -> in \ {e.pad}
                         [] e.type = "none" -> in

Count(type, e1, e2) == Cardinality({i \in 1..2 : <<e1, e2>>[i].type = type})

\* One period of the timer: up to two gamepads come or go, then the delays
\* and the fake Wiimotes are ticked.  s1 to s4 are the states between the calls
\* that the handler makes.
TickWith(e1, e2) ==
    /\ \E s1 \in {EgcEvent(EgcEvent(Now, e1), e2)} :
       \E s2 \in {[s1 EXCEPT !.slots = DevicesTick(@)]} :
       \E s3 \in {IF CanRequestConnection(hci) THEN AssignDevices(s2) ELSE s2} :
       \E s4 \in {IF CanRequestConnection(hci) THEN RequestConnections(s3)
                                              ELSE s3} :
          Becomes(SendCompletedPackets(s4))
    /\ plugged' = PluggedAfter(PluggedAfter(plugged, e1), e2)
    /\ budget.plug >= Count("added", e1, e2)
    /\ budget.unplug >= Count("removed", e1, e2)
    /\ budget' = [budget EXCEPT !.plug = @ - Count("added", e1, e2),
                                !.unplug = @ - Count("removed", e1, e2)]
    /\ UNCHANGED <<host, dongle>>

Tick == \E e1 \in EgcEvents(plugged) :
            \E e2 \in EgcEvents(PluggedAfter(plugged, e1)) : TickWith(e1, e2)

\* The host reads its next event.  While it waits for the end of a reset it
\* discards the others.
HostRead ==
    /\ evtQ # <<>>
    /\ evtQ' = Tail(evtQ)
    /\ LET e == Head(evtQ) IN host' =
         IF e.type = "reset_compl" THEN [host EXCEPT !.resetting = FALSE]
         ELSE IF host.resetting THEN host
         ELSE CASE e.type = "con_req" -> [host EXCEPT !.requests = @ \cup {e.peer}]
                [] e.type = "con_compl" ->
                     [host EXCEPT !.con[e.handle] = [peer |-> e.peer, sent |-> 0],
                                  !.accepted = @ \ {e.peer}]
                [] e.type = "discon_compl" ->
                     [host EXCEPT !.con[e.handle] = [peer |-> Nobody, sent |-> 0]]
                [] e.type = "num_compl" ->
                     [host EXCEPT !.con = [v \in VirtHandles |->
                        IF v \in DOMAIN e.counts /\ @[v].peer # Nobody
                        THEN [@[v] EXCEPT !.sent = @ - e.counts[v]] ELSE @[v]]]
                [] OTHER -> host
    /\ UNCHANGED <<wm, slots, hci, overflow, hung, plugged, dongle, budget>>

HostReady == ~host.resetting

Known(v) == host.con[v].peer # Nobody

\* HCI_CMD_WRITE_SCAN_ENABLE
HostScan(on) ==
    /\ HostReady /\ hci.scan # on
    /\ IF on THEN UNCHANGED budget ELSE Spend("general")
    /\ Becomes([Now EXCEPT !.hci = SetScan(@, on)])
    /\ UNCHANGED <<plugged, host, dongle>>

\* Handles whose last event the dongle has not yet reported are not reused.
FreePhys == {h \in Phys : /\ dongle.link[h] = Nobody
                          /\ \A i \in DOMAIN dongle.evts :
                                dongle.evts[i] # DisconCompl(h)}

\* HCI_CMD_ACCEPT_CON, handled by the fake Wiimote of that address whatever its
\* state, or by the dongle.  The host has one connection with a peer.
HostAccept(p, master) ==
    /\ HostReady /\ p \in host.requests
    /\ p \notin host.accepted /\ \A v \in VirtHandles : host.con[v].peer # p
    /\ host' = [host EXCEPT !.requests = @ \ {p}, !.accepted = @ \cup {p}]
    /\ \/ /\ p \in Wiimotes
          /\ Becomes(AcceptCon(Now, p, master))
          /\ UNCHANGED dongle
       \/ /\ p \in Reals
          /\ \E h \in FreePhys :
                dongle' = [dongle EXCEPT !.link[h] = p,
                                         !.evts = Append(@, ConCompl(p, h))]
          /\ UNCHANGED module
    /\ UNCHANGED <<plugged, budget>>

\* HCI_CMD_REJECT_CON, by the fake Wiimote of that address whatever its state.
HostReject(p) ==
    /\ HostReady /\ p \in host.requests
    /\ Spend("reject")
    /\ host' = [host EXCEPT !.requests = @ \ {p}]
    /\ IF p \in Wiimotes THEN Becomes(Disconnect(Now, p)) ELSE UNCHANGED module
    /\ UNCHANGED <<plugged, dongle>>

\* HCI_CMD_DISCONNECT; the host does not use the handle any more.
HostDisconnect(v) ==
    /\ HostReady /\ Known(v)
    /\ Spend("disconnect")
    /\ host' = [host EXCEPT !.con[v] = [peer |-> Nobody, sent |-> 0]]
    /\ IF FakesOf(Now, v) # {}
       THEN /\ LET s == InjectAsserted(Now, <<Reply>>)
               IN  Becomes(IF s.hung = "no"
                           THEN Disconnect(s, Min(FakesOf(Now, v))) ELSE s)
            /\ UNCHANGED dongle
       ELSE /\ Becomes(TranslateOrHalt(v, "command"))
            /\ dongle' =
                 IF WithVirt(hci, v) = {} THEN dongle
                 ELSE LET h == GetPhys(hci, v) IN
                      IF dongle.link[h] = Nobody THEN dongle
                      ELSE [dongle EXCEPT !.link[h] = Nobody,
                                          !.evts = Append(@, DisconCompl(h))]
    /\ UNCHANGED plugged

\* Any other command on a handle: a fake Wiimote's manager answers with n
\* events, unless it does not know the command (n = 0); it is then translated
\* like those for the dongle.
HostCommand(v, n) ==
    /\ HostReady /\ Known(v)
    /\ Spend("command")
    /\ IF FakesOf(Now, v) # {} /\ n > 0
       THEN Becomes(InjectAsserted(Now, [i \in 1..n |-> Reply]))
       ELSE Becomes(TranslateOrHalt(v, "command"))
    /\ UNCHANGED <<plugged, host, dongle>>

\* HCI_CMD_REMOTE_NAME_REQ names a peer by its address: it is answered for a
\* fake Wiimote in any state.
HostRemoteName(p) ==
    /\ HostReady /\ p \in host.requests
    /\ Spend("general")
    /\ IF p \in Wiimotes THEN Becomes(InjectAsserted(Now, <<Reply, Reply>>))
                         ELSE UNCHANGED module
    /\ UNCHANGED <<plugged, host, dongle>>

\* HCI_CMD_READ_STORED_LINK_KEY for all peers: the keys of the fake Wiimotes
\* come first, if there is room, and the command goes on to the dongle.
HostReadLinkKeys ==
    /\ HostReady
    /\ Spend("general")
    /\ Becomes(Inject(Now, Reply))
    /\ dongle' = [dongle EXCEPT !.evts = Append(@, Reply)]
    /\ UNCHANGED <<plugged, host>>

\* The host sends a packet, at most MaxAcl uncredited ones per fake Wiimote
\* (those of the dongle are credited by the dongle).  It may be the refusal of
\* an L2CAP channel.
HostAcl(v, refuse) ==
    /\ HostReady /\ Known(v)
    /\ host.con[v].sent < MaxAcl
    /\ IF refuse THEN Spend("refuse") ELSE UNCHANGED budget
    /\ host' = IF host.con[v].peer \in Wiimotes
               THEN [host EXCEPT !.con[v].sent = @ + 1] ELSE host
    /\ IF FakesOf(Now, v) # {}
       THEN LET w == Min(FakesOf(Now, v))
                s == [Now EXCEPT !.wm[w].credits = @ + 1]
            IN  Becomes(IF refuse THEN Disconnect(s, w) ELSE s)
       ELSE Becomes(TranslateOrHalt(v, "acl_out"))
    /\ UNCHANGED <<plugged, dongle>>

\* HCI_CMD_RESET; the host forgets all connections.
HostReset ==
    /\ HostReady
    /\ Spend("reset")
    /\ host' = [requests |-> {}, accepted |-> {}, con |-> NoCon, resetting |-> TRUE]
    /\ dongle' = [dongle EXCEPT !.reset = TRUE]
    /\ Becomes(ResetState)
    /\ UNCHANGED plugged

-----------------------------------------------------------------------------
(* The dongle                                                               *)

\* It performs a reset: connections, events and data are gone.
DongleReset ==
    /\ dongle.reset
    /\ dongle' = [link |-> [h \in Phys |-> Nobody], evts |-> <<ResetCompl>>,
                  acl |-> <<>>, reset |-> FALSE]
    /\ UNCHANGED <<module, plugged, host, budget>>

\* A real Wiimote asks for a connection.
RealRequest(r) ==
    /\ CanRequestConnection(hci)
    /\ \A h \in Phys : dongle.link[h] # r
    /\ Spend("real")
    /\ dongle' = [dongle EXCEPT !.evts = Append(@, ConReq(r))]
    /\ UNCHANGED <<module, plugged, host>>

\* A real Wiimote goes away.
RealLeaves(h) ==
    /\ dongle.link[h] # Nobody
    /\ dongle' = [dongle EXCEPT !.link[h] = Nobody,
                                !.evts = Append(@, DisconCompl(h))]
    /\ UNCHANGED <<module, plugged, host, budget>>

\* A real Wiimote sends data, or its connection causes some other event.
RealSends(h) ==
    /\ dongle.link[h] # Nobody
    /\ Spend("traffic")
    /\ \/ dongle' = [dongle EXCEPT !.acl = Append(@, h)]
       \/ dongle' = [dongle EXCEPT !.evts = Append(@, OnHandle(h))]
    /\ UNCHANGED <<module, plugged, host>>

\* OH1 answers the interrupt pipe: OH1_IOS_ResourceReply_hook.
OH1Event ==
    /\ dongle.evts # <<>>
    /\ dongle' = [dongle EXCEPT !.evts = Tail(@)]
    /\ Becomes(TrackEvent(Head(dongle.evts)))
    /\ UNCHANGED <<plugged, host, budget>>

\* OH1 answers the bulk-in pipe; the data goes to the host by a pipe of its
\* own, under the virtual handle.
OH1Acl ==
    /\ dongle.acl # <<>>
    /\ dongle' = [dongle EXCEPT !.acl = Tail(@)]
    /\ Becomes(IF WithPhys(hci, Head(dongle.acl)) = {} THEN Halt("acl_in")
                                                       ELSE Now)
    /\ UNCHANGED <<plugged, host, budget>>

HostStep ==
    \/ \E on \in BOOLEAN : HostScan(on)
    \/ \E p \in Peers, master \in BOOLEAN : HostAccept(p, master)
    \/ \E p \in Peers : HostReject(p)
    \/ \E v \in VirtHandles : HostDisconnect(v)
    \/ \E v \in VirtHandles, n \in CmdReplies : HostCommand(v, n)
    \/ \E p \in Peers : HostRemoteName(p)
    \/ HostReadLinkKeys
    \/ \E v \in VirtHandles, refuse \in BOOLEAN : HostAcl(v, refuse)
    \/ HostReset

DongleStep ==
    \/ DongleReset
    \/ \E r \in Reals : RealRequest(r)
    \/ \E h \in Phys : RealLeaves(h) \/ RealSends(h)
    \/ OH1Event
    \/ OH1Acl

Next == hung = "no" /\ (Tick \/ HostRead \/ HostStep \/ DongleStep)

Spec == Init /\ [][Next]_vars

\* The timer is periodic, the host reads its events, accepts the connections
\* it is asked for and scans for pages, the dongle works: none of this is
\* assumed of gamepads, of real Wiimotes or of the host's other commands.
Running(A) == hung = "no" /\ A

Fairness ==
    /\ WF_vars(Running(TickWith(NoEgc, NoEgc)))
    /\ WF_vars(Running(HostRead))
    /\ WF_vars(Running(HostScan(TRUE)))
    /\ WF_vars(Running(\E p \in Peers : HostAccept(p, TRUE)))
    /\ WF_vars(Running(DongleReset \/ OH1Event))

LiveSpec == Spec /\ Fairness

-----------------------------------------------------------------------------
(* What the code relies on                                                  *)
(* (hci_state.c knows of the first in a comment, and nothing checks either) *)

\* The counter of handles has not come to its end since the last reset: it
\* would begin again with handles that may still be in use.
HandlesLeft == hci.last + 1 < NumHandles

\* No connection that completed before a reset is tracked after the command: it
\* would be mapped in the table that was cleared, and the dongle forget it.
ResetQuiet ==
    host.resetting /\ dongle.evts # <<>> => Head(dongle.evts).type # "con_compl"

-----------------------------------------------------------------------------
(* Properties                                                               *)

\* The Wiimote a plugged-in gamepad is assigned to is active and has that
\* gamepad: no two gamepads are assigned to one Wiimote, and when one is
\* unplugged, the Wiimote that is disconnected is one that it drives.  The
\* converse is TwoWayLink.
AssignedLink ==
    \A sl \in Slots, w \in Wiimotes :
        slots[sl].device # NoPad /\ slots[sl].assigned = w
            => wm[w].active /\ wm[w].dev = sl

\* The converse: the gamepad of an active Wiimote is assigned to it.  (Otherwise
\* unplugging the gamepad does not disconnect the Wiimote, which goes on polling
\* a slot without a gamepad.)
TwoWayLink ==
    \A w \in Wiimotes :
        wm[w].active => /\ wm[w].dev # NoSlot
                        /\ slots[wm[w].dev].assigned = w

\* Where a packet of the host for handle v ends up.
Receiver(v) ==
    IF FakesOf(Now, v) # {} THEN Min(FakesOf(Now, v))
    ELSE IF WithVirt(hci, v) # {} THEN dongle.link[GetPhys(hci, v)]
    ELSE Nobody

\* What the host sends to a peer never reaches another one, although fake and
\* real Wiimotes get their handles from one counter, which a reset restarts,
\* and the host uses handles that may have been closed long since.
NoMisroute ==
    \A v \in VirtHandles :
        Known(v) => Receiver(v) \in {host.con[v].peer, Nobody}

\* No handle has two owners.
OneOwner ==
    \A v \in VirtHandles :
        Cardinality(FakesOf(Now, v)) + Cardinality(WithVirt(hci, v)) <= 1

InEvts(e) == \E i \in DOMAIN dongle.evts : dongle.evts[i] = e

\* The table follows the dongle: between resets, the connections it maps are
\* those that are open, give or take the events the dongle has not reported.
TableMirrorsDongle ==
    hung = "no" /\ ~dongle.reset =>
        \A h \in Phys :
            /\ Cardinality(WithPhys(hci, h)) <= 1
            /\ WithPhys(hci, h) # {} => \/ dongle.link[h] # Nobody
                                        \/ InEvts(DisconCompl(h))
            /\ dongle.link[h] # Nobody
                  => \/ WithPhys(hci, h) # {}
                     \/ InEvts(ConCompl(dongle.link[h], h))

\* What an event credits to the host for handle v, and what a queue of them does.
Worth(e, v) ==
    IF e.type = "num_compl" /\ v \in DOMAIN e.counts THEN e.counts[v] ELSE 0

CreditsIn(q, v) ==
    LET sum[n \in 0..Len(q)] == IF n = 0 THEN 0 ELSE sum[n - 1] + Worth(q[n], v)
    IN  sum[Len(q)]

\* A packet to a connected fake Wiimote is credited to the host once: it is
\* counted by the Wiimote, or on its way in an event, until it is credited,
\* unless the event found no room.
CreditsConserved ==
    \A w \in Wiimotes :
        LET v == wm[w].handle IN
        Connected(Now, w) /\ host.con[v].peer = w /\ ~overflow
            => host.con[v].sent = wm[w].credits + CreditsIn(evtQ, v)

\* The host sends data only on handles it was given: they are known.
AclOutHandleKnown == hung # "acl_out"

\* A gamepad that is plugged in drives a Wiimote the host is connected to,
\* sooner or later, whatever was rejected, closed or reset in between, as long
\* as the module runs and no event is lost to a full ReadyQ.
PadConnects ==
    \A d \in Pads :
        d \in plugged ~>
            \/ d \notin plugged
            \/ hung # "no" \/ overflow
            \/ \E sl \in Slots, w \in Wiimotes :
                  /\ slots[sl].device = d /\ slots[sl].assigned = w
                  /\ Connected(Now, w)
                  /\ host.con[wm[w].handle].peer = w
===============================================================================
