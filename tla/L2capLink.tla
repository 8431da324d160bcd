------------------------------- MODULE L2capLink -------------------------------
(***************************************************************************)
(* How a connected fake Wiimote opens its two HID channels with the host   *)
(* (fake_wiimote.c, inject_l2cap_... of injmessage.c): the control channel *)
(* first, then the interrupt channel, each connected and configured in     *)
(* both directions; reports flow when both are complete.                   *)
(*                                                                         *)
(* What the module sends waits in the bulk-in pipe, a FIFO of bounded      *)
(* capacity that all fake Wiimotes share; what the host sends is handled   *)
(* at once, in packets of one or more commands.  The host is any that      *)
(* answers what it is asked, in order; it may refuse or close a channel at *)
(* any time.  It learns at once of connections that come and go: module    *)
(* Fakemote is about the time this takes.  The SDP channel of the code is  *)
(* never set up and is left out.                                           *)
(***************************************************************************)
EXTENDS Naturals, FiniteSets, Sequences, FiniteSetsExt

CONSTANTS
    NumWiimotes,    \* MAX_FAKE_WIIMOTES, 2 in the code
    BulkCap,        \* packets that can wait for the host
    FirstCid,       \* first identifier of a channel, 0x40 in the code
    CidCount,       \* identifiers of 16 bits, 2^16 in the code
    HostCids,       \* identifiers the host gives its ends of channels
    Budgets         \* how often each disturbance may happen: the choices

ASSUME LinkAssumption ==
    /\ NumWiimotes \in Nat \ {0}
    /\ BulkCap \in Nat
    /\ CidCount \in Nat /\ FirstCid \in 1..CidCount - 1
    /\ HostCids \subseteq Nat \ {0} /\ IsFiniteSet(HostCids)
    /\ Budgets \subseteq [connect : [1..NumWiimotes -> Nat], drop : Nat, close : Nat,
                          refuse : Nat, output : Nat]
    /\ \A b \in Budgets : Cardinality(HostCids) >= 2 + b.close

Wiimotes == 1..NumWiimotes
Psm == {"cntl", "intr"}
NullCid == 0
Cids == 0..CidCount - 1

VARIABLES
    wm,         \* the fake Wiimotes
    nextCid,    \* the next identifier of a channel
    pipe,       \* packets on their way to the host
    lost,       \* an answer to a configuration found no room
    hung,       \* the assertion that stopped the module, "no" if none
    host,       \* what the host knows and has yet to send, by Wiimote
    budget      \* disturbances that may still happen

vars == <<wm, nextCid, pipe, lost, hung, host, budget>>

-----------------------------------------------------------------------------
(* Commands of the signal channel, and HID data                             *)

\* To the host:
ConnectReq(psm, scid) == [type |-> "connect_req", psm |-> psm, cid |-> scid]
ConfigReq(dcid) == [type |-> "config_req", cid |-> dcid]
ConfigRsp(scid) == [type |-> "config_rsp", cid |-> scid]
DisconRsp(scid) == [type |-> "discon_rsp", cid |-> scid]
Hid(dcid) == [type |-> "hid", cid |-> dcid]

\* From the host, ConfigReq, ConfigRsp and Hid as well as:
ConnectRsp(dcid, scid) == [type |-> "connect_rsp", cid |-> scid, dcid |-> dcid]
Refusal == [type |-> "refusal"]
DisconReq(dcid, scid) == [type |-> "discon_req", cid |-> dcid, scid |-> scid]

-----------------------------------------------------------------------------
(* The definitions named ..._Without... and ..._With... are faulty variants  *)
(* that the runs must tell from the code.                                    *)
(*                                                                          *)
(* The state of the module as a value: a handler maps it to the next one.   *)

Now == [wm |-> wm, nextCid |-> nextCid, pipe |-> pipe, lost |-> lost, hung |-> hung]

Becomes(next) ==
    \E s \in {next} :
        /\ wm' = s.wm /\ nextCid' = s.nextCid /\ pipe' = s.pipe
        /\ lost' = s.lost /\ hung' = s.hung

\* The element of a singleton: a value taken from one is computed once.
Only(S) == CHOOSE x \in S : TRUE

Halt(s, where) == [s EXCEPT !.hung = where]

Room(s) == Len(s.pipe) < BulkCap

\* A packet for the host carries the connection it belongs to.
Send(s, w, cmd) ==
    [s EXCEPT !.pipe = Append(@, [wm |-> w, con |-> s.wm[w].con, cmd |-> cmd])]

\* Most results of an injection are ignored; `lost` remembers the loss of an
\* answer, after which the host waits in vain.
Inject(s, w, cmd) ==
    IF Room(s) THEN Send(s, w, cmd)
    ELSE [s EXCEPT !.lost = @ \/ cmd.type = "config_rsp"]

-----------------------------------------------------------------------------
(* Channels                                                                 *)

NoChannel == [valid |-> FALSE, state |-> "inactive", local |-> NullCid,
              remote |-> NullCid, mtu |-> FALSE]

\* l2cap_channel_info_setup
NewChannel(cid) == [NoChannel EXCEPT !.valid = TRUE, !.local = cid]

Accepted(c) == c.valid /\ c.remote # NullCid

\* l2cap_channel_is_complete: the host has configured its direction (it has
\* said its MTU) and accepted the configuration of the other one.
Complete(c) == Accepted(c) /\ c.mtu /\ c.state = "complete"

\* get_channel_info
Found(x, cid) == {psm \in Psm : x.chn[psm].valid /\ x.chn[psm].local = cid}

\* generate_l2cap_channel_id: one 16-bit counter for all fake Wiimotes.
NextCid(cid) == (cid + 1) % CidCount

Idle == [up |-> FALSE, con |-> 0, linking |-> FALSE,
         chn |-> [psm \in Psm |-> NoChannel]]

\* fake_wiimote_init_state, and the acceptance of the connection that follows.
Fresh(x) == [up |-> TRUE, con |-> x.con + 1, linking |-> TRUE,
             chn |-> [psm \in Psm |-> [x.chn[psm] EXCEPT !.valid = FALSE]]]

OpenChannel_WithoutSetup(s, w, psm) ==
    IF ~Room(s) THEN Halt(s, "connect_req")
    ELSE [Send(s, w, ConnectReq(psm, s.nextCid)) EXCEPT
             !.nextCid = NextCid(@),
             !.wm[w].chn[psm].valid = TRUE, !.wm[w].chn[psm].local = s.nextCid]

OpenChannel_WithSecondCid(s, w, psm) ==
    IF ~Room(s) THEN Halt(s, "connect_req")
    ELSE [Send(s, w, ConnectReq(psm, s.nextCid)) EXCEPT
             !.nextCid = NextCid(NextCid(@)),
             !.wm[w].chn[psm] = NewChannel(NextCid(s.nextCid))]

OpenChannel(s, w, psm) ==
    IF ~Room(s) THEN Halt(s, "connect_req")
    ELSE [Send(s, w, ConnectReq(psm, s.nextCid)) EXCEPT
             !.nextCid = NextCid(@),
             !.wm[w].chn[psm] = NewChannel(s.nextCid)]

SendConfig_WithoutRetry(s, w, psm) ==
    LET c == s.wm[w].chn[psm] IN
    IF Accepted(c) /\ c.state = "inactive"
    THEN [Inject(s, w, ConfigReq(c.remote)) EXCEPT !.wm[w].chn[psm].state = "pend"]
    ELSE s

\* check_send_config_for_new_channel: tried again until it could be queued.
SendConfig(s, w, psm) ==
    LET c == s.wm[w].chn[psm] IN
    IF Accepted(c) /\ c.state = "inactive" /\ Room(s)
    THEN [Send(s, w, ConfigReq(c.remote)) EXCEPT !.wm[w].chn[psm].state = "pend"]
    ELSE s

Link_WithoutOrder(s, w) ==
    LET cntl == s.wm[w].chn["cntl"]
        intr == s.wm[w].chn["intr"]
        opened == IF ~cntl.valid THEN OpenChannel(s, w, "cntl")
                  ELSE IF ~intr.valid THEN OpenChannel(s, w, "intr")
                  ELSE s
    IN  IF Complete(cntl) /\ Complete(intr)
        THEN [s EXCEPT !.wm[w].linking = FALSE]
        ELSE IF opened.hung # "no" THEN opened
        ELSE SendConfig(SendConfig(opened, w, "cntl"), w, "intr")

\* fake_wiimote_tick while linking: one channel is opened at a time.
Link(s, w) ==
    LET cntl == s.wm[w].chn["cntl"]
        intr == s.wm[w].chn["intr"]
        opened == IF ~cntl.valid THEN OpenChannel(s, w, "cntl")
                  ELSE IF Complete(cntl) /\ ~intr.valid THEN OpenChannel(s, w, "intr")
                  ELSE s
    IN  IF Complete(cntl) /\ Complete(intr)
        THEN [s EXCEPT !.wm[w].linking = FALSE]
        ELSE IF opened.hung # "no" THEN opened
        ELSE SendConfig(SendConfig(opened, w, "cntl"), w, "intr")

\* fake_wiimote_tick of a connected Wiimote; once linked it sends a report when
\* it has one.
TickOf(s, w, reporting) ==
    IF s.hung # "no" \/ ~s.wm[w].up THEN s
    ELSE IF s.wm[w].linking THEN Link(s, w)
    ELSE IF w \in reporting THEN Inject(s, w, Hid(s.wm[w].chn["intr"].remote))
    ELSE s

-----------------------------------------------------------------------------
(* Commands of the host                                                     *)

\* fake_wiimote_disconnect
Disconnected(s, w) == [s EXCEPT !.wm[w].up = FALSE]

\* The channel a command names must exist.
OnChannel(s, w, cmd, Handler(_, _)) ==
    IF Found(s.wm[w], cmd.cid) = {} THEN Halt(s, cmd.type)
    ELSE Handler(s, CHOOSE psm \in Found(s.wm[w], cmd.cid) : TRUE)

\* handle_l2cap_signal_channel, and data for a channel, which is ignored if
\* the channel is unknown.  A packet on the interrupt channel may be a request
\* that is answered at once (handle_hid_intr_data_output).
Command(s, w, cmd) ==
    LET SaveRemote(t, psm) == [t EXCEPT !.wm[w].chn[psm].remote = cmd.dcid]
        Configure(t, psm) == Inject([t EXCEPT !.wm[w].chn[psm].mtu = TRUE], w,
                                    ConfigRsp(t.wm[w].chn[psm].remote))
        Completed(t, psm) == [t EXCEPT !.wm[w].chn[psm].state = "complete"]
        Close(t, psm) == Inject([t EXCEPT !.wm[w].chn[psm].valid = FALSE], w,
                                DisconRsp(cmd.scid))
    IN  CASE cmd.type = "refusal" -> Disconnected(s, w)
          [] cmd.type = "connect_rsp" -> OnChannel(s, w, cmd, SaveRemote)
          [] cmd.type = "config_req" -> OnChannel(s, w, cmd, Configure)
          [] cmd.type = "config_rsp" -> OnChannel(s, w, cmd, Completed)
          [] cmd.type = "discon_req" -> OnChannel(s, w, cmd, Close)
          [] cmd.type = "hid" ->
               IF "intr" \in Found(s.wm[w], cmd.cid)
               THEN Inject(s, w, Hid(s.wm[w].chn["intr"].remote)) ELSE s

\* One packet of the host: every command in it is handled, unless an assertion
\* fails first.
Packet(w, cmds) ==
    LET after[n \in 0..Len(cmds)] ==
            IF n = 0 THEN Now
            ELSE Only({IF s.hung # "no" THEN s ELSE Command(s, w, cmds[n]) :
                          s \in {after[n - 1]}})
    IN  after[Len(cmds)]

-----------------------------------------------------------------------------
(* The host                                                                 *)

NoEnd == [open |-> FALSE, local |-> NullCid, remote |-> NullCid,
          answered |-> FALSE, confirmed |-> FALSE]

\* What the host knows of a Wiimote: its ends of the channels, what it has yet
\* to send, its identifiers whose closing is not yet answered, and the channels
\* that were ready for data at some time, or that it closed itself.
NoHost == [con |-> 0, end |-> [psm \in Psm |-> NoEnd], outbox |-> <<>>,
           closing |-> {}, ready |-> {}]

Ready(e) == e.open /\ e.answered /\ e.confirmed

EndsAt(h, cid) == {psm \in Psm : h.end[psm].open /\ h.end[psm].local = cid}

FreeHostCids(h) == {c \in HostCids \ h.closing : EndsAt(h, c) = {}}

\* The host reads a command of its connection; it accepts the channels it is
\* asked for, unless it refuses.
HostReads(h, cmd, refuses) ==
    LET at == EndsAt(h, cmd.cid) IN
    CASE cmd.type = "connect_req" /\ refuses ->
           [h EXCEPT !.outbox = Append(@, Refusal)]
      [] cmd.type = "connect_req" /\ ~refuses ->
           LET c == Min(FreeHostCids(h))
           IN  [h EXCEPT !.end[cmd.psm] = [NoEnd EXCEPT !.open = TRUE, !.local = c,
                                                        !.remote = cmd.cid],
                         !.outbox = @ \o <<ConnectRsp(c, cmd.cid), ConfigReq(cmd.cid)>>]
      [] cmd.type = "config_req" /\ at # {} ->
           LET psm == CHOOSE p \in at : TRUE
           IN  [h EXCEPT !.end[psm].answered = TRUE,
                         !.outbox = Append(@, ConfigRsp(h.end[psm].remote)),
                         !.ready = IF h.end[psm].confirmed THEN @ \cup {psm} ELSE @]
      [] cmd.type = "config_rsp" /\ at # {} ->
           LET psm == CHOOSE p \in at : TRUE
           IN  [h EXCEPT !.end[psm].confirmed = TRUE,
                         !.ready = IF h.end[psm].answered THEN @ \cup {psm} ELSE @]
      [] cmd.type = "discon_rsp" -> [h EXCEPT !.closing = @ \ {cmd.cid}]
      [] OTHER -> h

-----------------------------------------------------------------------------
Init ==
    /\ wm = [w \in Wiimotes |-> Idle]
    /\ nextCid = FirstCid
    /\ pipe = <<>>
    /\ lost = FALSE
    /\ hung = "no"
    /\ host = [w \in Wiimotes |-> NoHost]
    /\ budget \in Budgets

Spend(what) == budget[what] > 0 /\ budget' = [budget EXCEPT ![what] = @ - 1]

\* What the host knows after the module has run: a Wiimote that disconnected
\* is forgotten, with all that was still to be sent to it.
HostLearns(h) == host' = [w \in Wiimotes |-> IF wm'[w].up THEN h[w] ELSE NoHost]

\* The host accepts the connection of a Wiimote.
Connect(w) ==
    /\ ~wm[w].up
    /\ budget.connect[w] > 0 /\ budget' = [budget EXCEPT !.connect[w] = @ - 1]
    /\ Becomes([Now EXCEPT !.wm[w] = Fresh(@)])
    /\ host' = [host EXCEPT ![w] = [NoHost EXCEPT !.con = wm[w].con + 1]]

\* The connection ends: the gamepad is unplugged, or the host closes it.
Drop(w) ==
    /\ wm[w].up
    /\ Spend("drop")
    /\ Becomes(Disconnected(Now, w))
    /\ HostLearns(host)

\* The periodic timer: every connected Wiimote is ticked in turn.
Tick(reporting) ==
    /\ Becomes(LET after[w \in 0..NumWiimotes] ==
                       IF w = 0 THEN Now
                       ELSE Only({TickOf(s, w, reporting) : s \in {after[w - 1]}})
               IN  after[NumWiimotes])
    /\ UNCHANGED <<host, budget>>

HostRead(refuses) ==
    /\ pipe # <<>>
    /\ pipe' = Tail(pipe)
    /\ IF refuses THEN Spend("refuse") ELSE UNCHANGED budget
    /\ LET p == Head(pipe)
       IN  host' = IF host[p.wm].con # p.con THEN host
                   ELSE [host EXCEPT ![p.wm] = HostReads(@, p.cmd, refuses)]
    /\ UNCHANGED <<wm, nextCid, lost, hung>>

\* The host sends its next n commands in one packet.
HostSend(w, n) ==
    /\ Len(host[w].outbox) >= n
    /\ Becomes(Packet(w, SubSeq(host[w].outbox, 1, n)))
    /\ HostLearns([host EXCEPT ![w].outbox = SubSeq(@, n + 1, Len(@))])
    /\ UNCHANGED budget

\* The host closes a channel.
HostClose(w, psm) ==
    /\ host[w].end[psm].open
    /\ Spend("close")
    /\ LET e == host[w].end[psm]
       IN  host' = [host EXCEPT ![w].end[psm] = NoEnd,
                                ![w].closing = @ \cup {e.local},
                                ![w].ready = @ \cup {psm},
                                ![w].outbox = Append(@, DisconReq(e.remote, e.local))]
    /\ UNCHANGED <<wm, nextCid, pipe, lost, hung>>

\* The host sends an output report that is answered.
HostOutput(w) ==
    /\ Ready(host[w].end["intr"])
    /\ Spend("output")
    /\ host' = [host EXCEPT ![w].outbox = Append(@, Hid(host[w].end["intr"].remote))]
    /\ UNCHANGED <<wm, nextCid, pipe, lost, hung>>

Next ==
    /\ hung = "no"
    /\ \/ \E w \in Wiimotes : Connect(w) \/ Drop(w) \/ HostOutput(w)
       \/ \E reporting \in SUBSET Wiimotes : Tick(reporting)
       \/ \E refuses \in BOOLEAN : HostRead(refuses)
       \/ \E w \in Wiimotes, n \in 1..2 : HostSend(w, n)
       \/ \E w \in Wiimotes, psm \in Psm : HostClose(w, psm)

Spec == Init /\ [][Next]_vars

\* The timer is periodic; the host reads its packets and sends its answers.  A
\* host that keeps up has at times read everything when the timer fires.
Fairness ==
    /\ WF_vars(hung = "no" /\ Tick(Wiimotes))
    /\ SF_vars(hung = "no" /\ pipe = <<>> /\ Tick(Wiimotes))
    /\ WF_vars(hung = "no" /\ HostRead(FALSE))
    /\ \A w \in Wiimotes : WF_vars(hung = "no" /\ HostSend(w, 1))

LiveSpec == Spec /\ Fairness

-----------------------------------------------------------------------------
(* Properties                                                               *)

\* What the properties rest on where the counter wraps: the two channels of a
\* Wiimote never have one identifier.
CidsApart ==
    \A w \in Wiimotes : \A psm, other \in Psm :
        LET c == wm[w].chn[psm]
            d == wm[w].chn[other]
        IN  c.valid /\ d.valid /\ c.local = d.local => psm = other

InOutbox(w, cmd) == \E i \in DOMAIN host[w].outbox : host[w].outbox[i] = cmd

\* The two ends of a channel name each other, and have the same idea of what
\* has been configured, whatever was closed and opened anew meanwhile: the host
\* is never sent data for a channel it takes for another one.
EndsAgree ==
    \A w \in Wiimotes, psm \in Psm :
        LET c == wm[w].chn[psm]
            e == host[w].end[psm]
        IN  hung = "no" /\ e.open =>
              /\ c.valid /\ c.local = e.remote
              /\ c.remote = e.local \/ InOutbox(w, ConnectRsp(e.local, e.remote))
              /\ c.state = "complete" => e.answered
              /\ e.confirmed => c.mtu

\* The assertions on what the host sends hold for every host that answers what
\* it is asked: it names no channel that the Wiimote has not, or no longer.
\* Only the assertion on an injected connection request may fail.
HostCommandsFit == hung \in {"no", "connect_req"}

\* The host reads reports only after it has configured the interrupt channel,
\* and is asked for that channel only after the control channel was ready, as
\* long as none of the answers to it was lost and it did not itself close them.
HidAfterReady ==
    pipe # <<>> /\ ~lost =>
        LET p == Head(pipe)
            h == host[p.wm]
        IN  h.con = p.con =>
              /\ p.cmd.type = "hid" => h.ready = Psm
              /\ p.cmd.type = "connect_req" /\ p.cmd.psm = "intr"
                    => "cntl" \in h.ready

\* A connected Wiimote gets both channels open, whichever the host closes in
\* the meantime and however short the pipe is, unless its connection ends, an
\* answer is lost, or the host leaves the reports of another one to fill the pipe.
LinkingEnds ==
    []<>(pipe = <<>>) =>
        \A w \in Wiimotes :
            (wm[w].up /\ wm[w].linking)
                ~> (~wm[w].linking \/ ~wm[w].up \/ lost \/ hung # "no")
================================================================================
