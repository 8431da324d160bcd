---------------------------- MODULE L2capLink_proofs ----------------------------
(***************************************************************************)
(* For every number of Wiimotes, packets and identifiers, as long as no    *)
(* Wiimote has both its channels under one identifier: the two ends of a   *)
(* channel agree, the assertions on what the host sends hold, and reports  *)
(* reach the host after it is ready for them.                              *)
(***************************************************************************)
EXTENDS L2capLink, FiniteSetTheorems, SequenceTheorems, WellFoundedInduction, TLAPS

-----------------------------------------------------------------------------
(* Types                                                                    *)

States == {"inactive", "pend", "complete"}

Channel == [valid : BOOLEAN, state : States, local : Nat, remote : Nat, mtu : BOOLEAN]

Wiimote == [up : BOOLEAN, con : Nat, linking : BOOLEAN, chn : [Psm -> Channel]]

ToHost ==
    [type : {"connect_req"}, psm : Psm, cid : Nat]
        \cup [type : {"config_req", "config_rsp", "discon_rsp", "hid"}, cid : Nat]

FromHost ==
    [type : {"connect_rsp"}, cid : Nat, dcid : Nat]
        \cup [type : {"config_req", "config_rsp", "hid"}, cid : Nat]
        \cup [type : {"discon_req"}, cid : Nat, scid : Nat]
        \cup [type : {"refusal"}]

Packets == [wm : Wiimotes, con : Nat, cmd : ToHost]

End == [open : BOOLEAN, local : Nat, remote : Nat, answered : BOOLEAN,
        confirmed : BOOLEAN]

Host == [con : Nat, end : [Psm -> End], outbox : Seq(FromHost),
         closing : SUBSET HostCids, ready : SUBSET Psm]

Module == [wm : [Wiimotes -> Wiimote], nextCid : Nat, pipe : Seq(Packets),
           lost : BOOLEAN, hung : {"no", "connect_req"}]

Budget == [connect : [1..NumWiimotes -> Nat], drop : Nat, close : Nat,
           refuse : Nat, output : Nat]

-----------------------------------------------------------------------------
(* What relates a connected Wiimote x, its host g and the packets m of the   *)
(* connection that are in the pipe, by their place.                          *)

Mail(q, w, con) ==
    [i \in {j \in DOMAIN q : q[j].wm = w /\ q[j].con = con} |-> q[i].cmd]

Asks(cmd, psm) == cmd.type = "connect_req" /\ cmd.psm = psm

Closed(cmd, cid) == cmd.type = "discon_rsp" /\ cmd.cid = cid

Confirms(cmd, cid) == cmd.type = "config_rsp" /\ cmd.cid = cid

Configures(cmd) == cmd.type \in {"config_req", "config_rsp"}

\* Command cmd of the host is about the channel with identifier cid.
Names(cmd, cid) == cmd.type # "refusal" /\ cmd.cid = cid

Closes(cmd, cid) == cmd.type = "discon_req" /\ cmd.cid = cid

Answers(cmd, cid) == cmd.type = "connect_rsp" /\ cmd.cid = cid

\* A channel just opened.
IsNew(c) == c.valid /\ c.state = "inactive" /\ c.remote = NullCid /\ ~c.mtu

\* A channel that the host has been asked for is new, it is asked for once, and
\* the host knows nothing of it.
Asked(x, g, m) ==
    \A i \in DOMAIN m, psm \in Psm : Asks(m[i], psm) =>
        /\ IsNew(x.chn[psm]) /\ x.chn[psm].local = m[i].cid
        /\ ~g.end[psm].open
        /\ \A k \in DOMAIN g.outbox : ~Names(g.outbox[k], m[i].cid)
        /\ \A j \in DOMAIN m : Asks(m[j], psm) => j = i

\* What the host believes of an open channel.
Opened(x, g) ==
    \A psm \in Psm : g.end[psm].open =>
        /\ x.chn[psm].valid /\ x.chn[psm].local = g.end[psm].remote
        /\ g.end[psm].confirmed => x.chn[psm].mtu
        /\ x.chn[psm].state = "complete" => g.end[psm].answered
        /\ \A k \in DOMAIN g.outbox :
              g.outbox[k].type = "config_rsp" /\ g.outbox[k].cid = x.chn[psm].local
                => g.end[psm].answered

\* What the host will say is about channels the Wiimote has, and will have then.
Named(x, g) ==
    \A k \in DOMAIN g.outbox : g.outbox[k].type # "refusal" =>
        /\ \E psm \in Psm : x.chn[psm].valid /\ x.chn[psm].local = g.outbox[k].cid
        /\ \A psm \in Psm :
              x.chn[psm].valid /\ Closes(g.outbox[k], x.chn[psm].local)
                => ~g.end[psm].open
        /\ \A j \in DOMAIN g.outbox : Closes(g.outbox[j], g.outbox[k].cid) => k <= j

\* r is the host's end of the channel, open or about to be closed.
IsEnd(g, psm, cid, r) ==
    IF g.end[psm].open THEN g.end[psm].local = r
    ELSE \E k \in DOMAIN g.outbox : Closes(g.outbox[k], cid) /\ g.outbox[k].scid = r

\* A channel waits for its answer, or the answer is the next command about it,
\* or it has been given.
Waits(c, g, psm) ==
    /\ IsNew(c)
    /\ ~g.end[psm].open
    /\ \A k \in DOMAIN g.outbox : ~Names(g.outbox[k], c.local)

Answered(c, g, psm) ==
    /\ IsNew(c)
    /\ \E k \in DOMAIN g.outbox :
          /\ Answers(g.outbox[k], c.local)
          /\ g.outbox[k].dcid # NullCid
          /\ IsEnd(g, psm, c.local, g.outbox[k].dcid)
          /\ \A j \in DOMAIN g.outbox : Names(g.outbox[j], c.local) => k <= j
          /\ \A j \in DOMAIN g.outbox : Answers(g.outbox[j], c.local) => k = j

Bound(c, g, psm) ==
    /\ c.remote # NullCid
    /\ IsEnd(g, psm, c.local, c.remote)
    /\ \A k \in DOMAIN g.outbox : ~Answers(g.outbox[k], c.local)

Phases(x, g) ==
    \A psm \in Psm : x.chn[psm].valid =>
        \/ Waits(x.chn[psm], g, psm)
        \/ Answered(x.chn[psm], g, psm)
        \/ Bound(x.chn[psm], g, psm)

\* The host's identifiers: one that it closed is not used until it reads the
\* response, which is the last packet about it.
HostIds(g, m) ==
    /\ \A psm \in Psm : g.end[psm].open => g.end[psm].local \in HostCids \ g.closing
    /\ \A psm, other \in Psm :
          g.end[psm].open /\ g.end[other].open /\ g.end[psm].local = g.end[other].local
            => psm = other
    /\ \A k \in DOMAIN g.outbox : g.outbox[k].type = "discon_req" =>
          /\ g.outbox[k].scid \in g.closing
          /\ \A j \in DOMAIN g.outbox :
                g.outbox[j].type = "discon_req" /\ g.outbox[j].scid = g.outbox[k].scid
                  => j = k
          /\ \A i \in DOMAIN m : ~Closed(m[i], g.outbox[k].scid)

PacketIds(x, g, m) ==
    \A i \in DOMAIN m :
        /\ Configures(m[i]) =>
              \/ m[i].cid \in g.closing
              \/ \E psm \in Psm : /\ g.end[psm].open /\ g.end[psm].local = m[i].cid
                                  /\ m[i].type = "config_rsp" => x.chn[psm].mtu
        /\ m[i].type = "discon_rsp" =>
              /\ m[i].cid \in g.closing
              /\ \A j \in DOMAIN m :
                    /\ Configures(m[j]) /\ m[j].cid = m[i].cid => j <= i
                    /\ Closed(m[j], m[i].cid) => j = i

Pair(x, g, m) ==
    /\ g.con = x.con
    /\ Asked(x, g, m)
    /\ Opened(x, g)
    /\ Named(x, g)
    /\ Phases(x, g)
    /\ HostIds(g, m)
    /\ PacketIds(x, g, m)

\* The packets that confirm the host's configuration of a channel.
Confirming(g, m, psm) ==
    {i \in DOMAIN m : g.end[psm].open /\ Confirms(m[i], g.end[psm].local)}

\* The host is ready for a channel, or will be when it reads packet n; or when it
\* has read all.
Settled(g, m, psm, n) ==
    \/ psm \in g.ready
    \/ g.end[psm].answered /\ \E i \in Confirming(g, m, psm) : i < n

WillSettle(g, m, psm) ==
    psm \in g.ready \/ (g.end[psm].answered /\ Confirming(g, m, psm) # {})

\* As long as no answer is lost, a channel that the host has configured is ready
\* when it has read what is on its way, ...
Heard(x, g, m) ==
    /\ \A psm \in Psm : x.chn[psm].valid /\ x.chn[psm].mtu =>
          \/ psm \in g.ready
          \/ g.end[psm].open /\ g.end[psm].confirmed
          \/ Confirming(g, m, psm) # {}
    /\ \A psm \in Psm : Ready(g.end[psm]) => psm \in g.ready
    /\ \A psm \in Psm, k \in DOMAIN g.outbox :
          x.chn[psm].valid /\ Closes(g.outbox[k], x.chn[psm].local) => psm \in g.ready

\* ... and so are the channels that a packet needs, before it is read.
Timely(x, g, m) ==
    /\ \A i \in DOMAIN m, psm \in Psm :
          m[i].type = "hid" \/ (psm = "cntl" /\ Asks(m[i], "intr"))
            => Settled(g, m, psm, i)
    /\ ~x.linking => \A psm \in Psm : WillSettle(g, m, psm)
    /\ "intr" \in g.ready \/ g.end["intr"].open => "cntl" \in g.ready
    /\ \A k \in DOMAIN g.outbox : g.outbox[k].type = "hid" => g.ready = Psm

-----------------------------------------------------------------------------
\* A Wiimote's channels have different identifiers.
Apart(x) ==
    \A psm, other \in Psm :
        x.chn[psm].valid /\ x.chn[other].valid /\ x.chn[psm].local = x.chn[other].local
          => psm = other

\* Wiimote w of module state s and its host g fit.
On(s, g, w) ==
    LET m == Mail(s.pipe, w, g.con) IN
    /\ s.wm[w].con > 0
    /\ Pair(s.wm[w], g, m)
    /\ ~s.lost => Heard(s.wm[w], g, m) /\ Timely(s.wm[w], g, m)

\* No packet is of a later connection.
Dated(s) == \A i \in DOMAIN s.pipe : s.pipe[i].con \in 1..s.wm[s.pipe[i].wm].con

\* The host has an identifier for each channel it may be asked for.
Spare == \A w \in Wiimotes :
            Cardinality(HostCids) >= 2 + Cardinality(host[w].closing) + budget.close

LinkInv ==
    /\ Now \in Module /\ host \in [Wiimotes -> Host] /\ budget \in Budget
    /\ Dated(Now)
    /\ Spare
    /\ \A w \in Wiimotes : IF wm[w].up THEN On(Now, host[w], w) ELSE host[w] = NoHost

-----------------------------------------------------------------------------
(* Queues                                                                   *)

\* p is sequence o with e at its end; o has e in front of p.
Grown(o, p, e) ==
    LET n == Len(o) + 1
    IN  /\ n \in Nat \ {0} /\ n \in DOMAIN p /\ p[n] = e
        /\ \A k \in DOMAIN o : k \in Nat \ {0} /\ k < n /\ k \in DOMAIN p /\ p[k] = o[k]
        /\ \A k \in DOMAIN p : k \in DOMAIN o \/ k = n

Shrunk(o, p, e) ==
    /\ 1 \in DOMAIN o /\ o[1] = e
    /\ \A k \in DOMAIN p : k \in Nat \ {0} /\ k + 1 \in DOMAIN o /\ p[k] = o[k + 1]
    /\ \A k \in DOMAIN o :
          k \in Nat \ {0} /\ (k # 1 => k - 1 \in DOMAIN p /\ p[k - 1] = o[k])

\* The same for the packets of a connection.
More(m, mm, cmd) ==
    \E n \in Nat : /\ DOMAIN mm = DOMAIN m \cup {n} /\ mm[n] = cmd
                   /\ \A i \in DOMAIN m : i \in Nat /\ i < n /\ mm[i] = m[i]

Less(m, mm) ==
    /\ \A i \in DOMAIN mm : i \in Nat \ {0} /\ i + 1 \in DOMAIN m /\ mm[i] = m[i + 1]
    /\ \A i \in DOMAIN m :
          i \in Nat \ {0} /\ (i # 1 => i - 1 \in DOMAIN mm /\ mm[i - 1] = m[i])

-----------------------------------------------------------------------------
(* What the module sends, and what it does with commands.  Each of these     *)
(* lemmas has the Wiimote before and after, x and y, the host, g and h, and   *)
(* the packets, m and n.                                                     *)

LEMMA ConfigSent ==
    ASSUME NEW x \in Wiimote, NEW y \in Wiimote, NEW g \in Host, NEW m, NEW mm,
           NEW psm \in Psm, Apart(x), Pair(x, g, m),
           Accepted(x.chn[psm]), x.chn[psm].state = "inactive",
           More(m, mm, ConfigReq(x.chn[psm].remote)),
           y.con = x.con, y.linking = x.linking,
           y.chn = [x.chn EXCEPT ![psm].state = "pend"]
    PROVE  Pair(y, g, mm)
<1> DEFINE c == x.chn[psm]
<1>1. /\ y.chn[psm] \in Channel /\ y.chn[psm].state = "pend"
      /\ y.chn[psm].valid = c.valid /\ y.chn[psm].local = c.local
      /\ y.chn[psm].remote = c.remote /\ y.chn[psm].mtu = c.mtu
      /\ \A p \in Psm : p # psm => y.chn[p] = x.chn[p]
  BY DEF Wiimote, Channel
<1>2. Bound(c, g, psm)
  BY DEF Accepted, Pair, Phases, Waits, Answered, IsNew
<1>3. PICK n \in Nat : /\ DOMAIN mm = DOMAIN m \cup {n}
                       /\ mm[n] = ConfigReq(c.remote)
                       /\ \A i \in DOMAIN m : i \in Nat /\ i < n /\ mm[i] = m[i]
  BY DEF More
<1>4. Asked(y, g, mm)
  <2>1. \A p \in Psm : ~Asks(mm[n], p)
    BY <1>3 DEF Asks, ConfigReq
  <2>2. \A i \in DOMAIN m, p \in Psm : Asks(m[i], p) => y.chn[p] = x.chn[p]
    BY <1>1, <1>2 DEF Pair, Asked, Bound, IsNew
  <2>. QED BY <1>3, <2>1, <2>2 DEF Pair, Asked
<1>5. Opened(y, g)
  BY <1>1 DEF Pair, Opened
<1>6. Named(y, g)
  BY <1>1 DEF Pair, Named
<1>7. Phases(y, g)
  BY <1>1, <1>2 DEF Pair, Phases, Bound
<1>8. HostIds(g, mm)
  BY <1>3 DEF Pair, HostIds, ConfigReq, Closed
<1>9. PacketIds(y, g, mm)
  <2> DEFINE r == c.remote
  <2>1. \/ r \in g.closing
        \/ \E p \in Psm : g.end[p].open /\ g.end[p].local = r
    BY <1>2 DEF Pair, HostIds, Bound, IsEnd, Closes
  <2>2. \A i \in DOMAIN m : ~Closed(m[i], r)
    BY <1>2 DEF Pair, PacketIds, HostIds, Bound, IsEnd, Closes, Closed
  <2>. QED BY <1>1, <1>3, <2>1, <2>2 DEF Pair, PacketIds, ConfigReq, Configures, Closed
<1>. QED BY <1>4, <1>5, <1>6, <1>7, <1>8, <1>9 DEF Pair

LEMMA OpenChannelSent ==
    ASSUME NEW x \in Wiimote, NEW y \in Wiimote, NEW g \in Host, NEW m, NEW mm,
           NEW psm \in Psm, NEW cid \in Nat, Apart(y), Pair(x, g, m),
           ~x.chn[psm].valid,
           More(m, mm, ConnectReq(psm, cid)),
           y.con = x.con, y.linking = x.linking,
           y.chn = [x.chn EXCEPT ![psm] = NewChannel(cid)]
    PROVE  Pair(y, g, mm)
<1> DEFINE d == y.chn[psm]
<1>1. /\ IsNew(d) /\ d.local = cid /\ d.valid
      /\ \A p \in Psm : p # psm => y.chn[p] = x.chn[p]
  BY DEF Wiimote, Channel, NewChannel, NoChannel, IsNew
<1>2. PICK n \in Nat : /\ DOMAIN mm = DOMAIN m \cup {n}
                       /\ mm[n] = ConnectReq(psm, cid)
                       /\ \A i \in DOMAIN m : i \in Nat /\ i < n /\ mm[i] = m[i]
  BY DEF More
<1>3. /\ ~g.end[psm].open
      /\ \A k \in DOMAIN g.outbox : ~Names(g.outbox[k], cid)
  <2>1. ~g.end[psm].open
    BY DEF Pair, Opened
  <2>2. ASSUME NEW k \in DOMAIN g.outbox, Names(g.outbox[k], cid)
        PROVE  FALSE
    <3>1. PICK p \in Psm : x.chn[p].valid /\ x.chn[p].local = cid
      BY <2>2 DEF Pair, Named, Names
    <3>. QED BY <1>1, <3>1 DEF Apart
  <2>. QED BY <2>1, <2>2
<1>4. Asked(y, g, mm)
  <2>1. \A i \in DOMAIN m : ~Asks(m[i], psm)
    BY DEF Pair, Asked, IsNew
  <2>2. /\ Asks(mm[n], psm) /\ mm[n].cid = cid
        /\ \A p \in Psm : Asks(mm[n], p) => p = psm
    BY <1>2 DEF Asks, ConnectReq
  <2>3. ASSUME NEW i \in DOMAIN mm, NEW p \in Psm, Asks(mm[i], p)
        PROVE  /\ IsNew(y.chn[p]) /\ y.chn[p].local = mm[i].cid
               /\ ~g.end[p].open
               /\ \A k \in DOMAIN g.outbox : ~Names(g.outbox[k], mm[i].cid)
               /\ \A j \in DOMAIN mm : Asks(mm[j], p) => j = i
    <3>1. CASE i = n
      BY <1>1, <1>2, <1>3, <2>1, <2>2, <2>3, <3>1
    <3>2. CASE i \in DOMAIN m
      BY <1>1, <1>2, <2>1, <2>2, <2>3, <3>2 DEF Pair, Asked
    <3>. QED BY <1>2, <3>1, <3>2
  <2>. QED BY <2>3 DEF Asked
<1>5. Opened(y, g)
  BY <1>1, <1>3 DEF Pair, Opened
<1>6. Named(y, g)
  <2>1. ASSUME NEW k \in DOMAIN g.outbox, g.outbox[k].type # "refusal"
        PROVE  \E p \in Psm : y.chn[p].valid /\ y.chn[p].local = g.outbox[k].cid
    BY <1>1, <2>1 DEF Pair, Named
  <2>2. ASSUME NEW k \in DOMAIN g.outbox, g.outbox[k].type # "refusal",
               NEW p \in Psm, y.chn[p].valid, Closes(g.outbox[k], y.chn[p].local)
        PROVE  ~g.end[p].open
    BY <1>1, <1>3, <2>2 DEF Pair, Named
  <2>. QED BY <2>1, <2>2 DEF Pair, Named
<1>7. Phases(y, g)
  BY <1>1, <1>3 DEF Pair, Phases, Waits
<1>8. HostIds(g, mm)
  BY <1>2 DEF Pair, HostIds, ConnectReq, Closed
<1>9. PacketIds(y, g, mm)
  <2>1. \A i \in DOMAIN m, p \in Psm : g.end[p].open => y.chn[p] = x.chn[p]
    BY <1>1, <1>3
  <2>2. ~Configures(mm[n]) /\ mm[n].type # "discon_rsp"
    BY <1>2 DEF ConnectReq, Configures
  <2>. QED BY <1>2, <2>1, <2>2 DEF Pair, PacketIds, Closed
<1>. QED BY <1>4, <1>5, <1>6, <1>7, <1>8, <1>9 DEF Pair

LEMMA HidSent ==
    ASSUME NEW x \in Wiimote, NEW g \in Host, NEW m, NEW mm, NEW cid \in Nat,
           Pair(x, g, m), More(m, mm, Hid(cid))
    PROVE  Pair(x, g, mm)
<1>1. PICK n \in Nat : /\ DOMAIN mm = DOMAIN m \cup {n}
                       /\ mm[n] = Hid(cid)
                       /\ \A i \in DOMAIN m : i \in Nat /\ i < n /\ mm[i] = m[i]
  BY DEF More
<1>2. /\ \A p \in Psm : ~Asks(mm[n], p)
      /\ ~Configures(mm[n]) /\ mm[n].type # "discon_rsp"
  BY <1>1 DEF Hid, Asks, Configures
<1>3. Asked(x, g, mm)
  BY <1>1, <1>2 DEF Pair, Asked
<1>4. HostIds(g, mm)
  BY <1>1, <1>2 DEF Pair, HostIds, Closed
<1>5. PacketIds(x, g, mm)
  BY <1>1, <1>2 DEF Pair, PacketIds, Closed
<1>. QED BY <1>3, <1>4, <1>5 DEF Pair

\* The Wiimote takes the first command of the host.
Taken(g, h, cmd) ==
    /\ Shrunk(g.outbox, h.outbox, cmd)
    /\ h.con = g.con /\ h.end = g.end /\ h.closing = g.closing /\ h.ready = g.ready

LEMMA SkipTaken ==
    ASSUME NEW x \in Wiimote, NEW y \in Wiimote, NEW g \in Host, NEW h \in Host,
           NEW m, NEW cmd, Pair(x, g, m), Taken(g, h, cmd),
           cmd.type \in {"refusal", "hid"},
           y.con = x.con, y.linking = x.linking, y.chn = x.chn
    PROVE  Pair(y, h, m)
<1>1. Asked(y, h, m)
  BY DEF Pair, Asked, Taken, Shrunk
<1>2. Opened(y, h)
  BY DEF Pair, Opened, Taken, Shrunk
<1>3. Named(y, h)
  BY DEF Pair, Named, Taken, Shrunk
<1>4. \A psm \in Psm : \A cid, r : IsEnd(g, psm, cid, r) => IsEnd(h, psm, cid, r)
  BY DEF IsEnd, Taken, Shrunk, Closes
<1>5. Phases(y, h)
  BY <1>4 DEF Pair, Phases, Waits, Answered, Bound, Taken, Shrunk, Answers
<1>6. HostIds(h, m)
  BY DEF Pair, HostIds, Taken, Shrunk
<1>7. PacketIds(y, h, m)
  BY DEF Pair, PacketIds, Taken
<1>. QED BY <1>1, <1>2, <1>3, <1>5, <1>6, <1>7 DEF Pair, Taken

\* The first command about a channel is its answer, unless it had one.
LEMMA AnswerFirst ==
    ASSUME NEW x, NEW g, NEW h, NEW m, NEW psm \in Psm, NEW cmd,
           Pair(x, g, m), Shrunk(g.outbox, h.outbox, cmd),
           x.chn[psm].valid, Names(cmd, x.chn[psm].local)
    PROVE  IF Answers(cmd, x.chn[psm].local)
           THEN /\ IsNew(x.chn[psm]) /\ cmd.dcid # NullCid
                /\ IsEnd(g, psm, x.chn[psm].local, cmd.dcid)
                /\ \A k \in DOMAIN h.outbox : ~Answers(h.outbox[k], x.chn[psm].local)
           ELSE Bound(x.chn[psm], g, psm)
<1>1. /\ 1 \in DOMAIN g.outbox /\ g.outbox[1] = cmd
      /\ \A k \in DOMAIN g.outbox : k \in Nat \ {0}
      /\ \A k \in DOMAIN h.outbox : /\ k \in Nat \ {0} /\ k + 1 \in DOMAIN g.outbox
                                    /\ h.outbox[k] = g.outbox[k + 1]
  BY DEF Shrunk
<1>2. ~Waits(x.chn[psm], g, psm)
  BY <1>1 DEF Waits
<1>3. CASE Answered(x.chn[psm], g, psm)
  <2>1. PICK k \in DOMAIN g.outbox :
           /\ Answers(g.outbox[k], x.chn[psm].local)
           /\ g.outbox[k].dcid # NullCid
           /\ IsEnd(g, psm, x.chn[psm].local, g.outbox[k].dcid)
           /\ \A j \in DOMAIN g.outbox : Names(g.outbox[j], x.chn[psm].local) => k <= j
           /\ \A j \in DOMAIN g.outbox : Answers(g.outbox[j], x.chn[psm].local) => k = j
    BY <1>3 DEF Answered
  <2>2. k = 1
    BY <1>1, <2>1
  <2>3. \A j \in DOMAIN h.outbox : ~Answers(h.outbox[j], x.chn[psm].local)
    BY <1>1, <2>1, <2>2
  <2>. QED BY <1>1, <1>3, <2>1, <2>2, <2>3 DEF Answered
<1>4. CASE Bound(x.chn[psm], g, psm)
  BY <1>1, <1>4 DEF Bound
<1>. QED BY <1>2, <1>3, <1>4 DEF Pair, Phases

LEMMA AnswerTaken ==
    ASSUME NEW x \in Wiimote, NEW y \in Wiimote, NEW g \in Host, NEW h \in Host,
           NEW m, NEW cmd, NEW psm \in Psm, NEW r \in Nat,
           Apart(x), Pair(x, g, m), Taken(g, h, cmd),
           cmd.type = "connect_rsp", cmd.dcid = r,
           x.chn[psm].valid, cmd.cid = x.chn[psm].local,
           y.con = x.con, y.linking = x.linking,
           y.chn = [x.chn EXCEPT ![psm].remote = r]
    PROVE  Pair(y, h, m)
<1> DEFINE c == x.chn[psm]
           d == y.chn[psm]
<1>1. /\ d.valid = c.valid /\ d.local = c.local /\ d.mtu = c.mtu
      /\ d.state = c.state /\ d.remote = r
      /\ \A p \in Psm : p # psm => y.chn[p] = x.chn[p]
  <2>1. x.chn \in [Psm -> Channel]
    BY DEF Wiimote
  <2>2. d = [c EXCEPT !.remote = r] /\ \A p \in Psm : p # psm => y.chn[p] = x.chn[p]
    BY <2>1
  <2>3. c \in Channel
    BY <2>1
  <2>. QED BY <2>2, <2>3 DEF Channel
<1>2. /\ IsNew(c) /\ r # NullCid /\ IsEnd(g, psm, c.local, r)
      /\ \A k \in DOMAIN h.outbox : ~Answers(h.outbox[k], c.local)
  BY AnswerFirst DEF Taken, Names, Answers
<1>3. Asked(y, h, m)
  <2>1. \A i \in DOMAIN m : ~Asks(m[i], psm)
    BY DEF Pair, Asked, Taken, Shrunk, Names
  <2>2. \A k \in DOMAIN h.outbox : k + 1 \in DOMAIN g.outbox /\ h.outbox[k] = g.outbox[k + 1]
    BY DEF Taken, Shrunk
  <2>. QED BY <1>1, <2>1, <2>2 DEF Pair, Asked, Taken
<1>4. Opened(y, h)
  BY <1>1 DEF Pair, Opened, Taken, Shrunk
<1>5. Named(y, h)
  <2>1. /\ \A k \in DOMAIN h.outbox : /\ k \in Nat /\ k + 1 \in DOMAIN g.outbox
                                      /\ h.outbox[k] = g.outbox[k + 1]
        /\ \A p \in Psm : y.chn[p].valid = x.chn[p].valid /\ y.chn[p].local = x.chn[p].local
    BY <1>1 DEF Taken, Shrunk
  <2>. QED BY <2>1 DEF Pair, Named, Taken
<1>6. \A p \in Psm : \A cid, e : IsEnd(g, p, cid, e) => IsEnd(h, p, cid, e)
  BY DEF IsEnd, Taken, Shrunk, Closes
<1>7. Phases(y, h)
  <2>1. Bound(d, h, psm)
    BY <1>1, <1>2, <1>6 DEF Bound
  <2>2. ASSUME NEW p \in Psm, p # psm, x.chn[p].valid
        PROVE  \/ Waits(x.chn[p], h, p)
               \/ Answered(x.chn[p], h, p)
               \/ Bound(x.chn[p], h, p)
    <3>1. x.chn[p].local # c.local
      BY <2>2 DEF Apart
    <3>. QED BY <1>6, <2>2, <3>1 DEF Pair, Phases, Waits, Answered, Bound, Taken, Shrunk, Answers
  <2>. QED BY <1>1, <2>1, <2>2 DEF Phases
<1>8. HostIds(h, m)
  BY DEF Pair, HostIds, Taken, Shrunk
<1>9. PacketIds(y, h, m)
  BY <1>1 DEF Pair, PacketIds, Taken
<1>. QED BY <1>3, <1>4, <1>5, <1>7, <1>8, <1>9 DEF Pair, Taken

\* A command that is neither the answer nor the end of a channel changes no more
\* of it than its state and whether the host's configuration is known.
LEMMA ConfigTaken ==
    ASSUME NEW x \in Wiimote, NEW y \in Wiimote, NEW g \in Host, NEW h \in Host,
           NEW m, NEW cmd, NEW psm \in Psm,
           Apart(x), Pair(x, g, m), Taken(g, h, cmd), Configures(cmd),
           x.chn[psm].valid, cmd.cid = x.chn[psm].local,
           y.con = x.con, y.linking = x.linking,
           y.chn[psm] = IF cmd.type = "config_req" THEN [x.chn[psm] EXCEPT !.mtu = TRUE]
                        ELSE [x.chn[psm] EXCEPT !.state = "complete"],
           \A p \in Psm : p # psm => y.chn[p] = x.chn[p]
    PROVE  Pair(y, h, m) /\ Bound(y.chn[psm], h, psm)
<1> DEFINE c == x.chn[psm]
           d == y.chn[psm]
<1>1. /\ d.valid = c.valid /\ d.local = c.local /\ d.remote = c.remote
      /\ c.mtu => d.mtu
      /\ d.state # c.state => d.state = "complete" /\ cmd.type = "config_rsp"
  BY DEF Wiimote, Channel, Configures
<1>2. Bound(c, g, psm)
  BY AnswerFirst DEF Taken, Names, Answers, Configures
<1>3. Asked(y, h, m)
  <2>1. \A i \in DOMAIN m : ~Asks(m[i], psm)
    BY <1>2 DEF Pair, Asked, Bound, IsNew
  <2>2. \A k \in DOMAIN h.outbox : k + 1 \in DOMAIN g.outbox /\ h.outbox[k] = g.outbox[k + 1]
    BY DEF Taken, Shrunk
  <2>. QED BY <2>1, <2>2 DEF Pair, Asked, Taken
<1>4. Opened(y, h)
  <2>1. d.state # c.state => (g.end[psm].open => g.end[psm].answered)
    BY <1>1 DEF Pair, Opened, Taken, Shrunk
  <2>2. \A k \in DOMAIN h.outbox : k + 1 \in DOMAIN g.outbox /\ h.outbox[k] = g.outbox[k + 1]
    BY DEF Taken, Shrunk
  <2>3. ASSUME NEW p \in Psm, h.end[p].open
        PROVE  /\ y.chn[p].valid /\ y.chn[p].local = h.end[p].remote
               /\ h.end[p].confirmed => y.chn[p].mtu
               /\ y.chn[p].state = "complete" => h.end[p].answered
               /\ \A k \in DOMAIN h.outbox :
                     h.outbox[k].type = "config_rsp" /\ h.outbox[k].cid = y.chn[p].local
                       => h.end[p].answered
    <3>1. CASE p = psm
      BY <1>1, <2>1, <2>2, <2>3, <3>1 DEF Pair, Opened, Taken
    <3>2. CASE p # psm
      BY <2>2, <2>3, <3>2 DEF Pair, Opened, Taken
    <3>. QED BY <3>1, <3>2
  <2>. QED BY <2>3 DEF Opened
<1>5. Named(y, h)
  <2>1. /\ \A k \in DOMAIN h.outbox : /\ k \in Nat /\ k + 1 \in DOMAIN g.outbox
                                      /\ h.outbox[k] = g.outbox[k + 1]
        /\ \A p \in Psm : y.chn[p].valid = x.chn[p].valid /\ y.chn[p].local = x.chn[p].local
    BY <1>1 DEF Taken, Shrunk
  <2>. QED BY <2>1 DEF Pair, Named, Taken
<1>6. \A p \in Psm : \A cid, e : IsEnd(g, p, cid, e) => IsEnd(h, p, cid, e)
  BY DEF IsEnd, Taken, Shrunk, Closes, Configures
<1>7. Bound(d, h, psm)
  BY <1>1, <1>2, <1>6 DEF Bound, Taken, Shrunk
<1>8. Phases(y, h)
  <2>2. ASSUME NEW p \in Psm, p # psm, x.chn[p].valid
        PROVE  \/ Waits(x.chn[p], h, p)
               \/ Answered(x.chn[p], h, p)
               \/ Bound(x.chn[p], h, p)
    BY <1>6, <2>2 DEF Pair, Phases, Waits, Answered, Bound, Taken, Shrunk, Answers, Configures
  <2>. QED BY <1>7, <2>2 DEF Phases
<1>9. HostIds(h, m)
  BY DEF Pair, HostIds, Taken, Shrunk
<1>10. PacketIds(y, h, m)
  BY <1>1 DEF Pair, PacketIds, Taken
<1>. QED BY <1>3, <1>4, <1>5, <1>7, <1>8, <1>9, <1>10 DEF Pair, Taken

LEMMA ConfirmSent ==
    ASSUME NEW x \in Wiimote, NEW g \in Host, NEW m, NEW mm, NEW psm \in Psm,
           Pair(x, g, m), Bound(x.chn[psm], g, psm), x.chn[psm].valid, x.chn[psm].mtu,
           More(m, mm, ConfigRsp(x.chn[psm].remote))
    PROVE  Pair(x, g, mm)
<1> DEFINE r == x.chn[psm].remote
<1>1. PICK n \in Nat : /\ DOMAIN mm = DOMAIN m \cup {n}
                       /\ mm[n] = ConfigRsp(r)
                       /\ \A i \in DOMAIN m : i \in Nat /\ i < n /\ mm[i] = m[i]
  BY DEF More
<1>2. /\ \A p \in Psm : ~Asks(mm[n], p)
      /\ mm[n].type # "discon_rsp" /\ mm[n].cid = r
  BY <1>1 DEF ConfigRsp, Asks
<1>3. Asked(x, g, mm)
  BY <1>1, <1>2 DEF Pair, Asked
<1>4. HostIds(g, mm)
  BY <1>1, <1>2 DEF Pair, HostIds, Closed
<1>5. PacketIds(x, g, mm)
  <2>1. r \in g.closing \/ (g.end[psm].open /\ g.end[psm].local = r)
    BY DEF Pair, HostIds, Bound, IsEnd, Closes
  <2>2. \A i \in DOMAIN m : ~Closed(m[i], r)
    BY <2>1 DEF Pair, PacketIds, HostIds, Bound, IsEnd, Closes, Closed
  <2>. QED BY <1>1, <1>2, <2>1, <2>2 DEF Pair, PacketIds, Closed
<1>. QED BY <1>3, <1>4, <1>5 DEF Pair

\* The host has closed the channel that was r for it, and waits for the response.
Ended(g, m, r) ==
    /\ r \in g.closing
    /\ \A i \in DOMAIN m : ~Closed(m[i], r)
    /\ \A k \in DOMAIN g.outbox :
          g.outbox[k].type = "discon_req" => g.outbox[k].scid # r

\* The end of a channel, and the response.
LEMMA CloseTaken ==
    ASSUME NEW x \in Wiimote, NEW y \in Wiimote, NEW g \in Host, NEW h \in Host,
           NEW m, NEW cmd, NEW psm \in Psm,
           Apart(x), Pair(x, g, m), Taken(g, h, cmd), cmd.type = "discon_req",
           x.chn[psm].valid, cmd.cid = x.chn[psm].local,
           y.con = x.con, y.linking = x.linking,
           y.chn = [x.chn EXCEPT ![psm].valid = FALSE]
    PROVE  Pair(y, h, m) /\ Ended(h, m, cmd.scid)
<1> DEFINE c == x.chn[psm]
           d == y.chn[psm]
<1>1. /\ ~d.valid /\ \A p \in Psm : p # psm => y.chn[p] = x.chn[p]
      /\ d.mtu = c.mtu
  BY DEF Wiimote, Channel
<1>2. /\ 1 \in DOMAIN g.outbox /\ g.outbox[1] = cmd
      /\ \A k \in DOMAIN h.outbox : /\ k \in Nat \ {0} /\ k + 1 \in DOMAIN g.outbox
                                    /\ h.outbox[k] = g.outbox[k + 1]
      /\ \A k \in DOMAIN g.outbox :
            k \in Nat \ {0} /\ (k # 1 => k - 1 \in DOMAIN h.outbox
                                         /\ h.outbox[k - 1] = g.outbox[k])
  BY DEF Taken, Shrunk
<1>3. \A k \in DOMAIN h.outbox : ~Names(h.outbox[k], c.local)
  <2>1. \A k \in DOMAIN g.outbox : Names(g.outbox[k], c.local) => k <= 1
    BY <1>2 DEF Pair, Named, Names, Closes
  <2>. QED BY <1>2, <2>1
<1>4. ~g.end[psm].open
  BY <1>2 DEF Pair, Named, Closes
<1>5. Asked(y, h, m)
  <2>1. \A i \in DOMAIN m : ~Asks(m[i], psm)
    BY <1>2 DEF Pair, Asked, Names
  <2>. QED BY <1>1, <1>2, <2>1 DEF Pair, Asked, Taken
<1>6. Opened(y, h)
  BY <1>1, <1>2, <1>4 DEF Pair, Opened, Taken
<1>7. Named(y, h)
  <2>1. ASSUME NEW k \in DOMAIN h.outbox, h.outbox[k].type # "refusal"
        PROVE  \E p \in Psm : y.chn[p].valid /\ y.chn[p].local = h.outbox[k].cid
    BY <1>1, <1>2, <1>3, <2>1 DEF Pair, Named, Names
  <2>2. ASSUME NEW k \in DOMAIN h.outbox, h.outbox[k].type # "refusal",
               NEW p \in Psm, y.chn[p].valid, Closes(h.outbox[k], y.chn[p].local)
        PROVE  ~h.end[p].open
    BY <1>1, <1>2, <2>2 DEF Pair, Named, Taken
  <2>3. \A k \in DOMAIN h.outbox : h.outbox[k].type # "refusal" =>
           \A j \in DOMAIN h.outbox : Closes(h.outbox[j], h.outbox[k].cid) => k <= j
    BY <1>2 DEF Pair, Named
  <2>. QED BY <2>1, <2>2, <2>3 DEF Named
<1>8. Phases(y, h)
  <2>1. ASSUME NEW p \in Psm, p # psm, x.chn[p].valid
        PROVE  \/ Waits(x.chn[p], h, p)
               \/ Answered(x.chn[p], h, p)
               \/ Bound(x.chn[p], h, p)
    <3>1. x.chn[p].local # c.local
      BY <2>1 DEF Apart
    <3>2. \A r : IsEnd(g, p, x.chn[p].local, r) => IsEnd(h, p, x.chn[p].local, r)
      BY <1>2, <3>1 DEF IsEnd, Taken, Closes
    <3>. QED BY <1>2, <2>1, <3>1, <3>2
             DEF Pair, Phases, Waits, Answered, Bound, Taken, Answers
  <2>. QED BY <1>1, <2>1 DEF Phases
<1>9. HostIds(h, m)
  BY <1>2 DEF Pair, HostIds, Taken
<1>10. PacketIds(y, h, m)
  BY <1>1, <1>4 DEF Pair, PacketIds, Taken
<1>11. Ended(h, m, cmd.scid)
  BY <1>2 DEF Pair, HostIds, Taken, Ended
<1>. QED BY <1>5, <1>6, <1>7, <1>8, <1>9, <1>10, <1>11 DEF Pair, Taken

LEMMA CloseSent ==
    ASSUME NEW x \in Wiimote, NEW g \in Host, NEW m, NEW mm, NEW r \in Nat,
           Pair(x, g, m), Ended(g, m, r), More(m, mm, DisconRsp(r))
    PROVE  Pair(x, g, mm)
<1>1. PICK n \in Nat : /\ DOMAIN mm = DOMAIN m \cup {n}
                       /\ mm[n] = DisconRsp(r)
                       /\ \A i \in DOMAIN m : i \in Nat /\ i < n /\ mm[i] = m[i]
  BY DEF More
<1>2. /\ \A p \in Psm : ~Asks(mm[n], p)
      /\ mm[n].type = "discon_rsp" /\ mm[n].cid = r /\ ~Configures(mm[n])
  BY <1>1 DEF DisconRsp, Asks, Configures
<1>3. Asked(x, g, mm)
  BY <1>1, <1>2 DEF Pair, Asked
<1>4. HostIds(g, mm)
  BY <1>1, <1>2 DEF Pair, HostIds, Closed, Ended
<1>5. PacketIds(x, g, mm)
  BY <1>1, <1>2 DEF Pair, PacketIds, Closed, Ended
<1>. QED BY <1>3, <1>4, <1>5 DEF Pair

-----------------------------------------------------------------------------
(* What the host reads.                                                     *)

LEMMA PacketRead ==
    ASSUME NEW x, NEW g, NEW m, NEW n, Pair(x, g, m), Less(m, n)
    PROVE  Pair(x, g, n)
<1>1. \A i \in DOMAIN n : i \in Nat \ {0} /\ i + 1 \in DOMAIN m /\ n[i] = m[i + 1]
  BY DEF Less
<1>2. Asked(x, g, n)
  BY <1>1 DEF Pair, Asked
<1>3. HostIds(g, n)
  BY <1>1 DEF Pair, HostIds
<1>4. PacketIds(x, g, n)
  BY <1>1 DEF Pair, PacketIds
<1>. QED BY <1>2, <1>3, <1>4 DEF Pair

\* What holds of the packets behind the first one.
LEMMA RequestRead ==
    ASSUME NEW x, NEW g, NEW m, NEW n, NEW psm \in Psm,
           Pair(x, g, m), Less(m, n), 1 \in DOMAIN m, Asks(m[1], psm)
    PROVE  /\ IsNew(x.chn[psm]) /\ x.chn[psm].local = m[1].cid
           /\ ~g.end[psm].open
           /\ \A k \in DOMAIN g.outbox : ~Names(g.outbox[k], m[1].cid)
           /\ \A i \in DOMAIN n : ~Asks(n[i], psm)
<1>1. \A i \in DOMAIN n : i \in Nat \ {0} /\ i + 1 \in DOMAIN m /\ n[i] = m[i + 1]
                          /\ i + 1 # 1
  BY DEF Less
<1>. QED BY <1>1 DEF Pair, Asked

LEMMA ResponseRead ==
    ASSUME NEW x, NEW g, NEW m, NEW n,
           Pair(x, g, m), Less(m, n), 1 \in DOMAIN m, m[1].type = "discon_rsp"
    PROVE  /\ \A i \in DOMAIN n : ~(Configures(n[i]) /\ n[i].cid = m[1].cid)
           /\ \A i \in DOMAIN n : ~Closed(n[i], m[1].cid)
           /\ \A k \in DOMAIN g.outbox :
                 g.outbox[k].type = "discon_req" => g.outbox[k].scid # m[1].cid
<1>1. \A i \in DOMAIN n : i \in Nat \ {0} /\ i + 1 \in DOMAIN m /\ n[i] = m[i + 1]
                          /\ i + 1 # 1 /\ ~(i + 1 <= 1)
  BY DEF Less
<1>2. \A i \in DOMAIN n : ~(Configures(n[i]) /\ n[i].cid = m[1].cid)
  BY <1>1 DEF Pair, PacketIds
<1>3. \A i \in DOMAIN n : ~Closed(n[i], m[1].cid)
  BY <1>1 DEF Pair, PacketIds
<1>4. \A k \in DOMAIN g.outbox :
         g.outbox[k].type = "discon_req" => g.outbox[k].scid # m[1].cid
  BY DEF Pair, HostIds, Closed
<1>. QED BY <1>2, <1>3, <1>4

\* The host adds a command to what it has to send.
LEMMA HostSays ==
    ASSUME NEW x \in Wiimote, NEW g \in Host, NEW h \in Host, NEW m, NEW cmd,
           Apart(x), Pair(x, g, m), Grown(g.outbox, h.outbox, cmd),
           h.con = g.con, h.end = g.end, h.closing = g.closing,
           \/ cmd.type = "refusal"
           \/ /\ cmd.type \in {"config_req", "config_rsp", "hid"}
              /\ \E psm \in Psm : /\ g.end[psm].open /\ cmd.cid = g.end[psm].remote
                                  /\ cmd.type = "config_rsp" => g.end[psm].answered
    PROVE  Pair(x, h, m)
<1>1. PICK e \in Nat \ {0} :
         /\ DOMAIN h.outbox = DOMAIN g.outbox \cup {e} /\ h.outbox[e] = cmd
         /\ \A k \in DOMAIN g.outbox : k \in Nat /\ k < e /\ h.outbox[k] = g.outbox[k]
  BY DEF Grown
<1>2. CASE cmd.type = "refusal"
  <2>1. Asked(x, h, m)
    BY <1>1, <1>2 DEF Pair, Asked, Names
  <2>2. Opened(x, h)
    BY <1>1, <1>2 DEF Pair, Opened
  <2>3. Named(x, h)
    BY <1>1, <1>2 DEF Pair, Named, Closes
  <2>4. \A psm \in Psm : \A cid, r : IsEnd(g, psm, cid, r) => IsEnd(h, psm, cid, r)
    BY <1>1, <1>2 DEF IsEnd
  <2>5. Phases(x, h)
    BY <1>1, <1>2, <2>4 DEF Pair, Phases, Waits, Answered, Bound, Names, Answers
  <2>6. HostIds(h, m)
    BY <1>1, <1>2 DEF Pair, HostIds
  <2>7. PacketIds(x, h, m)
    BY DEF Pair, PacketIds
  <2>. QED BY <2>1, <2>2, <2>3, <2>5, <2>6, <2>7 DEF Pair
<1>3. ASSUME NEW psm \in Psm, cmd.type \in {"config_req", "config_rsp", "hid"},
             g.end[psm].open, cmd.cid = g.end[psm].remote,
             cmd.type = "config_rsp" => g.end[psm].answered
      PROVE  Pair(x, h, m)
  <2>1. x.chn[psm].valid /\ x.chn[psm].local = cmd.cid
    BY <1>3 DEF Pair, Opened
  <2>2. Asked(x, h, m)
    <3>1. ASSUME NEW i \in DOMAIN m, NEW p \in Psm, Asks(m[i], p)
          PROVE  m[i].cid # cmd.cid
      BY <1>3, <2>1, <3>1 DEF Pair, Asked, IsNew, Apart
    <3>. QED BY <1>1, <3>1 DEF Pair, Asked, Names
  <2>3. Opened(x, h)
    <3>1. \A p \in Psm : g.end[p].open /\ x.chn[p].local = cmd.cid => p = psm
      BY <2>1 DEF Pair, Opened, Apart
    <3>. QED BY <1>1, <1>3, <3>1 DEF Pair, Opened
  <2>4. Named(x, h)
    <3>1. ~Closes(cmd, cmd.cid) /\ cmd.type # "discon_req"
      BY <1>3 DEF Closes
    <3>2. \A j \in DOMAIN g.outbox : ~Closes(g.outbox[j], cmd.cid)
      BY <1>3, <2>1 DEF Pair, Named, Closes
    <3>3. ASSUME NEW k \in DOMAIN h.outbox, h.outbox[k].type # "refusal"
          PROVE  /\ \E p \in Psm : x.chn[p].valid /\ x.chn[p].local = h.outbox[k].cid
                 /\ \A p \in Psm : x.chn[p].valid /\ Closes(h.outbox[k], x.chn[p].local)
                                     => ~h.end[p].open
                 /\ \A j \in DOMAIN h.outbox : Closes(h.outbox[j], h.outbox[k].cid)
                                                 => k <= j
      <4>1. CASE k = e
        BY <1>1, <2>1, <3>1, <3>2, <4>1 DEF Closes
      <4>2. CASE k \in DOMAIN g.outbox
        BY <1>1, <3>1, <3>3, <4>2 DEF Pair, Named, Closes
      <4>. QED BY <1>1, <4>1, <4>2
    <3>. QED BY <3>3 DEF Named
  <2>5. \A p \in Psm : \A cid, r : IsEnd(g, p, cid, r) => IsEnd(h, p, cid, r)
    BY <1>1, <1>3 DEF IsEnd
  <2>6. ASSUME NEW p \in Psm, x.chn[p].valid
        PROVE  \/ Waits(x.chn[p], h, p)
               \/ Answered(x.chn[p], h, p)
               \/ Bound(x.chn[p], h, p)
    <3>1. CASE Waits(x.chn[p], g, p)
      <4>1. x.chn[p].local # cmd.cid
        BY <1>3, <2>1, <2>6, <3>1 DEF Waits, Apart
      <4>. QED BY <1>1, <3>1, <4>1 DEF Waits, Names
    <3>2. CASE Answered(x.chn[p], g, p)
      BY <1>1, <1>3, <2>5, <3>2 DEF Answered, Names, Answers
    <3>3. CASE Bound(x.chn[p], g, p)
      BY <1>1, <1>3, <2>5, <3>3 DEF Bound, Answers
    <3>. QED BY <2>6, <3>1, <3>2, <3>3 DEF Pair, Phases
  <2>7. HostIds(h, m)
    BY <1>1, <1>3 DEF Pair, HostIds
  <2>8. PacketIds(x, h, m)
    BY DEF Pair, PacketIds
  <2>. QED BY <2>2, <2>3, <2>4, <2>6, <2>7, <2>8 DEF Pair, Phases
<1>. QED BY <1>2, <1>3

\* The host accepts the channel it is asked for.
LEMMA HostAccepts ==
    ASSUME NEW x \in Wiimote, NEW g \in Host, NEW h \in Host, NEW m, NEW cid \in Nat,
           NEW psm \in Psm, NEW r \in HostCids,
           Apart(x), Pair(x, g, m),
           IsNew(x.chn[psm]), x.chn[psm].local = cid, ~g.end[psm].open,
           \A k \in DOMAIN g.outbox : ~Names(g.outbox[k], cid),
           \A i \in DOMAIN m : ~Asks(m[i], psm),
           r \notin g.closing, r # NullCid,
           \A p \in Psm : ~(g.end[p].open /\ g.end[p].local = r),
           Grown(g.outbox, h.outbox, ConnectRsp(r, cid)),
           h.con = g.con, h.closing = g.closing,
           h.end[psm].open, h.end[psm].local = r, h.end[psm].remote = cid,
           ~h.end[psm].answered, ~h.end[psm].confirmed,
           \A p \in Psm : p # psm => h.end[p] = g.end[p]
    PROVE  Pair(x, h, m)
<1> DEFINE cmd == ConnectRsp(r, cid)
<1>1. PICK e \in Nat \ {0} :
         /\ DOMAIN h.outbox = DOMAIN g.outbox \cup {e} /\ h.outbox[e] = cmd
         /\ \A k \in DOMAIN g.outbox : k \in Nat /\ k < e /\ h.outbox[k] = g.outbox[k]
  BY DEF Grown
<1>2. /\ Answers(cmd, cid) /\ cmd.dcid = r /\ cmd.cid = cid
      /\ cmd.type = "connect_rsp" /\ \A d : ~Closes(cmd, d)
  BY DEF ConnectRsp, Answers, Closes
<1> HIDE DEF cmd
<1>3. x.chn[psm].valid /\ \A p \in Psm : x.chn[p].valid /\ x.chn[p].local = cid => p = psm
  BY DEF IsNew, Apart
<1>4. Asked(x, h, m)
  <2>1. ASSUME NEW i \in DOMAIN m, NEW p \in Psm, Asks(m[i], p)
        PROVE  p # psm /\ m[i].cid # cid
    BY <1>3, <2>1 DEF Pair, Asked, IsNew
  <2>. QED BY <1>1, <1>2, <2>1 DEF Pair, Asked, Names
<1>5. Opened(x, h)
  <2>1. ASSUME NEW p \in Psm, h.end[p].open
        PROVE  /\ x.chn[p].valid /\ x.chn[p].local = h.end[p].remote
               /\ h.end[p].confirmed => x.chn[p].mtu
               /\ x.chn[p].state = "complete" => h.end[p].answered
               /\ \A k \in DOMAIN h.outbox :
                     h.outbox[k].type = "config_rsp" /\ h.outbox[k].cid = x.chn[p].local
                       => h.end[p].answered
    <3>1. CASE p = psm
      BY <1>1, <1>2, <1>3, <2>1, <3>1 DEF IsNew, Names
    <3>2. CASE p # psm
      BY <1>1, <1>2, <2>1, <3>2 DEF Pair, Opened
    <3>. QED BY <3>1, <3>2
  <2>. QED BY <2>1 DEF Opened
<1>6. Named(x, h)
  <2>1. ASSUME NEW k \in DOMAIN h.outbox, h.outbox[k].type # "refusal"
        PROVE  /\ \E p \in Psm : x.chn[p].valid /\ x.chn[p].local = h.outbox[k].cid
               /\ \A p \in Psm : x.chn[p].valid /\ Closes(h.outbox[k], x.chn[p].local)
                                   => ~h.end[p].open
               /\ \A j \in DOMAIN h.outbox : Closes(h.outbox[j], h.outbox[k].cid)
                                               => k <= j
    <3>1. CASE k = e
      BY <1>1, <1>2, <1>3, <3>1 DEF Closes, Names
    <3>2. CASE k \in DOMAIN g.outbox
      <4>1. \A p \in Psm : Closes(h.outbox[k], x.chn[p].local) => p # psm
        BY <1>1, <3>2 DEF Closes, Names
      <4>. QED BY <1>1, <1>2, <2>1, <3>2, <4>1 DEF Pair, Named
    <3>. QED BY <1>1, <3>1, <3>2
  <2>. QED BY <2>1 DEF Named
<1>7. ASSUME NEW p \in Psm, x.chn[p].valid
      PROVE  \/ Waits(x.chn[p], h, p)
             \/ Answered(x.chn[p], h, p)
             \/ Bound(x.chn[p], h, p)
  <2>1. CASE p = psm
    <3>1. \A j \in DOMAIN h.outbox : Names(h.outbox[j], cid) => j = e
      BY <1>1
    <3>2. IsEnd(h, psm, cid, r)
      BY DEF IsEnd
    <3>3. \A j \in DOMAIN h.outbox : Answers(h.outbox[j], cid) => e = j
      BY <3>1 DEF Answers, Names
    <3>. QED BY <1>1, <1>2, <2>1, <3>1, <3>2, <3>3 DEF Answered
  <2>2. CASE p # psm
    <3>1. x.chn[p].local # cid
      BY <1>3, <1>7, <2>2
    <3>2. \A d : IsEnd(g, p, x.chn[p].local, d) => IsEnd(h, p, x.chn[p].local, d)
      BY <1>1, <2>2 DEF IsEnd
    <3>. QED BY <1>1, <1>2, <1>7, <2>2, <3>1, <3>2
             DEF Pair, Phases, Waits, Answered, Bound, Names, Answers
  <2>. QED BY <2>1, <2>2
<1>8. HostIds(h, m)
  <2>1. \A p \in Psm : h.end[p].open => h.end[p].local \in HostCids \ h.closing
    BY DEF Pair, HostIds
  <2>2. \A p, q \in Psm : h.end[p].open /\ h.end[q].open
                            /\ h.end[p].local = h.end[q].local => p = q
    BY DEF Pair, HostIds
  <2>3. \A k \in DOMAIN h.outbox : h.outbox[k].type = "discon_req" =>
           k \in DOMAIN g.outbox /\ h.outbox[k] = g.outbox[k]
    BY <1>1, <1>2
  <2>4. \A k \in DOMAIN h.outbox : h.outbox[k].type = "discon_req" =>
          /\ h.outbox[k].scid \in h.closing
          /\ \A j \in DOMAIN h.outbox :
                h.outbox[j].type = "discon_req" /\ h.outbox[j].scid = h.outbox[k].scid
                  => j = k
          /\ \A i \in DOMAIN m : ~Closed(m[i], h.outbox[k].scid)
    BY <2>3 DEF Pair, HostIds
  <2>. QED BY <2>1, <2>2, <2>4 DEF HostIds
<1>9. PacketIds(x, h, m)
  <2>1. \A p \in Psm : g.end[p].open => h.end[p] = g.end[p]
    OBVIOUS
  <2>. QED BY <2>1 DEF Pair, PacketIds
<1>. QED BY <1>4, <1>5, <1>6, <1>7, <1>8, <1>9 DEF Pair, Phases

\* The host answers a configuration, or reads that its own was accepted.
LEMMA HostConfigures ==
    ASSUME NEW x \in Wiimote, NEW g \in Host, NEW h \in Host, NEW m, NEW psm \in Psm,
           Pair(x, g, m), g.end[psm].open,
           h.outbox = g.outbox, h.con = g.con, h.closing = g.closing,
           h.end[psm].open, h.end[psm].local = g.end[psm].local,
           h.end[psm].remote = g.end[psm].remote,
           g.end[psm].answered => h.end[psm].answered,
           h.end[psm].confirmed => x.chn[psm].mtu,
           \A p \in Psm : p # psm => h.end[p] = g.end[p]
    PROVE  Pair(x, h, m)
<1>1. \A p \in Psm : /\ h.end[p].open <=> g.end[p].open
                     /\ h.end[p].open => /\ h.end[p].local = g.end[p].local
                                         /\ h.end[p].remote = g.end[p].remote
                                         /\ g.end[p].answered => h.end[p].answered
  OBVIOUS
<1>2. Asked(x, h, m)
  BY <1>1 DEF Pair, Asked
<1>3. Opened(x, h)
  <2>1. \A p \in Psm : h.end[p].open /\ h.end[p].confirmed => x.chn[p].mtu
    BY DEF Pair, Opened
  <2>. QED BY <1>1, <2>1 DEF Pair, Opened
<1>4. Named(x, h)
  BY <1>1 DEF Pair, Named
<1>5. \A p \in Psm : \A cid, r : IsEnd(g, p, cid, r) => IsEnd(h, p, cid, r)
  BY <1>1 DEF IsEnd
<1>6. Phases(x, h)
  BY <1>1, <1>5 DEF Pair, Phases, Waits, Answered, Bound
<1>7. HostIds(h, m)
  BY <1>1 DEF Pair, HostIds
<1>8. PacketIds(x, h, m)
  BY <1>1 DEF Pair, PacketIds
<1>. QED BY <1>2, <1>3, <1>4, <1>6, <1>7, <1>8 DEF Pair

LEMMA HostForgets ==
    ASSUME NEW x \in Wiimote, NEW g \in Host, NEW h \in Host, NEW m, NEW r,
           Pair(x, g, m),
           h.outbox = g.outbox, h.con = g.con, h.end = g.end,
           h.closing = g.closing \ {r},
           \A i \in DOMAIN m : ~(Configures(m[i]) /\ m[i].cid = r),
           \A i \in DOMAIN m : ~Closed(m[i], r),
           \A k \in DOMAIN g.outbox :
              g.outbox[k].type = "discon_req" => g.outbox[k].scid # r
    PROVE  Pair(x, h, m)
<1>1. Asked(x, h, m) /\ Opened(x, h) /\ Named(x, h)
  BY DEF Pair, Asked, Opened, Named
<1>2. Phases(x, h)
  <2>1. \A p \in Psm : \A cid, e : IsEnd(g, p, cid, e) => IsEnd(h, p, cid, e)
    BY DEF IsEnd
  <2>. QED BY <2>1 DEF Pair, Phases, Waits, Answered, Bound
<1>3. HostIds(h, m)
  BY DEF Pair, HostIds
<1>4. PacketIds(x, h, m)
  BY DEF Pair, PacketIds, Closed
<1>. QED BY <1>1, <1>2, <1>3, <1>4 DEF Pair

LEMMA HostCloses ==
    ASSUME NEW x \in Wiimote, NEW g \in Host, NEW h \in Host, NEW m, NEW psm \in Psm,
           Apart(x), Pair(x, g, m), g.end[psm].open,
           Grown(g.outbox, h.outbox, DisconReq(g.end[psm].remote, g.end[psm].local)),
           h.con = g.con, h.closing = g.closing \cup {g.end[psm].local},
           ~h.end[psm].open, \A p \in Psm : p # psm => h.end[p] = g.end[p]
    PROVE  Pair(x, h, m)
<1> DEFINE cid == g.end[psm].remote
           r == g.end[psm].local
           cmd == DisconReq(cid, r)
<1>1. PICK e \in Nat \ {0} :
         /\ DOMAIN h.outbox = DOMAIN g.outbox \cup {e} /\ h.outbox[e] = cmd
         /\ \A k \in DOMAIN g.outbox : k \in Nat /\ k < e /\ h.outbox[k] = g.outbox[k]
  BY DEF Grown
<1>2. /\ cmd.type = "discon_req" /\ cmd.cid = cid /\ cmd.scid = r
  BY DEF DisconReq
<1> HIDE DEF cmd
<1>3. /\ x.chn[psm].valid /\ x.chn[psm].local = cid
      /\ \A p \in Psm : x.chn[p].valid /\ x.chn[p].local = cid => p = psm
  BY DEF Pair, Opened, Apart
<1>4. Asked(x, h, m)
  <2>1. ASSUME NEW i \in DOMAIN m, NEW p \in Psm, Asks(m[i], p)
        PROVE  p # psm /\ m[i].cid # cid
    BY <1>3, <2>1 DEF Pair, Asked, IsNew
  <2>. QED BY <1>1, <1>2, <2>1 DEF Pair, Asked, Names
<1>5. Opened(x, h)
  BY <1>1, <1>2 DEF Pair, Opened
<1>6. Named(x, h)
  <2>1. ASSUME NEW k \in DOMAIN h.outbox, h.outbox[k].type # "refusal"
        PROVE  /\ \E p \in Psm : x.chn[p].valid /\ x.chn[p].local = h.outbox[k].cid
               /\ \A p \in Psm : x.chn[p].valid /\ Closes(h.outbox[k], x.chn[p].local)
                                   => ~h.end[p].open
               /\ \A j \in DOMAIN h.outbox : Closes(h.outbox[j], h.outbox[k].cid)
                                               => k <= j
    <3>1. CASE k = e
      <4>1. \A j \in DOMAIN g.outbox : ~Closes(g.outbox[j], cid)
        BY <1>3 DEF Pair, Named, Closes
      <4>. QED BY <1>1, <1>2, <1>3, <3>1, <4>1 DEF Closes
    <3>2. CASE k \in DOMAIN g.outbox
      BY <1>1, <1>2, <2>1, <3>2 DEF Pair, Named, Closes
    <3>. QED BY <1>1, <3>1, <3>2
  <2>. QED BY <2>1 DEF Named
<1>7. ASSUME NEW p \in Psm, x.chn[p].valid
      PROVE  \/ Waits(x.chn[p], h, p)
             \/ Answered(x.chn[p], h, p)
             \/ Bound(x.chn[p], h, p)
  <2>1. CASE p = psm
    <3>1. \A d : IsEnd(g, psm, cid, d) => IsEnd(h, psm, cid, d)
      BY <1>1, <1>2 DEF IsEnd, Closes
    <3>2. ~Waits(x.chn[psm], g, psm)
      BY DEF Waits
    <3>3. CASE Answered(x.chn[psm], g, psm)
      BY <1>1, <1>2, <1>3, <2>1, <3>1, <3>3 DEF Answered, Names, Answers
    <3>4. CASE Bound(x.chn[psm], g, psm)
      BY <1>1, <1>2, <1>3, <2>1, <3>1, <3>4 DEF Bound, Answers
    <3>. QED BY <1>7, <2>1, <3>2, <3>3, <3>4 DEF Pair, Phases
  <2>2. CASE p # psm
    <3>1. x.chn[p].local # cid
      BY <1>3, <1>7, <2>2
    <3>2. \A d : IsEnd(g, p, x.chn[p].local, d) => IsEnd(h, p, x.chn[p].local, d)
      BY <1>1, <2>2 DEF IsEnd
    <3>. QED BY <1>1, <1>2, <1>7, <2>2, <3>1, <3>2
             DEF Pair, Phases, Waits, Answered, Bound, Names, Answers
  <2>. QED BY <2>1, <2>2
<1>8. HostIds(h, m)
  <2>1. r \notin g.closing
    BY DEF Pair, HostIds
  <2>2. \A p \in Psm : h.end[p].open => h.end[p].local \in HostCids \ h.closing
    BY DEF Pair, HostIds
  <2>3. \A p, q \in Psm : h.end[p].open /\ h.end[q].open
                            /\ h.end[p].local = h.end[q].local => p = q
    BY DEF Pair, HostIds
  <2>4. \A i \in DOMAIN m : ~Closed(m[i], r)
    BY <2>1 DEF Pair, PacketIds, Closed
  <2>5. ASSUME NEW k \in DOMAIN h.outbox, h.outbox[k].type = "discon_req"
        PROVE  /\ h.outbox[k].scid \in h.closing
               /\ \A j \in DOMAIN h.outbox :
                     h.outbox[j].type = "discon_req"
                       /\ h.outbox[j].scid = h.outbox[k].scid => j = k
               /\ \A i \in DOMAIN m : ~Closed(m[i], h.outbox[k].scid)
    <3>1. \A j \in DOMAIN g.outbox : g.outbox[j].type = "discon_req" =>
             g.outbox[j].scid \in g.closing /\ g.outbox[j].scid # r
      BY <2>1 DEF Pair, HostIds
    <3>2. CASE k = e
      BY <1>1, <1>2, <2>4, <3>1, <3>2
    <3>3. CASE k \in DOMAIN g.outbox
      BY <1>1, <1>2, <2>5, <3>1, <3>3 DEF Pair, HostIds
    <3>. QED BY <1>1, <3>2, <3>3
  <2>. QED BY <2>2, <2>3, <2>5 DEF HostIds
<1>9. PacketIds(x, h, m)
  BY DEF Pair, PacketIds
<1>. QED BY <1>4, <1>5, <1>6, <1>7, <1>8, <1>9 DEF Pair, Phases

\* A connection begins with nothing on its way.
LEMMA FreshPair ==
    ASSUME NEW x, NEW con, NEW m, DOMAIN m = {},
           x.con = con, \A psm \in Psm : ~x.chn[psm].valid, x.linking
    PROVE  LET h == [NoHost EXCEPT !.con = con]
           IN  Pair(x, h, m) /\ Heard(x, h, m) /\ Timely(x, h, m)
<1> DEFINE h == [NoHost EXCEPT !.con = con]
<1>1. /\ h.con = con /\ h.outbox = <<>> /\ h.closing = {} /\ h.ready = {}
      /\ \A psm \in Psm : h.end[psm] = NoEnd
  BY DEF NoHost
<1>2. DOMAIN h.outbox = {}
  BY <1>1
<1>3. ~NoEnd.open /\ ~NoEnd.answered
  BY DEF NoEnd
<1> HIDE DEF h
<1>4. Pair(x, h, m)
  BY <1>1, <1>2, <1>3 DEF Pair, Asked, Opened, Named, Phases, HostIds, PacketIds
<1>5. Heard(x, h, m) /\ Timely(x, h, m)
  BY <1>1, <1>2, <1>3 DEF Heard, Timely, Ready, Psm
<1>. QED BY <1>4, <1>5 DEF h
-----------------------------------------------------------------------------
(* Reports after both channels are ready.                                   *)

\* A channel that is complete for the Wiimote is ready for the host, or will be.
LEMMA CompleteSettles ==
    ASSUME NEW x, NEW g, NEW m, NEW psm \in Psm,
           Pair(x, g, m), Heard(x, g, m), Complete(x.chn[psm])
    PROVE  WillSettle(g, m, psm)
<1>1. g.end[psm].open => g.end[psm].answered
  BY DEF Pair, Opened, Complete
<1>2. \/ psm \in g.ready
      \/ g.end[psm].open /\ g.end[psm].confirmed
      \/ Confirming(g, m, psm) # {}
  BY DEF Heard, Complete, Accepted
<1>3. Confirming(g, m, psm) # {} => g.end[psm].open
  BY DEF Confirming
<1>. QED BY <1>1, <1>2, <1>3 DEF Heard, Ready, WillSettle

\* The Wiimote sends a packet.
LEMMA FitSent ==
    ASSUME NEW x, NEW g, NEW m, NEW mm, NEW cmd,
           Heard(x, g, m), Timely(x, g, m), More(m, mm, cmd),
           \A psm \in Psm : cmd.type = "hid" \/ (psm = "cntl" /\ Asks(cmd, "intr"))
                              => WillSettle(g, m, psm)
    PROVE  Heard(x, g, mm) /\ Timely(x, g, mm)
<1>1. PICK n \in Nat : /\ DOMAIN mm = DOMAIN m \cup {n}
                       /\ mm[n] = cmd
                       /\ \A i \in DOMAIN m : i \in Nat /\ i < n /\ mm[i] = m[i]
  BY DEF More
<1>2. \A psm \in Psm : Confirming(g, m, psm) \subseteq Confirming(g, mm, psm)
  BY <1>1 DEF Confirming
<1>3. Heard(x, g, mm)
  BY <1>2 DEF Heard
<1>4. \A psm \in Psm : /\ WillSettle(g, m, psm) => WillSettle(g, mm, psm)
                       /\ WillSettle(g, m, psm) => Settled(g, mm, psm, n)
                       /\ \A i : Settled(g, m, psm, i) => Settled(g, mm, psm, i)
  <2>1. \A psm \in Psm : \A i \in Confirming(g, m, psm) : i < n
    BY <1>1 DEF Confirming
  <2>. QED BY <1>2, <2>1 DEF WillSettle, Settled
<1>5. ASSUME NEW i \in DOMAIN mm, NEW psm \in Psm,
             mm[i].type = "hid" \/ (psm = "cntl" /\ Asks(mm[i], "intr"))
      PROVE  Settled(g, mm, psm, i)
  <2>1. CASE i = n
    BY <1>1, <1>4, <1>5, <2>1
  <2>2. CASE i \in DOMAIN m
    BY <1>1, <1>4, <1>5, <2>2 DEF Timely
  <2>. QED BY <1>1, <2>1, <2>2
<1>6. Timely(x, g, mm)
  BY <1>4, <1>5 DEF Timely
<1>. QED BY <1>3, <1>6

\* No channel of Wiimote y is new compared with x; host h has no more to say than g.
NoneNew(x, y) ==
    /\ y.linking = x.linking
    /\ \A psm \in Psm : y.chn[psm].valid =>
          /\ x.chn[psm].valid /\ y.chn[psm].local = x.chn[psm].local
          /\ y.chn[psm].mtu = x.chn[psm].mtu

SaysNoMore(g, h) ==
    /\ h.end = g.end /\ h.ready = g.ready
    /\ \A k \in DOMAIN h.outbox : \E j \in DOMAIN g.outbox : h.outbox[k] = g.outbox[j]

\* The Wiimote takes a command, which the host then no longer has to send; no
\* channel opens.
LEMMA FitTaken ==
    ASSUME NEW x, NEW y, NEW g, NEW h, NEW m,
           Heard(x, g, m), Timely(x, g, m), NoneNew(x, y), SaysNoMore(g, h)
    PROVE  Heard(y, h, m) /\ Timely(y, h, m)
<1>1. \A psm \in Psm : Confirming(h, m, psm) = Confirming(g, m, psm)
  BY DEF Confirming, SaysNoMore
<1>2. Heard(y, h, m)
  BY <1>1 DEF Heard, NoneNew, SaysNoMore
<1>3. Timely(y, h, m)
  BY <1>1 DEF Timely, Settled, WillSettle, NoneNew, SaysNoMore
<1>. QED BY <1>2, <1>3

\* The Wiimote is told of the host's configuration and confirms it.
LEMMA FitConfirmed ==
    ASSUME NEW x, NEW y, NEW g, NEW m, NEW mm, NEW psm \in Psm,
           Heard(x, g, m), Timely(x, g, m),
           Bound(y.chn[psm], g, psm), More(m, mm, ConfigRsp(y.chn[psm].remote)),
           y.linking = x.linking, y.chn[psm].valid = x.chn[psm].valid,
           y.chn[psm].local = x.chn[psm].local,
           \A p \in Psm : p # psm => y.chn[p] = x.chn[p]
    PROVE  Heard(y, g, mm) /\ Timely(y, g, mm)
<1>1. PICK n \in Nat : /\ DOMAIN mm = DOMAIN m \cup {n}
                       /\ mm[n] = ConfigRsp(y.chn[psm].remote)
                       /\ \A i \in DOMAIN m : i \in Nat /\ i < n /\ mm[i] = m[i]
  BY DEF More
<1>2. Heard(x, g, mm) /\ Timely(x, g, mm)
  BY FitSent DEF ConfigRsp, Asks
<1>3. Timely(y, g, mm)
  BY <1>2 DEF Timely
<1>4. x.chn[psm].valid => psm \in g.ready \/ Confirming(g, mm, psm) # {}
  <2>1. CASE g.end[psm].open
    <3>1. n \in Confirming(g, mm, psm)
      BY <1>1, <2>1 DEF Confirming, Confirms, ConfigRsp, Bound, IsEnd
    <3>. QED BY <3>1
  <2>2. CASE ~g.end[psm].open
    BY <2>2 DEF Bound, IsEnd, Heard
  <2>. QED BY <2>1, <2>2
<1>5. Heard(y, g, mm)
  BY <1>2, <1>4 DEF Heard
<1>. QED BY <1>3, <1>5

\* The Wiimote opens a channel.
LEMMA FitOpened ==
    ASSUME NEW x \in Wiimote, NEW y \in Wiimote, NEW g, NEW m, NEW mm,
           NEW psm \in Psm, NEW cid \in Nat, Apart(y), Pair(x, g, m),
           Heard(x, g, m), Timely(x, g, m),
           ~x.chn[psm].valid, psm = "intr" => Complete(x.chn["cntl"]),
           More(m, mm, ConnectReq(psm, cid)), y.linking = x.linking,
           y.chn = [x.chn EXCEPT ![psm] = NewChannel(cid)]
    PROVE  Heard(y, g, mm) /\ Timely(y, g, mm)
<1>1. /\ y.chn[psm].local = cid /\ y.chn[psm].valid /\ ~y.chn[psm].mtu
      /\ \A p \in Psm : p # psm => y.chn[p] = x.chn[p]
  BY DEF Wiimote, Channel, NewChannel, NoChannel
<1>2. Heard(x, g, mm) /\ Timely(x, g, mm)
  <2>1. Asks(ConnectReq(psm, cid), "intr") => psm = "intr"
    BY DEF Asks, ConnectReq
  <2>2. psm = "intr" => WillSettle(g, m, "cntl")
    BY CompleteSettles DEF Psm
  <2>3. ConnectReq(psm, cid).type # "hid"
    BY DEF ConnectReq
  <2>. QED BY <2>1, <2>2, <2>3, FitSent
<1>3. ASSUME NEW k \in DOMAIN g.outbox, Closes(g.outbox[k], cid)
      PROVE  FALSE
  <2>1. PICK p \in Psm : x.chn[p].valid /\ x.chn[p].local = cid
    BY <1>3 DEF Pair, Named, Closes
  <2>. QED BY <1>1, <2>1 DEF Apart
<1>4. Heard(y, g, mm)
  BY <1>1, <1>2, <1>3 DEF Heard
<1>5. Timely(y, g, mm)
  BY <1>2 DEF Timely
<1>. QED BY <1>4, <1>5

\* The host reads a packet that confirms none of its channels.
LEMMA FitRead ==
    ASSUME NEW x, NEW g, NEW m, NEW n,
           Heard(x, g, m), Timely(x, g, m), Less(m, n),
           \A psm \in Psm : 1 \notin Confirming(g, m, psm)
    PROVE  Heard(x, g, n) /\ Timely(x, g, n)
<1>1. \A i \in DOMAIN n : i \in Nat \ {0} /\ i + 1 \in DOMAIN m /\ n[i] = m[i + 1]
  BY DEF Less
<1>2. \A psm \in Psm : \A i \in Confirming(g, m, psm) :
         /\ i \in Nat \ {0} /\ i - 1 \in Confirming(g, n, psm)
         /\ \A j \in Nat : i < j + 1 => i - 1 < j
  BY DEF Less, Confirming
<1>3. Heard(x, g, n)
  BY <1>2 DEF Heard
<1>4. \A psm \in Psm : /\ WillSettle(g, m, psm) => WillSettle(g, n, psm)
                       /\ \A i \in Nat : Settled(g, m, psm, i + 1) => Settled(g, n, psm, i)
  BY <1>2 DEF WillSettle, Settled
<1>5. Timely(x, g, n)
  BY <1>1, <1>4 DEF Timely
<1>. QED BY <1>3, <1>5

\* The host reads that its configuration of a channel was accepted.
LEMMA FitConfirmRead ==
    ASSUME NEW x, NEW g, NEW h, NEW m, NEW n, NEW psm \in Psm,
           Pair(x, g, m), Heard(x, g, m), Timely(x, g, m), Less(m, n),
           1 \in DOMAIN m, g.end[psm].open, Confirms(m[1], g.end[psm].local),
           h.outbox = g.outbox, \A p \in Psm : p # psm => h.end[p] = g.end[p],
           h.end[psm].open, h.end[psm].local = g.end[psm].local,
           h.end[psm].answered = g.end[psm].answered, h.end[psm].confirmed,
           h.ready = IF g.end[psm].answered THEN g.ready \cup {psm} ELSE g.ready
    PROVE  Heard(x, h, n) /\ Timely(x, h, n)
<1>1. \A i \in DOMAIN n : i \in Nat \ {0} /\ i + 1 \in DOMAIN m /\ n[i] = m[i + 1]
  BY DEF Less
<1>2. \A p \in Psm : p # psm => 1 \notin Confirming(g, m, p)
  BY DEF Confirming, Confirms, Pair, HostIds
<1>3. \A p \in Psm : \A i \in Confirming(g, m, p) :
         /\ i \in Nat \ {0}
         /\ i # 1 => i - 1 \in Confirming(h, n, p) /\ \A j \in Nat : i < j + 1 => i - 1 < j
         /\ i = 1 => p = psm
  BY <1>2 DEF Less, Confirming
<1>4. Heard(x, h, n)
  BY <1>3 DEF Heard, Ready
<1>5. \A p \in Psm : /\ WillSettle(g, m, p) => WillSettle(h, n, p)
                     /\ \A i \in Nat : Settled(g, m, p, i + 1) => Settled(h, n, p, i)
  BY <1>3 DEF WillSettle, Settled
<1>6. "intr" \in h.ready \/ h.end["intr"].open => "cntl" \in h.ready
  BY DEF Timely, Psm
<1>7. \A k \in DOMAIN h.outbox : h.outbox[k].type = "hid" => h.ready = Psm
  BY DEF Timely
<1>8. Timely(x, h, n)
  BY <1>1, <1>5, <1>6, <1>7 DEF Timely
<1>. QED BY <1>4, <1>8

\* The host answers a configuration.
LEMMA FitAnswered ==
    ASSUME NEW x, NEW g, NEW h, NEW m, NEW psm \in Psm,
           Heard(x, g, m), Timely(x, g, m), g.end[psm].open,
           \A p \in Psm : p # psm => h.end[p] = g.end[p],
           h.end[psm].open, h.end[psm].local = g.end[psm].local,
           h.end[psm].answered, h.end[psm].confirmed = g.end[psm].confirmed,
           h.ready = IF g.end[psm].confirmed THEN g.ready \cup {psm} ELSE g.ready,
           \A k \in DOMAIN h.outbox :
              \/ h.outbox[k].type \notin {"discon_req", "hid"}
              \/ k \in DOMAIN g.outbox /\ h.outbox[k] = g.outbox[k]
    PROVE  Heard(x, h, m) /\ Timely(x, h, m)
<1>1. \A p \in Psm : Confirming(h, m, p) = Confirming(g, m, p)
  BY DEF Confirming
<1>2. Heard(x, h, m)
  BY <1>1 DEF Heard, Ready, Closes
<1>3. \A p \in Psm : /\ WillSettle(g, m, p) => WillSettle(h, m, p)
                     /\ \A i : Settled(g, m, p, i) => Settled(h, m, p, i)
  BY <1>1 DEF WillSettle, Settled
<1>4. "intr" \in h.ready \/ h.end["intr"].open => "cntl" \in h.ready
  BY DEF Timely, Psm
<1>5. \A k \in DOMAIN h.outbox : h.outbox[k].type = "hid" => h.ready = Psm
  BY DEF Timely
<1>6. Timely(x, h, m)
  BY <1>3, <1>4, <1>5 DEF Timely
<1>. QED BY <1>2, <1>6

\* The host has more to say, but no end of a channel and no report.
LEMMA FitSays ==
    ASSUME NEW x, NEW g \in Host, NEW h \in Host, NEW m, Heard(x, g, m), Timely(x, g, m),
           h.end = g.end, h.ready = g.ready,
           \A k \in DOMAIN h.outbox :
              \/ h.outbox[k].type \notin {"discon_req", "hid"}
              \/ h.outbox[k].type = "hid" /\ Ready(g.end["intr"])
              \/ k \in DOMAIN g.outbox /\ h.outbox[k] = g.outbox[k]
    PROVE  Heard(x, h, m) /\ Timely(x, h, m)
<1>1. \A p \in Psm : Confirming(h, m, p) = Confirming(g, m, p)
  BY DEF Confirming
<1>2. Heard(x, h, m)
  BY <1>1 DEF Heard, Ready, Closes
<1>3. \A p \in Psm : /\ WillSettle(g, m, p) => WillSettle(h, m, p)
                     /\ \A i : Settled(g, m, p, i) => Settled(h, m, p, i)
  BY <1>1 DEF WillSettle, Settled
<1>4. Ready(g.end["intr"]) => {"cntl", "intr"} \subseteq g.ready
  BY DEF Heard, Timely, Psm
<1>5. \A k \in DOMAIN h.outbox : h.outbox[k].type = "hid" => h.ready = Psm
  BY <1>4 DEF Timely, Psm, Host
<1>6. Timely(x, h, m)
  BY <1>3, <1>5 DEF Timely
<1>. QED BY <1>2, <1>6

\* The host accepts a channel.
LEMMA FitAccepts ==
    ASSUME NEW x, NEW g, NEW h, NEW m, NEW n, NEW psm \in Psm,
           Heard(x, g, m), Timely(x, g, m), Less(m, n),
           1 \in DOMAIN m, Asks(m[1], psm),
           IsNew(x.chn[psm]), ~g.end[psm].open,
           h.ready = g.ready, \A p \in Psm : p # psm => h.end[p] = g.end[p],
           ~h.end[psm].answered, ~h.end[psm].confirmed,
           \A k \in DOMAIN h.outbox :
              \/ h.outbox[k].type \notin {"discon_req", "hid"}
              \/ k \in DOMAIN g.outbox /\ h.outbox[k] = g.outbox[k]
    PROVE  Heard(x, h, n) /\ Timely(x, h, n)
<1>1. Heard(x, g, n) /\ Timely(x, g, n)
  <2>1. \A p \in Psm : 1 \notin Confirming(g, m, p)
    BY DEF Confirming, Confirms, Asks
  <2>. QED BY <2>1, FitRead
<1>2. /\ \A p \in Psm : p # psm => Confirming(h, n, p) = Confirming(g, n, p)
      /\ Confirming(g, n, psm) = {}
  BY DEF Confirming
<1>3. Heard(x, h, n)
  BY <1>1, <1>2 DEF Heard, Ready, Closes, IsNew
<1>4. \A p \in Psm : /\ WillSettle(g, n, p) => WillSettle(h, n, p)
                     /\ \A i : Settled(g, n, p, i) => Settled(h, n, p, i)
  BY <1>2 DEF WillSettle, Settled
<1>5. psm = "intr" => "cntl" \in g.ready
  <2>1. \A i \in DOMAIN m : i \in Nat \ {0}
    BY DEF Less
  <2>2. psm = "intr" => Settled(g, m, "cntl", 1)
    BY DEF Timely, Psm
  <2>3. \A i \in Confirming(g, m, "cntl") : ~(i < 1)
    BY <2>1 DEF Confirming
  <2>. QED BY <2>2, <2>3 DEF Settled
<1>6. "intr" \in h.ready \/ h.end["intr"].open => "cntl" \in h.ready
  BY <1>1, <1>5 DEF Timely, Psm
<1>7. Timely(x, h, n)
  BY <1>1, <1>4, <1>6 DEF Timely
<1>. QED BY <1>3, <1>7

\* The host closes a channel.
LEMMA FitCloses ==
    ASSUME NEW x, NEW g \in Host, NEW h \in Host, NEW m, NEW psm \in Psm,
           Apart(x), Pair(x, g, m), Heard(x, g, m), Timely(x, g, m), g.end[psm].open,
           ~h.end[psm].open, \A p \in Psm : p # psm => h.end[p] = g.end[p],
           h.ready = g.ready \cup {psm},
           \A k \in DOMAIN h.outbox :
              \/ h.outbox[k].type = "discon_req" /\ h.outbox[k].cid = g.end[psm].remote
              \/ k \in DOMAIN g.outbox /\ h.outbox[k] = g.outbox[k]
    PROVE  Heard(x, h, m) /\ Timely(x, h, m)
<1>1. \A p \in Psm : p # psm => Confirming(h, m, p) = Confirming(g, m, p)
  BY DEF Confirming
<1>2. \A p \in Psm : x.chn[p].valid /\ x.chn[p].local = g.end[psm].remote => p = psm
  BY DEF Pair, Opened, Apart
<1>3. Heard(x, h, m)
  BY <1>1, <1>2 DEF Heard, Ready, Closes
<1>4. \A p \in Psm : /\ WillSettle(g, m, p) => WillSettle(h, m, p)
                     /\ \A i : Settled(g, m, p, i) => Settled(h, m, p, i)
  BY <1>1 DEF WillSettle, Settled
<1>5. "intr" \in h.ready \/ h.end["intr"].open => "cntl" \in h.ready
  BY DEF Timely, Psm
<1>6. \A k \in DOMAIN h.outbox : h.outbox[k].type = "hid" => h.ready = Psm
  BY DEF Timely, Host
<1>7. Timely(x, h, m)
  BY <1>4, <1>5, <1>6 DEF Timely
<1>. QED BY <1>3, <1>7
-----------------------------------------------------------------------------
(* The sequences behind these.                                              *)

LEMMA Induct ==
    ASSUME NEW S, 0 \in S, \A n \in Nat : n \in S => n + 1 \in S
    PROVE  Nat \subseteq S
<1> DEFINE bad == Nat \ S
<1>1. SUFFICES ASSUME bad # {} PROVE FALSE
  OBVIOUS
<1>2. PICK x \in bad : \A y \in bad : ~(<<y, x>> \in OpToRel(<, Nat))
  BY <1>1, NatLessThanWellFounded, WFMin
<1>3. /\ x \in Nat /\ x \notin S
      /\ \A y \in bad : ~(y < x)
  BY <1>2, Zenon DEF OpToRel
<1>4. x - 1 \in Nat /\ x - 1 < x /\ (x - 1) + 1 = x
  BY <1>3
<1>5. x - 1 \in S
  BY <1>3, <1>4
<1>. QED BY <1>3, <1>4, <1>5

LEMMA MinIn ==
    ASSUME NEW S \in SUBSET Nat, S # {}
    PROVE  Min(S) \in S
<1>1. PICK x \in S : \A y \in S : ~(<<y, x>> \in OpToRel(<, Nat))
  BY NatLessThanWellFounded, WFMin
<1>2. \A y \in S : ~(y < x)
  BY <1>1, Zenon DEF OpToRel
<1>3. \A y \in S : x <= y
  BY <1>2
<1>. QED BY <1>3 DEF Min

LEMMA AppendGrows ==
    ASSUME NEW S, NEW q \in Seq(S), NEW e \in S
    PROVE  Append(q, e) \in Seq(S) /\ Grown(q, Append(q, e), e)
<1>1. /\ Append(q, e) \in Seq(S)
      /\ Len(Append(q, e)) = Len(q) + 1
      /\ \A i \in 1..Len(q) : Append(q, e)[i] = q[i]
      /\ Append(q, e)[Len(q) + 1] = e
  BY AppendProperties
<1>2. Len(q) \in Nat /\ DOMAIN q = 1..Len(q) /\ DOMAIN Append(q, e) = 1..Len(q) + 1
  BY <1>1
<1> DEFINE p == Append(q, e)
<1> HIDE DEF p
<1>. QED BY <1>1, <1>2 DEF Grown, p

LEMMA TailShrinks ==
    ASSUME NEW S, NEW q \in Seq(S), q # <<>>
    PROVE  Tail(q) \in Seq(S) /\ Head(q) \in S /\ Shrunk(q, Tail(q), Head(q))
<1>1. /\ Head(q) \in S /\ Tail(q) \in Seq(S)
      /\ Len(Tail(q)) = Len(q) - 1
      /\ \A i \in 1..Len(Tail(q)) : Tail(q)[i] = q[i + 1]
  BY HeadTailProperties
<1>2. /\ Len(q) \in Nat \ {0} /\ DOMAIN q = 1..Len(q)
      /\ DOMAIN Tail(q) = 1..Len(q) - 1 /\ Head(q) = q[1]
  BY <1>1, EmptySeq
<1> DEFINE p == Tail(q)
<1> HIDE DEF p
<1>. QED BY <1>1, <1>2 DEF Shrunk, p

LEMMA RestShrinks ==
    ASSUME NEW S, NEW q \in Seq(S), NEW i \in 1..Len(q)
    PROVE  /\ SubSeq(q, i + 1, Len(q)) \in Seq(S)
           /\ Shrunk(SubSeq(q, i, Len(q)), SubSeq(q, i + 1, Len(q)), q[i])
<1>1. PICK n \in Nat, j \in Nat :
         n = Len(q) /\ j = i + 1 /\ i \in Nat \ {0} /\ i <= n /\ \A k \in 1..n : q[k] \in S
  OBVIOUS
<1>2. PICK o \in Seq(S) : /\ o = SubSeq(q, i, n)
                          /\ Len(o) = IF i <= n THEN n - i + 1 ELSE 0
                          /\ \A k \in 1..n - i + 1 : o[k] = q[i + k - 1]
  <2>1. i \in Int /\ n \in Int /\ \A k \in i..n : q[k] \in S
    BY <1>1
  <2>2. /\ SubSeq(q, i, n) \in Seq(S)
        /\ Len(SubSeq(q, i, n)) = IF i <= n THEN n - i + 1 ELSE 0
        /\ \A k \in 1..n - i + 1 : SubSeq(q, i, n)[k] = q[i + k - 1]
    BY <2>1, SubSeqProperties
  <2>. QED BY <2>2, Zenon
<1>3. PICK p \in Seq(S) : /\ p = SubSeq(q, j, n)
                          /\ Len(p) = IF j <= n THEN n - j + 1 ELSE 0
                          /\ \A k \in 1..n - j + 1 : p[k] = q[j + k - 1]
  <2>1. j \in Int /\ n \in Int /\ \A k \in j..n : q[k] \in S
    BY <1>1
  <2>2. /\ SubSeq(q, j, n) \in Seq(S)
        /\ Len(SubSeq(q, j, n)) = IF j <= n THEN n - j + 1 ELSE 0
        /\ \A k \in 1..n - j + 1 : SubSeq(q, j, n)[k] = q[j + k - 1]
    BY <2>1, SubSeqProperties
  <2>. QED BY <2>2, Zenon
<1>4. /\ DOMAIN o = 1..n - i + 1 /\ \A k \in DOMAIN o : o[k] = q[i + k - 1]
      /\ DOMAIN p = 1..n - i /\ \A k \in DOMAIN p : p[k] = q[j + k - 1]
  <2>1. DOMAIN o = 1..Len(o) /\ DOMAIN p = 1..Len(p)
    OBVIOUS
  <2>2. Len(o) = n - i + 1 /\ Len(p) = n - i /\ n - j + 1 = n - i
    BY <1>1, <1>2, <1>3
  <2>. QED BY <1>2, <1>3, <2>1, <2>2
<1>5. /\ 1 \in DOMAIN o /\ o[1] = q[i]
      /\ \A k \in DOMAIN p : k \in Nat \ {0} /\ k + 1 \in DOMAIN o /\ p[k] = o[k + 1]
  <2>1. ASSUME NEW k \in DOMAIN p
        PROVE  /\ k \in Nat \ {0} /\ k + 1 \in DOMAIN o
               /\ j + k - 1 = i + (k + 1) - 1
    BY <1>1, <1>4
  <2>2. i + 1 - 1 = i /\ 1 \in DOMAIN o
    BY <1>1, <1>4
  <2>. QED BY <1>4, <2>1, <2>2
<1>6. \A k \in DOMAIN o :
         k \in Nat \ {0} /\ (k # 1 => k - 1 \in DOMAIN p /\ p[k - 1] = o[k])
  <2>1. ASSUME NEW k \in DOMAIN o
        PROVE  /\ k \in Nat \ {0}
               /\ k # 1 => k - 1 \in DOMAIN p /\ j + (k - 1) - 1 = i + k - 1
    BY <1>1, <1>4
  <2>. QED BY <1>4, <2>1
<1>. QED BY <1>1, <1>2, <1>3, <1>5, <1>6 DEF Shrunk

\* A packet joins the packets of its connection, and of no other.
LEMMA MailSent ==
    ASSUME NEW q, NEW qq, NEW p, NEW w, NEW con, Grown(q, qq, p)
    PROVE  IF p.wm = w /\ p.con = con
           THEN More(Mail(q, w, con), Mail(qq, w, con), p.cmd)
           ELSE Mail(qq, w, con) = Mail(q, w, con)
<1>1. PICK n \in Nat \ {0} :
         /\ DOMAIN qq = DOMAIN q \cup {n} /\ qq[n] = p
         /\ \A k \in DOMAIN q : k \in Nat /\ k < n /\ qq[k] = q[k]
  BY DEF Grown
<1> DEFINE m == Mail(q, w, con)
           mm == Mail(qq, w, con)
<1>2. /\ DOMAIN m = {j \in DOMAIN q : q[j].wm = w /\ q[j].con = con}
      /\ \A i \in DOMAIN m : m[i] = q[i].cmd
      /\ DOMAIN mm = {j \in DOMAIN qq : qq[j].wm = w /\ qq[j].con = con}
      /\ \A i \in DOMAIN mm : mm[i] = qq[i].cmd
  BY DEF Mail
<1>3. CASE p.wm = w /\ p.con = con
  <2>1. DOMAIN mm = DOMAIN m \cup {n} /\ mm[n] = p.cmd
    BY <1>1, <1>2, <1>3
  <2>2. \A i \in DOMAIN m : i \in Nat /\ i < n /\ mm[i] = m[i]
    BY <1>1, <1>2, <2>1
  <2>. QED BY <1>3, <2>1, <2>2 DEF More
<1>4. CASE ~(p.wm = w /\ p.con = con)
  <2>1. DOMAIN mm = DOMAIN m
    BY <1>1, <1>2, <1>4
  <2>2. \A i \in DOMAIN m : mm[i] = m[i]
    BY <1>1, <1>2, <2>1
  <2>. QED BY <1>4, <2>1, <2>2 DEF Mail
<1>. QED BY <1>3, <1>4

LEMMA MailRead ==
    ASSUME NEW q, NEW qq, NEW p, NEW w, NEW con, Shrunk(q, qq, p)
    PROVE  /\ Less(Mail(q, w, con), Mail(qq, w, con))
           /\ 1 \in DOMAIN Mail(q, w, con) <=> p.wm = w /\ p.con = con
           /\ p.wm = w /\ p.con = con => Mail(q, w, con)[1] = p.cmd
<1> DEFINE m == Mail(q, w, con)
           mm == Mail(qq, w, con)
<1>1. /\ DOMAIN m = {j \in DOMAIN q : q[j].wm = w /\ q[j].con = con}
      /\ \A i \in DOMAIN m : m[i] = q[i].cmd
      /\ DOMAIN mm = {j \in DOMAIN qq : qq[j].wm = w /\ qq[j].con = con}
      /\ \A i \in DOMAIN mm : mm[i] = qq[i].cmd
  BY DEF Mail
<1> HIDE DEF m, mm
<1>. QED BY <1>1 DEF Shrunk, Less, m, mm
-----------------------------------------------------------------------------
(* What the handlers of a Wiimote do to the module.                         *)

\* A handler of Wiimote w takes the module from s to t: the other Wiimotes and
\* their packets stay as they are.
Keeps(s, t, w) ==
    /\ t \in Module /\ Dated(t)
    /\ t.wm[w].con = s.wm[w].con
    /\ \A v \in Wiimotes : v # w =>
          t.wm[v] = s.wm[v] /\ \A con : Mail(t.pipe, v, con) = Mail(s.pipe, v, con)
    /\ s.lost => t.lost

\* What it does with its own packets.
Sends(s, t, w, cmd) ==
    More(Mail(s.pipe, w, s.wm[w].con), Mail(t.pipe, w, s.wm[w].con), cmd)

LEMMA SendKeeps ==
    ASSUME NEW s \in Module, Dated(s), NEW w \in Wiimotes, s.wm[w].con > 0,
           NEW cmd \in ToHost
    PROVE  LET t == Send(s, w, cmd)
           IN  /\ t.wm = s.wm /\ t.nextCid = s.nextCid /\ t.lost = s.lost
               /\ t.hung = s.hung
               /\ Keeps(s, t, w) /\ Sends(s, t, w, cmd)
<1> DEFINE p == [wm |-> w, con |-> s.wm[w].con, cmd |-> cmd]
           t == Send(s, w, cmd)
<1>1. s.wm[w].con \in Nat /\ p \in Packets
  BY DEF Module, Wiimote, Packets
<1>2. s.pipe \in Seq(Packets)
  BY DEF Module
<1>3. Append(s.pipe, p) \in Seq(Packets) /\ Grown(s.pipe, Append(s.pipe, p), p)
  BY <1>1, <1>2, AppendGrows
<1>4. /\ t.wm = s.wm /\ t.nextCid = s.nextCid /\ t.lost = s.lost /\ t.hung = s.hung
      /\ t.pipe = Append(s.pipe, p)
      /\ t \in Module
  BY <1>3 DEF Send, Module
<1>5. Dated(t)
  BY <1>1, <1>3, <1>4 DEF Dated, Grown
<1>6. Sends(s, t, w, cmd)
  BY <1>3, <1>4, MailSent DEF Sends
<1>7. \A v \in Wiimotes : v # w => \A con : Mail(t.pipe, v, con) = Mail(s.pipe, v, con)
  BY <1>3, <1>4, MailSent
<1>. QED BY <1>4, <1>5, <1>6, <1>7 DEF Keeps

\* The state of Wiimote w changes, but not its connection.
LEMMA ChangeKeeps ==
    ASSUME NEW s \in Module, Dated(s), NEW w \in Wiimotes, NEW x \in Wiimote,
           x.con = s.wm[w].con, NEW t \in Module, t.wm = [s.wm EXCEPT ![w] = x],
           t.pipe = s.pipe, s.lost => t.lost
    PROVE  Keeps(s, t, w)
<1>1. \A v \in Wiimotes : t.wm[v].con = s.wm[v].con
  BY DEF Module
<1>2. Dated(t)
  <2>1. \A i \in DOMAIN s.pipe : s.pipe[i].wm \in Wiimotes
    <3>1. s.pipe \in Seq(Packets)
      BY DEF Module
    <3>2. \A i \in DOMAIN s.pipe : s.pipe[i] \in Packets
      BY <3>1
    <3>. QED BY <3>2 DEF Packets
  <2>. QED BY <1>1, <2>1 DEF Dated
<1>. QED BY <1>1, <1>2 DEF Keeps, Module

LEMMA KeepsTransitive ==
    ASSUME NEW s, NEW t, NEW u, NEW w, Keeps(s, t, w), Keeps(t, u, w)
    PROVE  Keeps(s, u, w)
BY DEF Keeps

\* The other Wiimotes still fit their hosts.
LEMMA OthersFit ==
    ASSUME NEW s, NEW t, NEW w, Keeps(s, t, w), NEW v \in Wiimotes, v # w,
           NEW g, On(s, g, v)
    PROVE  On(t, g, v)
BY DEF Keeps, On

-----------------------------------------------------------------------------
(* Linking.                                                                 *)

LEMMA OpenChannelKeeps ==
    ASSUME NEW s \in Module, Dated(s), NEW w \in Wiimotes, s.wm[w].con > 0,
           NEW psm \in Psm
    PROVE  LET t == OpenChannel(s, w, psm)
           IN  /\ Keeps(s, t, w)
               /\ \/ t.hung # "no" /\ t.wm = s.wm /\ t.pipe = s.pipe /\ t.lost = s.lost
                  \/ /\ t.hung = s.hung /\ t.lost = s.lost
                     /\ t.wm[w].up = s.wm[w].up /\ t.wm[w].linking = s.wm[w].linking
                     /\ t.wm[w].chn = [s.wm[w].chn EXCEPT ![psm] = NewChannel(s.nextCid)]
                     /\ Sends(s, t, w, ConnectReq(psm, s.nextCid))
<1> DEFINE t == OpenChannel(s, w, psm)
<1>1. CASE ~Room(s)
  <2>1. /\ t \in Module /\ t.wm = s.wm /\ t.pipe = s.pipe /\ t.lost = s.lost
        /\ t.hung # "no"
    BY <1>1 DEF OpenChannel, Halt, Module
  <2>2. Keeps(s, t, w)
    BY <2>1 DEF Keeps, Dated
  <2>. QED BY <2>1, <2>2
<1>2. CASE Room(s)
  <2> DEFINE cmd == ConnectReq(psm, s.nextCid)
             u == Send(s, w, cmd)
             c == NewChannel(s.nextCid)
             y == [s.wm[w] EXCEPT !.chn = [s.wm[w].chn EXCEPT ![psm] = c]]
  <2>1. s.nextCid \in Nat /\ s.wm \in [Wiimotes -> Wiimote] /\ s.wm[w] \in Wiimote
    BY DEF Module
  <2>2. cmd \in ToHost
    BY <2>1 DEF ConnectReq, ToHost
  <2>3. /\ u.wm = s.wm /\ u.nextCid = s.nextCid /\ u.lost = s.lost /\ u.hung = s.hung
        /\ Keeps(s, u, w) /\ Sends(s, u, w, cmd)
    BY <2>2, SendKeeps
  <2>4. c \in Channel
    BY <2>1 DEF NewChannel, NoChannel, Channel, States, NullCid
  <2>5. /\ y \in Wiimote /\ y.con = s.wm[w].con /\ y.up = s.wm[w].up
        /\ y.linking = s.wm[w].linking /\ y.chn = [s.wm[w].chn EXCEPT ![psm] = c]
    BY <2>1, <2>4 DEF Wiimote
  <2>6. t = [u EXCEPT !.nextCid = NextCid(s.nextCid), !.wm = [s.wm EXCEPT ![w] = y]]
    BY <1>2, <2>3 DEF OpenChannel
  <2>7. NextCid(s.nextCid) \in Nat
    BY <2>1, LinkAssumption DEF NextCid
  <2> HIDE DEF u, c, y, cmd, t
  <2>8. u \in Module
    BY <2>3 DEF Keeps
  <2>9. /\ t \in Module /\ t.wm = [s.wm EXCEPT ![w] = y] /\ t.pipe = u.pipe
        /\ t.lost = u.lost /\ t.hung = u.hung
    BY <2>1, <2>5, <2>6, <2>7, <2>8 DEF Module
  <2>10. Keeps(u, t, w)
    BY <2>3, <2>5, <2>8, <2>9, ChangeKeeps DEF Keeps
  <2>11. Keeps(s, t, w)
    BY <2>3, <2>10, KeepsTransitive
  <2>12. t.wm[w] = y
    BY <2>1, <2>9
  <2>13. Sends(s, t, w, cmd)
    BY <2>3, <2>9 DEF Sends
  <2>. QED BY <2>3, <2>5, <2>9, <2>11, <2>12, <2>13 DEF c, cmd, t
<1>. QED BY <1>1, <1>2

LEMMA SendConfigKeeps ==
    ASSUME NEW s \in Module, Dated(s), NEW w \in Wiimotes, s.wm[w].con > 0,
           NEW psm \in Psm
    PROVE  LET t == SendConfig(s, w, psm)
               c == s.wm[w].chn[psm]
           IN  /\ Keeps(s, t, w) /\ t.hung = s.hung
               /\ \/ t = s
                  \/ /\ Accepted(c) /\ c.state = "inactive" /\ t.lost = s.lost
                     /\ t.wm[w].up = s.wm[w].up /\ t.wm[w].linking = s.wm[w].linking
                     /\ t.wm[w].chn = [s.wm[w].chn EXCEPT ![psm].state = "pend"]
                     /\ Sends(s, t, w, ConfigReq(c.remote))
<1> DEFINE t == SendConfig(s, w, psm)
           c == s.wm[w].chn[psm]
<1>1. CASE ~(Accepted(c) /\ c.state = "inactive" /\ Room(s))
  <2>1. t = s
    BY <1>1 DEF SendConfig
  <2>. QED BY <2>1 DEF Keeps
<1>2. CASE Accepted(c) /\ c.state = "inactive" /\ Room(s)
  <2> DEFINE cmd == ConfigReq(c.remote)
             u == Send(s, w, cmd)
             y == [s.wm[w] EXCEPT !.chn = [s.wm[w].chn EXCEPT ![psm].state = "pend"]]
  <2>1. /\ s.wm \in [Wiimotes -> Wiimote] /\ s.wm[w] \in Wiimote
        /\ s.wm[w].chn \in [Psm -> Channel] /\ c \in Channel /\ c.remote \in Nat
    BY DEF Module, Wiimote, Channel
  <2>2. cmd \in ToHost
    BY <2>1 DEF ConfigReq, ToHost
  <2>3. /\ u.wm = s.wm /\ u.nextCid = s.nextCid /\ u.lost = s.lost /\ u.hung = s.hung
        /\ Keeps(s, u, w) /\ Sends(s, u, w, cmd)
    BY <2>2, SendKeeps
  <2>4. [c EXCEPT !.state = "pend"] \in Channel
    BY <2>1 DEF Channel, States
  <2>5. /\ y \in Wiimote /\ y.con = s.wm[w].con /\ y.up = s.wm[w].up
        /\ y.linking = s.wm[w].linking
        /\ y.chn = [s.wm[w].chn EXCEPT ![psm].state = "pend"]
    BY <2>1, <2>4 DEF Wiimote
  <2>6. t = [u EXCEPT !.wm = [s.wm EXCEPT ![w] = y]]
    BY <1>2, <2>3 DEF SendConfig
  <2> HIDE DEF u, y, cmd, t
  <2>8. u \in Module
    BY <2>3 DEF Keeps
  <2>9. /\ t \in Module /\ t.wm = [s.wm EXCEPT ![w] = y] /\ t.pipe = u.pipe
        /\ t.lost = u.lost /\ t.hung = u.hung
    BY <2>1, <2>5, <2>6, <2>8 DEF Module
  <2>10. Keeps(u, t, w)
    BY <2>3, <2>5, <2>8, <2>9, ChangeKeeps DEF Keeps
  <2>11. Keeps(s, t, w)
    BY <2>3, <2>10, KeepsTransitive
  <2>12. t.wm[w] = y
    BY <2>1, <2>9
  <2>13. Sends(s, t, w, cmd)
    BY <2>3, <2>9 DEF Sends
  <2>. QED BY <1>2, <2>3, <2>5, <2>9, <2>11, <2>12, <2>13 DEF cmd, t
<1>. QED BY <1>1, <1>2

LEMMA ApartBefore ==
    ASSUME NEW x, NEW y, Apart(y),
           \A p \in Psm : x.chn[p].valid =>
              y.chn[p].valid /\ y.chn[p].local = x.chn[p].local
    PROVE  Apart(x)
BY DEF Apart

LEMMA OpenChannelFits ==
    ASSUME NEW s \in Module, Dated(s), NEW w \in Wiimotes, NEW g \in Host,
           NEW psm \in Psm, On(s, g, w),
           ~s.wm[w].chn[psm].valid, psm = "intr" => Complete(s.wm[w].chn["cntl"]),
           Apart(OpenChannel(s, w, psm).wm[w])
    PROVE  On(OpenChannel(s, w, psm), g, w)
<1> DEFINE t == OpenChannel(s, w, psm)
           x == s.wm[w]
           y == t.wm[w]
           m == Mail(s.pipe, w, g.con)
           mm == Mail(t.pipe, w, g.con)
<1>1. /\ Keeps(s, t, w)
      /\ \/ t.hung # "no" /\ t.wm = s.wm /\ t.pipe = s.pipe /\ t.lost = s.lost
         \/ /\ t.hung = s.hung /\ t.lost = s.lost
            /\ t.wm[w].up = s.wm[w].up /\ t.wm[w].linking = s.wm[w].linking
            /\ t.wm[w].chn = [s.wm[w].chn EXCEPT ![psm] = NewChannel(s.nextCid)]
            /\ Sends(s, t, w, ConnectReq(psm, s.nextCid))
  BY OpenChannelKeeps DEF On
<1> HIDE DEF t
<1>2. /\ x \in Wiimote /\ y \in Wiimote /\ s.nextCid \in Nat /\ y.con = x.con
      /\ g.con = x.con /\ x.con > 0
  BY <1>1 DEF Keeps, Module, On, Pair
<1>3. CASE t.wm = s.wm /\ t.pipe = s.pipe /\ t.lost = s.lost
  BY <1>3 DEF On, t
<1>4. CASE /\ t.lost = s.lost /\ y.linking = x.linking
           /\ y.chn = [x.chn EXCEPT ![psm] = NewChannel(s.nextCid)]
           /\ Sends(s, t, w, ConnectReq(psm, s.nextCid))
  <2>1. More(m, mm, ConnectReq(psm, s.nextCid))
    BY <1>2, <1>4 DEF Sends
  <2>2. Pair(x, g, m) /\ (~s.lost => Heard(x, g, m) /\ Timely(x, g, m))
    BY DEF On
  <2>3. Apart(y)
    BY DEF t
  <2> HIDE DEF x, y, m, mm
  <2>4. ~x.chn[psm].valid /\ (psm = "intr" => Complete(x.chn["cntl"]))
    BY DEF x
  <2>5. Pair(y, g, mm)
    BY <1>2, <1>4, <2>1, <2>2, <2>3, <2>4, OpenChannelSent
  <2>6. ~t.lost => Heard(y, g, mm) /\ Timely(y, g, mm)
    BY <1>2, <1>4, <2>1, <2>2, <2>3, <2>4, FitOpened
  <2>. QED BY <1>2, <2>5, <2>6 DEF On, t, y, mm
<1>. QED BY <1>1, <1>3, <1>4

LEMMA SendConfigFits ==
    ASSUME NEW s \in Module, Dated(s), NEW w \in Wiimotes, NEW g \in Host,
           NEW psm \in Psm, On(s, g, w), Apart(s.wm[w])
    PROVE  LET t == SendConfig(s, w, psm)
           IN  On(t, g, w) /\ Apart(t.wm[w])
<1> DEFINE t == SendConfig(s, w, psm)
           x == s.wm[w]
           y == t.wm[w]
           c == x.chn[psm]
           m == Mail(s.pipe, w, g.con)
           mm == Mail(t.pipe, w, g.con)
<1>1. /\ Keeps(s, t, w)
      /\ \/ t = s
         \/ /\ Accepted(c) /\ c.state = "inactive" /\ t.lost = s.lost
            /\ y.linking = x.linking
            /\ y.chn = [x.chn EXCEPT ![psm].state = "pend"]
            /\ Sends(s, t, w, ConfigReq(c.remote))
  BY SendConfigKeeps DEF On
<1> HIDE DEF t
<1>2. /\ x \in Wiimote /\ y \in Wiimote /\ y.con = x.con
      /\ g.con = x.con /\ x.con > 0
  BY <1>1 DEF Keeps, Module, On, Pair
<1>3. CASE t = s
  BY <1>3 DEF t
<1>4. CASE /\ Accepted(c) /\ c.state = "inactive" /\ t.lost = s.lost
           /\ y.linking = x.linking
           /\ y.chn = [x.chn EXCEPT ![psm].state = "pend"]
           /\ Sends(s, t, w, ConfigReq(c.remote))
  <2>1. More(m, mm, ConfigReq(c.remote))
    BY <1>2, <1>4 DEF Sends
  <2>2. Pair(x, g, m) /\ (~s.lost => Heard(x, g, m) /\ Timely(x, g, m))
    BY DEF On
  <2>3. Apart(x)
    OBVIOUS
  <2> HIDE DEF x, y, m, mm
  <2>4. Pair(y, g, mm)
    BY <1>2, <1>4, <2>1, <2>2, <2>3, ConfigSent
  <2>5. \A p \in Psm : /\ y.chn[p].valid = x.chn[p].valid
                       /\ y.chn[p].local = x.chn[p].local
                       /\ y.chn[p].mtu = x.chn[p].mtu
    <3>1. x.chn \in [Psm -> Channel]
      BY <1>2 DEF Wiimote
    <3>2. /\ \A p \in Psm : p # psm => y.chn[p] = x.chn[p]
          /\ y.chn[psm] = [x.chn[psm] EXCEPT !.state = "pend"]
      BY <1>4, <3>1
    <3>3. x.chn[psm] \in Channel
      BY <3>1
    <3>. QED BY <3>2, <3>3 DEF Channel
  <2>6. ~s.lost => Heard(x, g, mm) /\ Timely(x, g, mm)
    BY <2>1, <2>2, FitSent DEF ConfigReq, Asks
  <2>7. ~t.lost => Heard(y, g, mm) /\ Timely(y, g, mm)
    <3>1. NoneNew(x, y) /\ SaysNoMore(g, g)
      BY <1>4, <2>5 DEF NoneNew, SaysNoMore
    <3>. QED BY <1>4, <2>6, <3>1, FitTaken
  <2>8. Apart(y)
    BY <2>3, <2>5 DEF Apart
  <2>. QED BY <1>2, <2>4, <2>7, <2>8 DEF On, t, y, mm
<1>. QED BY <1>1, <1>3, <1>4

\* Link, step by step.
LEMMA LinkSteps ==
    ASSUME NEW s \in Module, Dated(s), NEW w \in Wiimotes, s.wm[w].con > 0, s.wm[w].up
    PROVE  LET t == Link(s, w)
           IN  /\ Keeps(s, t, w) /\ t.wm[w].up
               /\ \/ /\ \A p \in Psm : Complete(s.wm[w].chn[p])
                     /\ t = [s EXCEPT !.wm[w].linking = FALSE]
                  \/ \E u \in Module :
                        /\ Dated(u) /\ u.wm[w].con > 0
                        /\ \/ u = s
                           \/ \E p \in Psm :
                                 /\ u = OpenChannel(s, w, p) /\ ~s.wm[w].chn[p].valid
                                 /\ p = "intr" => Complete(s.wm[w].chn["cntl"])
                        /\ \/ t = u
                           \/ t = SendConfig(SendConfig(u, w, "cntl"), w, "intr")
<1> DEFINE t == Link(s, w)
           x == s.wm[w]
           u == IF ~x.chn["cntl"].valid THEN OpenChannel(s, w, "cntl")
                ELSE IF Complete(x.chn["cntl"]) /\ ~x.chn["intr"].valid
                     THEN OpenChannel(s, w, "intr")
                ELSE s
<1>1. x \in Wiimote /\ s.wm \in [Wiimotes -> Wiimote]
  BY DEF Module
<1>2. CASE Complete(x.chn["cntl"]) /\ Complete(x.chn["intr"])
  <2> DEFINE y == [x EXCEPT !.linking = FALSE]
  <2>1. y \in Wiimote /\ y.con = x.con /\ y.up
    BY <1>1 DEF Wiimote
  <2>2. t = [s EXCEPT !.wm[w].linking = FALSE]
    BY <1>2 DEF Link
  <2>3. t = [s EXCEPT !.wm = [s.wm EXCEPT ![w] = y]]
    BY <2>2
  <2> HIDE DEF y, t
  <2>4. /\ t \in Module /\ t.wm = [s.wm EXCEPT ![w] = y] /\ t.pipe = s.pipe
        /\ t.lost = s.lost
    BY <1>1, <2>1, <2>3 DEF Module
  <2>5. Keeps(s, t, w) /\ t.wm[w] = y
    BY <1>1, <2>1, <2>4, ChangeKeeps
  <2>6. \A p \in Psm : Complete(x.chn[p])
    BY <1>2 DEF Psm
  <2>. QED BY <2>1, <2>2, <2>5, <2>6 DEF t
<1>3. CASE ~(Complete(x.chn["cntl"]) /\ Complete(x.chn["intr"]))
  <2>1. "cntl" \in Psm /\ "intr" \in Psm
    BY DEF Psm
  <2>2. \/ u = s
        \/ \E p \in Psm : /\ u = OpenChannel(s, w, p) /\ ~x.chn[p].valid
                          /\ p = "intr" => Complete(x.chn["cntl"])
    BY <2>1
  <2>3. /\ Keeps(s, u, w) /\ u.wm[w].up
    <3>1. CASE u = s
      BY <3>1 DEF Keeps
    <3>2. ASSUME NEW p \in Psm
          PROVE  LET o == OpenChannel(s, w, p)
                 IN  Keeps(s, o, w) /\ o.wm[w].up
      <4> DEFINE o == OpenChannel(s, w, p)
      <4>1. /\ Keeps(s, o, w)
            /\ o.wm = s.wm \/ o.wm[w].up = s.wm[w].up
        BY OpenChannelKeeps
      <4> HIDE DEF o
      <4>2. Keeps(s, o, w) /\ o.wm[w].up
        BY <4>1
      <4>. QED BY <4>2 DEF o
    <3>. QED BY <2>2, <3>1, <3>2
  <2>4. t = IF u.hung # "no" THEN u ELSE SendConfig(SendConfig(u, w, "cntl"), w, "intr")
    BY <1>3 DEF Link
  <2> HIDE DEF u, t
  <2>5. u \in Module /\ Dated(u) /\ u.wm[w].con > 0
    BY <2>3 DEF Keeps
  <2>6. Keeps(s, t, w) /\ t.wm[w].up
    <3> DEFINE v == SendConfig(u, w, "cntl")
               z == SendConfig(v, w, "intr")
    <3>1. Keeps(u, v, w) /\ v.wm[w].up
      BY <2>1, <2>3, <2>5, SendConfigKeeps
    <3>2. v \in Module /\ Dated(v) /\ v.wm[w].con > 0
      BY <2>5, <3>1 DEF Keeps
    <3> HIDE DEF v
    <3>3. Keeps(v, z, w) /\ z.wm[w].up
      BY <2>1, <3>1, <3>2, SendConfigKeeps
    <3> HIDE DEF z
    <3>4. Keeps(s, z, w)
      BY <2>3, <3>1, <3>3, KeepsTransitive
    <3>. QED BY <2>3, <2>4, <3>3, <3>4 DEF v, z
  <2>. QED BY <2>2, <2>4, <2>5, <2>6 DEF t
<1>. QED BY <1>2, <1>3

LEMMA SendConfigPlace ==
    ASSUME NEW s \in Module, Dated(s), NEW w \in Wiimotes, s.wm[w].con > 0,
           NEW psm \in Psm
    PROVE  LET t == SendConfig(s, w, psm)
           IN  /\ t \in Module /\ Dated(t) /\ t.wm[w].con > 0
               /\ \A p \in Psm : /\ t.wm[w].chn[p].valid = s.wm[w].chn[p].valid
                                 /\ t.wm[w].chn[p].local = s.wm[w].chn[p].local
<1> DEFINE t == SendConfig(s, w, psm)
           x == s.wm[w]
           y == t.wm[w]
<1>1. Keeps(s, t, w) /\ (t = s \/ y.chn = [x.chn EXCEPT ![psm].state = "pend"])
  BY SendConfigKeeps
<1>2. x \in Wiimote /\ x.chn \in [Psm -> Channel]
  BY DEF Module, Wiimote
<1> HIDE DEF t
<1>3. ASSUME y.chn = [x.chn EXCEPT ![psm].state = "pend"], NEW p \in Psm
      PROVE  y.chn[p].valid = x.chn[p].valid /\ y.chn[p].local = x.chn[p].local
  <2>1. x.chn[p] \in Channel
    BY <1>2
  <2>2. y.chn[p] = IF p = psm THEN [x.chn[p] EXCEPT !.state = "pend"] ELSE x.chn[p]
    BY <1>2, <1>3
  <2>. QED BY <2>1, <2>2 DEF Channel
<1>4. \A p \in Psm : /\ t.wm[w].chn[p].valid = s.wm[w].chn[p].valid
                     /\ t.wm[w].chn[p].local = s.wm[w].chn[p].local
  BY <1>1, <1>3
<1>. QED BY <1>1, <1>4 DEF Keeps, t

LEMMA LinkFits ==
    ASSUME NEW s \in Module, Dated(s), NEW w \in Wiimotes, NEW g \in Host,
           On(s, g, w), s.wm[w].up, Apart(Link(s, w).wm[w])
    PROVE  On(Link(s, w), g, w)
<1> DEFINE t == Link(s, w)
           x == s.wm[w]
<1>1. /\ x \in Wiimote /\ s.wm \in [Wiimotes -> Wiimote] /\ x.con > 0
  BY DEF Module, On
<1>2. CASE /\ \A p \in Psm : Complete(x.chn[p])
           /\ t = [s EXCEPT !.wm[w].linking = FALSE]
  <2> DEFINE y == [x EXCEPT !.linking = FALSE]
             m == Mail(s.pipe, w, g.con)
  <2>1. /\ t.wm[w] = y /\ t.pipe = s.pipe /\ t.lost = s.lost
    BY <1>1, <1>2 DEF Module
  <2>2. y.con = x.con /\ y.chn = x.chn /\ ~y.linking
    BY <1>1 DEF Wiimote
  <2>3. Pair(x, g, m) /\ (~s.lost => Heard(x, g, m) /\ Timely(x, g, m))
    BY DEF On
  <2>4. ~s.lost => \A p \in Psm : WillSettle(g, m, p)
    BY <1>2, <2>3, CompleteSettles
  <2> HIDE DEF x, y, m, t
  <2>5. Pair(y, g, m)
    BY <2>2, <2>3 DEF Pair, Asked, Opened, Named, Phases, PacketIds
  <2>6. ~s.lost => Heard(y, g, m)
    BY <2>2, <2>3 DEF Heard
  <2>7. ~s.lost => Timely(y, g, m)
    BY <2>2, <2>3, <2>4 DEF Timely
  <2>. QED BY <1>1, <2>1, <2>2, <2>5, <2>6, <2>7 DEF On, m, t
<1>3. ASSUME NEW u \in Module, Dated(u), u.wm[w].con > 0,
             \/ u = s
             \/ \E p \in Psm : /\ u = OpenChannel(s, w, p) /\ ~s.wm[w].chn[p].valid
                               /\ p = "intr" => Complete(s.wm[w].chn["cntl"]),
             t = u \/ t = SendConfig(SendConfig(u, w, "cntl"), w, "intr")
      PROVE  On(t, g, w)
  <2> DEFINE v == SendConfig(u, w, "cntl")
             z == SendConfig(v, w, "intr")
  <2>1. "cntl" \in Psm /\ "intr" \in Psm
    BY DEF Psm
  <2>2. /\ v \in Module /\ Dated(v) /\ v.wm[w].con > 0
        /\ \A p \in Psm : /\ v.wm[w].chn[p].valid = u.wm[w].chn[p].valid
                          /\ v.wm[w].chn[p].local = u.wm[w].chn[p].local
    BY <1>3, <2>1, SendConfigPlace
  <2> HIDE DEF v
  <2>3. \A p \in Psm : /\ z.wm[w].chn[p].valid = v.wm[w].chn[p].valid
                       /\ z.wm[w].chn[p].local = v.wm[w].chn[p].local
    BY <2>1, <2>2, SendConfigPlace
  <2> HIDE DEF z
  <2>4. Apart(t.wm[w])
    OBVIOUS
  <2> HIDE DEF t
  <2>5. Apart(u.wm[w])
    BY <1>3, <2>2, <2>3, <2>4, ApartBefore DEF v, z
  <2>6. On(u, g, w)
    BY <1>3, <2>5, OpenChannelFits
  <2>7. On(v, g, w) /\ Apart(v.wm[w])
    BY <1>3, <2>1, <2>5, <2>6, SendConfigFits DEF v
  <2>8. On(z, g, w)
    BY <2>1, <2>2, <2>7, SendConfigFits DEF z
  <2>. QED BY <1>3, <2>6, <2>8 DEF v, z
<1>. QED BY <1>1, <1>2, <1>3, LinkSteps

-----------------------------------------------------------------------------
(* Packets that may find no room, and the timer.                            *)

LEMMA InjectKeeps ==
    ASSUME NEW s \in Module, Dated(s), NEW w \in Wiimotes, s.wm[w].con > 0,
           NEW cmd \in ToHost
    PROVE  LET t == Inject(s, w, cmd)
           IN  /\ Keeps(s, t, w) /\ t.wm = s.wm /\ t.hung = s.hung
               /\ \/ t.lost = s.lost /\ Sends(s, t, w, cmd)
                  \/ t.pipe = s.pipe /\ (cmd.type = "config_rsp" => t.lost)
<1> DEFINE t == Inject(s, w, cmd)
<1>1. CASE Room(s)
  BY <1>1, SendKeeps DEF Inject
<1>2. CASE ~Room(s)
  <2>1. /\ t \in Module /\ t.wm = s.wm /\ t.pipe = s.pipe /\ t.hung = s.hung
        /\ t.lost = (s.lost \/ cmd.type = "config_rsp")
    BY <1>2 DEF Inject, Module
  <2>2. Keeps(s, t, w)
    BY <2>1 DEF Keeps, Dated
  <2>. QED BY <2>1, <2>2
<1>. QED BY <1>1, <1>2

\* A report is sent when both channels are ready.
LEMMA ReportFits ==
    ASSUME NEW s \in Module, Dated(s), NEW w \in Wiimotes, NEW g \in Host,
           On(s, g, w), NEW cid \in Nat,
           ~s.lost => \A psm \in Psm : WillSettle(g, Mail(s.pipe, w, g.con), psm)
    PROVE  On(Inject(s, w, Hid(cid)), g, w)
<1> DEFINE t == Inject(s, w, Hid(cid))
           x == s.wm[w]
           m == Mail(s.pipe, w, g.con)
           mm == Mail(t.pipe, w, g.con)
<1>1. Hid(cid) \in ToHost /\ Hid(cid).type = "hid"
  BY DEF Hid, ToHost
<1>2. /\ x.con > 0 /\ g.con = x.con
      /\ Pair(x, g, m) /\ (~s.lost => Heard(x, g, m) /\ Timely(x, g, m))
      /\ x \in Wiimote
  BY DEF On, Pair, Module
<1>3. /\ Keeps(s, t, w) /\ t.wm = s.wm
      /\ \/ t.lost = s.lost /\ Sends(s, t, w, Hid(cid))
         \/ t.pipe = s.pipe
  BY <1>1, <1>2, InjectKeeps
<1> HIDE DEF t
<1>4. CASE t.pipe = s.pipe
  BY <1>3, <1>4 DEF Keeps, On, t
<1>5. CASE t.lost = s.lost /\ Sends(s, t, w, Hid(cid))
  <2>1. More(m, mm, Hid(cid)) /\ t.wm[w] = x
    BY <1>2, <1>3, <1>5 DEF Sends
  <2> HIDE DEF x, mm
  <2>2. Pair(x, g, mm)
    BY <1>2, <2>1, HidSent
  <2>3. ~t.lost => Heard(x, g, mm) /\ Timely(x, g, mm)
    BY <1>1, <1>2, <1>5, <2>1, FitSent DEF Asks
  <2>. QED BY <1>2, <2>1, <2>2, <2>3 DEF On, mm, t
<1>. QED BY <1>3, <1>4, <1>5

LEMMA TickOfKeeps ==
    ASSUME NEW s \in Module, Dated(s), NEW w \in Wiimotes,
           s.wm[w].up => s.wm[w].con > 0, NEW reporting
    PROVE  LET t == TickOf(s, w, reporting)
           IN  Keeps(s, t, w) /\ t.wm[w].up = s.wm[w].up
<1> DEFINE t == TickOf(s, w, reporting)
           r == s.wm[w].chn["intr"].remote
<1>1. CASE t = s
  BY <1>1 DEF Keeps
<1>2. CASE s.wm[w].up /\ t = Link(s, w)
  BY <1>2, LinkSteps
<1>3. CASE s.wm[w].up /\ t = Inject(s, w, Hid(r))
  <2>1. s.wm[w] \in Wiimote /\ "intr" \in Psm
    BY DEF Module, Psm
  <2>2. r \in Nat
    BY <2>1 DEF Wiimote, Channel
  <2>3. Hid(r) \in ToHost
    BY <2>2 DEF Hid, ToHost
  <2>. QED BY <1>3, <2>3, InjectKeeps
<1>4. \/ t = s
      \/ s.wm[w].up /\ (t = Link(s, w) \/ t = Inject(s, w, Hid(r)))
  BY DEF TickOf
<1>5. s.wm[w].up \in BOOLEAN
  BY DEF Module, Wiimote
<1>. QED BY <1>1, <1>2, <1>3, <1>4, <1>5

LEMMA TickOfFits ==
    ASSUME NEW s \in Module, Dated(s), NEW w \in Wiimotes, NEW g \in Host,
           On(s, g, w), NEW reporting, Apart(TickOf(s, w, reporting).wm[w])
    PROVE  On(TickOf(s, w, reporting), g, w)
<1> DEFINE t == TickOf(s, w, reporting)
           r == s.wm[w].chn["intr"].remote
<1>1. CASE t = s
  BY <1>1
<1>2. CASE s.wm[w].up /\ t = Link(s, w)
  BY <1>2, LinkFits
<1>3. CASE ~s.wm[w].linking /\ t = Inject(s, w, Hid(r))
  <2>1. s.wm[w] \in Wiimote /\ "intr" \in Psm
    BY DEF Module, Psm
  <2>2. r \in Nat
    BY <2>1 DEF Wiimote, Channel
  <2>3. ~s.lost => \A psm \in Psm : WillSettle(g, Mail(s.pipe, w, g.con), psm)
    BY <1>3 DEF On, Timely
  <2>. QED BY <1>3, <2>2, <2>3, ReportFits
<1>4. \/ t = s
      \/ s.wm[w].up /\ t = Link(s, w)
      \/ ~s.wm[w].linking /\ t = Inject(s, w, Hid(r))
  BY DEF TickOf
<1>. QED BY <1>1, <1>2, <1>3, <1>4

LEMMA BecomesIs ==
    ASSUME NEW t \in Module, Becomes(t)
    PROVE  Now' = t
<1>1. /\ wm' = t.wm /\ nextCid' = t.nextCid /\ pipe' = t.pipe
      /\ lost' = t.lost /\ hung' = t.hung
  BY DEF Becomes
<1>. QED BY <1>1 DEF Now, Module

LEMMA OnlyOne ==
    ASSUME NEW e
    PROVE  Only({e}) = e
BY DEF Only

\* f is the state of the module after each Wiimote of a tick.
Rounds(f, reporting) ==
    f = [w \in 0..NumWiimotes |->
            IF w = 0 THEN Now
            ELSE Only({TickOf(s, w, reporting) : s \in {f[w - 1]}})]

LEMMA RoundsExist ==
    ASSUME NEW reporting
    PROVE  \E f : Rounds(f, reporting)
<1> DEFINE Up(n, e) == Only({TickOf(s, n, reporting) : s \in {e}})
           S == {n \in Nat : \E f : f = [w \in 0..n |-> IF w = 0 THEN Now ELSE Up(w, f[w - 1])]}
<1> HIDE DEF Up
<1>1. 0 \in S
  <2>1. \A w \in 0..0 : w = 0
    OBVIOUS
  <2>2. [w \in 0..0 |-> Now] = [w \in 0..0 |-> IF w = 0 THEN Now ELSE Up(w, [v \in 0..0 |-> Now][w - 1])]
    BY <2>1
  <2>. QED BY <2>2
<1>2. ASSUME NEW n \in Nat, n \in S
      PROVE  n + 1 \in S
  <2>1. PICK f : f = [w \in 0..n |-> IF w = 0 THEN Now ELSE Up(w, f[w - 1])]
    BY <1>2
  <2> DEFINE g == [w \in 0..n + 1 |-> IF w \in 0..n THEN f[w] ELSE Up(w, f[n])]
  <2>2. ASSUME NEW w \in 0..n + 1
        PROVE  g[w] = IF w = 0 THEN Now ELSE Up(w, g[w - 1])
    <3>1. CASE w = 0
      BY <2>1, <3>1
    <3>2. CASE w \in 1..n
      <4>1. w \in 0..n /\ w # 0 /\ w - 1 \in 0..n /\ w - 1 \in 0..n + 1
        BY <3>2
      <4>2. f[w] = Up(w, f[w - 1])
        BY <2>1, <4>1
      <4>3. g[w] = f[w] /\ g[w - 1] = f[w - 1]
        BY <4>1
      <4>. QED BY <4>1, <4>2, <4>3
    <3>3. CASE w = n + 1
      <4>1. w \notin 0..n /\ w # 0 /\ w - 1 = n /\ n \in 0..n /\ n \in 0..n + 1
        BY <3>3
      <4>2. g[w] = Up(w, f[n]) /\ g[n] = f[n]
        BY <4>1
      <4>. QED BY <4>1, <4>2
    <3>4. w = 0 \/ w \in 1..n \/ w = n + 1
      OBVIOUS
    <3>. QED BY <3>1, <3>2, <3>3, <3>4
  <2>3. g = [w \in 0..n + 1 |-> g[w]]
    OBVIOUS
  <2> HIDE DEF g
  <2>4. g = [w \in 0..n + 1 |-> IF w = 0 THEN Now ELSE Up(w, g[w - 1])]
    BY <2>2, <2>3
  <2>. QED BY <2>4
<1>3. NumWiimotes \in Nat
  BY LinkAssumption
<1>4. NumWiimotes \in S
  <2> HIDE DEF S
  <2>. QED BY <1>1, <1>2, <1>3, Induct
<1>. QED BY <1>4 DEF Rounds, Up

LEMMA TickRounds ==
    ASSUME NEW reporting, Tick(reporting)
    PROVE  \E f : /\ Becomes(f[NumWiimotes]) /\ f[0] = Now
                  /\ \A w \in Wiimotes : f[w] = TickOf(f[w - 1], w, reporting)
<1> DEFINE f == CHOOSE f : Rounds(f, reporting)
<1>1. Rounds(f, reporting)
  BY RoundsExist, Zenon
<1>2. Becomes(f[NumWiimotes])
  BY Zenon DEF Tick, Rounds
<1> HIDE DEF f
<1>3. f[0] = Now
  BY <1>1, LinkAssumption DEF Rounds
<1>4. ASSUME NEW w \in Wiimotes
      PROVE  f[w] = TickOf(f[w - 1], w, reporting)
  <2>1. w \in 0..NumWiimotes /\ w # 0
    BY LinkAssumption DEF Wiimotes
  <2>2. f[w] = Only({TickOf(s, w, reporting) : s \in {f[w - 1]}})
    BY <1>1, <2>1 DEF Rounds
  <2>3. {TickOf(s, w, reporting) : s \in {f[w - 1]}} = {TickOf(f[w - 1], w, reporting)}
    OBVIOUS
  <2>. QED BY <2>2, <2>3, OnlyOne
<1>. QED BY <1>2, <1>3, <1>4

Ticking(f, reporting) ==
    /\ f[0] \in Module /\ Dated(f[0])
    /\ \A w \in Wiimotes : f[w] = TickOf(f[w - 1], w, reporting)
    /\ \A w \in Wiimotes : f[0].wm[w].up => f[0].wm[w].con > 0

\* Each Wiimote is ticked once, and the others do not change it.
LEMMA RoundsKeep ==
    ASSUME NEW f, NEW reporting, Ticking(f, reporting)
    PROVE  \A n \in 0..NumWiimotes :
              /\ f[n] \in Module /\ Dated(f[n])
              /\ \A w \in Wiimotes :
                    /\ f[n].wm[w].up = f[0].wm[w].up /\ f[n].wm[w].con = f[0].wm[w].con
                    /\ w > n => f[n].wm[w] = f[0].wm[w]
                    /\ w <= n => f[n].wm[w] = f[w].wm[w]
<1> DEFINE P(n) == /\ f[n] \in Module /\ Dated(f[n])
                   /\ \A w \in Wiimotes :
                         /\ f[n].wm[w].up = f[0].wm[w].up
                         /\ f[n].wm[w].con = f[0].wm[w].con
                         /\ w > n => f[n].wm[w] = f[0].wm[w]
                         /\ w <= n => f[n].wm[w] = f[w].wm[w]
           S == {n \in Nat : n <= NumWiimotes => P(n)}
<1>1. NumWiimotes \in Nat /\ Wiimotes = {n \in Nat : 0 < n /\ n <= NumWiimotes}
  BY LinkAssumption DEF Wiimotes
<1>2. P(0)
  BY <1>1 DEF Ticking
<1>3. ASSUME NEW n \in Nat, P(n), n + 1 <= NumWiimotes
      PROVE  P(n + 1)
  <2> DEFINE k == n + 1
  <2>1. /\ k \in Wiimotes /\ k \in Nat /\ k - 1 = n
        /\ \A w \in Wiimotes : (w > k => w > n /\ w # k) /\ (w <= k => w = k \/ (w <= n /\ w # k))
    BY <1>1, <1>3
  <2> HIDE DEF k
  <2>2. f[k] = TickOf(f[n], k, reporting)
    BY <2>1 DEF Ticking
  <2>3. f[n].wm[k].up => f[n].wm[k].con > 0
    BY <1>3, <2>1 DEF Ticking
  <2>4. Keeps(f[n], f[k], k) /\ f[k].wm[k].up = f[n].wm[k].up
    BY <1>3, <2>1, <2>2, <2>3, TickOfKeeps
  <2>5. P(k)
    BY <1>3, <2>1, <2>4 DEF Keeps
  <2>. QED BY <2>5 DEF k
<1>4. Nat \subseteq S
  <2>1. 0 \in S
    BY <1>2
  <2>2. \A n \in Nat : n \in S => n + 1 \in S
    BY <1>1, <1>3
  <2> HIDE DEF S
  <2>. QED BY <2>1, <2>2, Induct
<1> HIDE DEF P
<1>5. \A n \in 0..NumWiimotes : P(n)
  BY <1>1, <1>4
<1>. QED BY <1>5 DEF P

LEMMA RoundsFit ==
    ASSUME NEW f, NEW reporting, Ticking(f, reporting),
           \A w \in Wiimotes : Apart(f[NumWiimotes].wm[w]),
           NEW v \in Wiimotes, NEW g \in Host, On(f[0], g, v)
    PROVE  On(f[NumWiimotes], g, v)
<1>1. NumWiimotes \in Nat /\ Wiimotes = {n \in Nat : 0 < n /\ n <= NumWiimotes}
  BY LinkAssumption DEF Wiimotes
<1>2. \A n \in 0..NumWiimotes :
         /\ f[n] \in Module /\ Dated(f[n])
         /\ \A w \in Wiimotes : /\ f[n].wm[w].up = f[0].wm[w].up
                                /\ f[n].wm[w].con = f[0].wm[w].con
                                /\ w > n => f[n].wm[w] = f[0].wm[w]
                                /\ w <= n => f[n].wm[w] = f[w].wm[w]
  BY RoundsKeep
<1> DEFINE S == {n \in Nat : n <= NumWiimotes => On(f[n], g, v)}
<1>3. ASSUME NEW n \in Nat, On(f[n], g, v), n + 1 <= NumWiimotes
      PROVE  On(f[n + 1], g, v)
  <2> DEFINE k == n + 1
  <2>1. /\ k \in Wiimotes /\ k - 1 = n /\ n \in 0..NumWiimotes
        /\ k <= NumWiimotes /\ NumWiimotes \in 0..NumWiimotes
    BY <1>1, <1>3
  <2> HIDE DEF k
  <2>2. f[k] = TickOf(f[n], k, reporting) /\ f[n] \in Module /\ Dated(f[n])
    BY <1>2, <2>1 DEF Ticking
  <2>3. f[n].wm[k].up => f[n].wm[k].con > 0
    BY <1>2, <2>1 DEF Ticking
  <2>4. ASSUME k = v
        PROVE  On(f[k], g, v)
    <3>1. Apart(f[k].wm[k])
      BY <1>2, <2>1
    <3>. QED BY <1>3, <2>1, <2>2, <2>4, <3>1, TickOfFits
  <2>5. ASSUME k # v
        PROVE  On(f[k], g, v)
    <3>1. Keeps(f[n], f[k], k)
      BY <2>1, <2>2, <2>3, TickOfKeeps
    <3>. QED BY <1>3, <2>5, <3>1, OthersFit
  <2>6. On(f[k], g, v)
    BY <2>4, <2>5
  <2>. QED BY <2>6 DEF k
<1>4. Nat \subseteq S
  <2>1. 0 \in S
    OBVIOUS
  <2>2. \A n \in Nat : n \in S => n + 1 \in S
    BY <1>1, <1>3
  <2> HIDE DEF S
  <2>. QED BY <2>1, <2>2, Induct
<1>. QED BY <1>1, <1>4

LEMMA TickInv ==
    ASSUME LinkInv, NEW reporting, Tick(reporting), CidsApart'
    PROVE  LinkInv'
<1>1. /\ Now \in Module /\ Dated(Now)
      /\ host \in [Wiimotes -> Host] /\ budget \in Budget /\ Spare
      /\ \A w \in Wiimotes : IF wm[w].up THEN On(Now, host[w], w) ELSE host[w] = NoHost
  BY DEF LinkInv
<1>2. PICK f : /\ Becomes(f[NumWiimotes]) /\ f[0] = Now
               /\ \A w \in Wiimotes : f[w] = TickOf(f[w - 1], w, reporting)
  BY TickRounds
<1>3. f[0].wm = wm
  BY <1>2 DEF Now
<1>4. Ticking(f, reporting)
  BY <1>1, <1>2, <1>3 DEF On, Ticking
<1>5. /\ f[NumWiimotes] \in Module /\ Dated(f[NumWiimotes])
      /\ \A w \in Wiimotes : f[NumWiimotes].wm[w].up = wm[w].up
  <2>1. NumWiimotes \in 0..NumWiimotes
    BY LinkAssumption
  <2>. QED BY <1>1, <1>2, <1>3, <1>4, <2>1, RoundsKeep
<1>6. Now' = f[NumWiimotes] /\ Now'.wm = wm'
  <2>1. Now' = f[NumWiimotes]
    BY <1>2, <1>5, BecomesIs
  <2>. QED BY <2>1 DEF Now
<1>7. \A w \in Wiimotes : Apart(f[NumWiimotes].wm[w])
  BY <1>6 DEF CidsApart, Apart
<1>8. UNCHANGED <<host, budget>>
  BY DEF Tick
<1>9. ASSUME NEW w \in Wiimotes
      PROVE  IF wm'[w].up THEN On(Now', host'[w], w) ELSE host'[w] = NoHost
  <2>1. wm'[w].up = wm[w].up /\ host' = host /\ host[w] \in Host
    BY <1>1, <1>5, <1>6, <1>8
  <2>2. CASE wm[w].up
    <3>1. On(f[0], host[w], w)
      BY <1>1, <1>2, <2>2
    <3>2. On(f[NumWiimotes], host[w], w)
      BY <1>1, <1>2, <1>4, <1>7, <2>1, <3>1, RoundsFit
    <3>. QED BY <1>6, <2>1, <2>2, <3>2
  <2>3. CASE ~wm[w].up
    BY <1>1, <2>1, <2>3
  <2>. QED BY <2>2, <2>3
<1>10. Spare'
  BY <1>1, <1>8 DEF Spare
<1>11. Now' \in Module /\ Dated(Now')
  BY <1>5, <1>6
<1>. QED BY <1>1, <1>8, <1>9, <1>10, <1>11 DEF LinkInv

-----------------------------------------------------------------------------
(* Commands of the host.                                                    *)

\* Channel psm of Wiimote w becomes c.
WithChannel(s, w, psm, c) ==
    [s EXCEPT !.wm = [s.wm EXCEPT ![w] =
        [s.wm[w] EXCEPT !.chn = [s.wm[w].chn EXCEPT ![psm] = c]]]]

LEMMA ChannelChanges ==
    ASSUME NEW s \in Module, Dated(s), NEW w \in Wiimotes, NEW psm \in Psm,
           NEW c \in Channel
    PROVE  LET t == WithChannel(s, w, psm, c)
           IN  /\ Keeps(s, t, w) /\ t \in Module /\ Dated(t)
               /\ t.pipe = s.pipe /\ t.lost = s.lost /\ t.hung = s.hung
               /\ t.wm[w].con = s.wm[w].con /\ t.wm[w].linking = s.wm[w].linking
               /\ t.wm[w].chn = [s.wm[w].chn EXCEPT ![psm] = c]
<1> DEFINE t == WithChannel(s, w, psm, c)
           x == s.wm[w]
           y == [x EXCEPT !.chn = [x.chn EXCEPT ![psm] = c]]
<1>1. s.wm \in [Wiimotes -> Wiimote] /\ x \in Wiimote
  BY DEF Module
<1>2. /\ y \in Wiimote /\ y.con = x.con /\ y.linking = x.linking
      /\ y.chn = [x.chn EXCEPT ![psm] = c]
  BY <1>1 DEF Wiimote
<1>3. t = [s EXCEPT !.wm = [s.wm EXCEPT ![w] = y]]
  BY DEF WithChannel
<1> HIDE DEF t, y
<1>4. /\ t \in Module /\ t.wm = [s.wm EXCEPT ![w] = y] /\ t.pipe = s.pipe
      /\ t.lost = s.lost /\ t.hung = s.hung
  BY <1>1, <1>2, <1>3 DEF Module
<1>5. t.wm[w] = y
  BY <1>1, <1>4
<1>6. Keeps(s, t, w)
  BY <1>2, <1>4, ChangeKeeps
<1>. QED BY <1>2, <1>4, <1>5, <1>6 DEF Keeps, t

\* A command about a channel finds it.
LEMMA ChannelFound ==
    ASSUME NEW x, NEW g, NEW h, NEW m, NEW cmd, Apart(x), Pair(x, g, m),
           Taken(g, h, cmd), cmd.type # "refusal"
    PROVE  \E psm \in Psm : /\ x.chn[psm].valid /\ x.chn[psm].local = cmd.cid
                            /\ Found(x, cmd.cid) = {psm}
<1>1. 1 \in DOMAIN g.outbox /\ g.outbox[1] = cmd
  BY DEF Taken, Shrunk
<1>2. PICK psm \in Psm : x.chn[psm].valid /\ x.chn[psm].local = cmd.cid
  BY <1>1 DEF Pair, Named
<1>3. Found(x, cmd.cid) = {psm}
  BY <1>2 DEF Found, Apart
<1>. QED BY <1>2, <1>3

LEMMA AnswerCase ==
    ASSUME NEW s, NEW w, NEW cmd, NEW psm, Found(s.wm[w], cmd.cid) = {psm},
           cmd.type = "connect_rsp",
           NEW d, d = [s.wm[w].chn[psm] EXCEPT !.remote = cmd.dcid]
    PROVE  Command(s, w, cmd) = WithChannel(s, w, psm, d)
<1>1. (CHOOSE p \in Found(s.wm[w], cmd.cid) : TRUE) = psm /\ Found(s.wm[w], cmd.cid) # {}
  OBVIOUS
<1>. QED BY <1>1 DEF Command, OnChannel, WithChannel

LEMMA CompleteCase ==
    ASSUME NEW s, NEW w, NEW cmd, NEW psm, Found(s.wm[w], cmd.cid) = {psm},
           cmd.type = "config_rsp",
           NEW d, d = [s.wm[w].chn[psm] EXCEPT !.state = "complete"]
    PROVE  Command(s, w, cmd) = WithChannel(s, w, psm, d)
<1>1. (CHOOSE p \in Found(s.wm[w], cmd.cid) : TRUE) = psm /\ Found(s.wm[w], cmd.cid) # {}
  OBVIOUS
<1>. QED BY <1>1 DEF Command, OnChannel, WithChannel

LEMMA ConfigureCase ==
    ASSUME NEW s, NEW w, NEW cmd, NEW psm, Found(s.wm[w], cmd.cid) = {psm},
           cmd.type = "config_req",
           NEW d, d = [s.wm[w].chn[psm] EXCEPT !.mtu = TRUE]
    PROVE  Command(s, w, cmd) = Inject(WithChannel(s, w, psm, d), w,
                                     ConfigRsp(s.wm[w].chn[psm].remote))
<1>1. (CHOOSE p \in Found(s.wm[w], cmd.cid) : TRUE) = psm /\ Found(s.wm[w], cmd.cid) # {}
  OBVIOUS
<1>. QED BY <1>1 DEF Command, OnChannel, WithChannel

LEMMA CloseCase ==
    ASSUME NEW s, NEW w, NEW cmd, NEW psm, Found(s.wm[w], cmd.cid) = {psm},
           cmd.type = "discon_req",
           NEW d, d = [s.wm[w].chn[psm] EXCEPT !.valid = FALSE]
    PROVE  Command(s, w, cmd) = Inject(WithChannel(s, w, psm, d), w, DisconRsp(cmd.scid))
<1>1. (CHOOSE p \in Found(s.wm[w], cmd.cid) : TRUE) = psm /\ Found(s.wm[w], cmd.cid) # {}
  OBVIOUS
<1>. QED BY <1>1 DEF Command, OnChannel, WithChannel

LEMMA OutputCases ==
    ASSUME NEW s, NEW w, NEW cmd, cmd.type = "hid"
    PROVE  \/ Command(s, w, cmd) = s
           \/ Command(s, w, cmd) = Inject(s, w, Hid(s.wm[w].chn["intr"].remote))
BY DEF Command

LEMMA TakenSays ==
    ASSUME NEW g, NEW h, NEW cmd, Taken(g, h, cmd)
    PROVE  h.con = g.con /\ SaysNoMore(g, h)
BY DEF Taken, Shrunk, SaysNoMore

\* What a command leads to.
Handled(s, t, h, w) ==
    Keeps(s, t, w) /\ t.hung = s.hung /\ Apart(t.wm[w]) /\ On(t, h, w)

LEMMA RefusalHandled ==
    ASSUME NEW s \in Module, Dated(s), NEW w \in Wiimotes, NEW g \in Host,
           NEW h \in Host, On(s, g, w), Apart(s.wm[w]),
           NEW cmd \in FromHost, Taken(g, h, cmd), cmd.type = "refusal"
    PROVE  Handled(s, Command(s, w, cmd), h, w)
<1> DEFINE t == Command(s, w, cmd)
           x == s.wm[w]
           y == [x EXCEPT !.up = FALSE]
           m == Mail(s.pipe, w, g.con)
<1>1. s.wm \in [Wiimotes -> Wiimote] /\ x \in Wiimote
  BY DEF Module
<1>2. y \in Wiimote /\ y.con = x.con /\ y.linking = x.linking /\ y.chn = x.chn
  BY <1>1 DEF Wiimote
<1>3. t = [s EXCEPT !.wm = [s.wm EXCEPT ![w] = y]]
  BY DEF Command, Disconnected
<1> HIDE DEF t, y
<1>4. /\ t \in Module /\ t.wm = [s.wm EXCEPT ![w] = y] /\ t.pipe = s.pipe
      /\ t.lost = s.lost /\ t.hung = s.hung /\ t.wm[w] = y
  BY <1>1, <1>2, <1>3 DEF Module
<1>5. Keeps(s, t, w)
  BY <1>2, <1>4, ChangeKeeps
<1>6. h.con = g.con /\ x.con > 0 /\ Apart(y)
  BY <1>2 DEF Taken, On, Apart
<1>7. Pair(x, g, m) /\ (~s.lost => Heard(x, g, m) /\ Timely(x, g, m))
  BY DEF On
<1> HIDE DEF x, m
<1>8. Pair(y, h, m)
  BY <1>1, <1>2, <1>7, SkipTaken
<1>9. ~s.lost => Heard(y, h, m) /\ Timely(y, h, m)
  <2>1. NoneNew(x, y)
    BY <1>2 DEF NoneNew
  <2>. QED BY <1>7, <2>1, FitTaken, TakenSays
<1>. QED BY <1>2, <1>4, <1>5, <1>6, <1>8, <1>9 DEF Handled, On, t, m

LEMMA OutputHandled ==
    ASSUME NEW s \in Module, Dated(s), NEW w \in Wiimotes, NEW g \in Host,
           NEW h \in Host, On(s, g, w), Apart(s.wm[w]),
           NEW cmd \in FromHost, Taken(g, h, cmd), cmd.type = "hid"
    PROVE  Handled(s, Command(s, w, cmd), h, w)
<1> DEFINE t == Command(s, w, cmd)
           x == s.wm[w]
           r == x.chn["intr"].remote
           m == Mail(s.pipe, w, g.con)
<1>1. x \in Wiimote /\ "intr" \in Psm
  BY DEF Module, Psm
<1>2. r \in Nat
  BY <1>1 DEF Wiimote, Channel
<1>3. /\ Pair(x, g, m) /\ (~s.lost => Heard(x, g, m) /\ Timely(x, g, m))
      /\ h.con = g.con /\ x.con > 0 /\ Apart(x)
  BY DEF On, Taken
<1>4. t = s \/ t = Inject(s, w, Hid(r))
  BY OutputCases, Zenon
<1> HIDE DEF x, m, r, t
<1>5. Pair(x, h, m)
  BY <1>1, <1>3, SkipTaken
<1>6. ~s.lost => Heard(x, h, m) /\ Timely(x, h, m)
  <2>1. NoneNew(x, x)
    BY DEF NoneNew
  <2>. QED BY <1>3, <2>1, FitTaken, TakenSays
<1>7. On(s, h, w)
  BY <1>3, <1>5, <1>6 DEF On, x, m
<1>8. ~s.lost => h.ready = Psm
  BY <1>3 DEF Timely, Taken, Shrunk
<1>9. ~s.lost => \A psm \in Psm : WillSettle(h, Mail(s.pipe, w, h.con), psm)
  BY <1>8 DEF WillSettle
<1>10. On(t, h, w)
  BY <1>2, <1>4, <1>7, <1>9, ReportFits
<1>11. Keeps(s, t, w) /\ t.hung = s.hung /\ t.wm = s.wm
  <2>1. CASE t = s
    BY <2>1 DEF Keeps
  <2>2. CASE t = Inject(s, w, Hid(r))
    <3>1. Hid(r) \in ToHost /\ s.wm[w].con > 0
      BY <1>2, <1>3 DEF Hid, ToHost, x
    <3>. QED BY <2>2, <3>1, InjectKeeps
  <2>. QED BY <1>4, <2>1, <2>2
<1>. QED BY <1>3, <1>10, <1>11 DEF Handled, t, x

LEMMA AnswerHandled ==
    ASSUME NEW s \in Module, Dated(s), NEW w \in Wiimotes, NEW g \in Host,
           NEW h \in Host, On(s, g, w), Apart(s.wm[w]),
           NEW cmd \in FromHost, Taken(g, h, cmd), cmd.type = "connect_rsp"
    PROVE  Handled(s, Command(s, w, cmd), h, w)
<1> DEFINE t == Command(s, w, cmd)
           x == s.wm[w]
           y == t.wm[w]
           r == cmd.dcid
           m == Mail(s.pipe, w, g.con)
<1>1. /\ Pair(x, g, m) /\ (~s.lost => Heard(x, g, m) /\ Timely(x, g, m))
      /\ h.con = g.con /\ x.con > 0 /\ Apart(x) /\ x \in Wiimote /\ r \in Nat
  <2>1. r \in Nat
    BY DEF FromHost
  <2>. QED BY <2>1 DEF On, Taken, Module
<1>2. PICK psm \in Psm : /\ x.chn[psm].valid /\ x.chn[psm].local = cmd.cid
                         /\ Found(x, cmd.cid) = {psm}
  BY <1>1, ChannelFound
<1> DEFINE c == x.chn[psm]
           d == [c EXCEPT !.remote = r]
<1>3. c \in Channel /\ x.chn \in [Psm -> Channel]
  BY <1>1 DEF Wiimote
<1>4. d \in Channel /\ d.valid = c.valid /\ d.local = c.local /\ d.mtu = c.mtu
  BY <1>1, <1>3 DEF Channel
<1>5. t = WithChannel(s, w, psm, d)
  BY <1>2, AnswerCase
<1>6. /\ Keeps(s, t, w) /\ t \in Module
      /\ t.pipe = s.pipe /\ t.lost = s.lost /\ t.hung = s.hung
      /\ y.con = x.con /\ y.linking = x.linking
      /\ y.chn = [x.chn EXCEPT ![psm] = d]
  BY <1>4, <1>5, ChannelChanges
<1>7. y \in Wiimote
  BY <1>6 DEF Module
<1>8. y.chn = [x.chn EXCEPT ![psm].remote = r]
  BY <1>3, <1>6
<1>9. \A p \in Psm : /\ y.chn[p].valid = x.chn[p].valid
                     /\ y.chn[p].local = x.chn[p].local /\ y.chn[p].mtu = x.chn[p].mtu
  BY <1>3, <1>4, <1>6
<1> HIDE DEF x, y, m, t, c, d, r
<1>10. Pair(y, h, m)
  BY <1>1, <1>2, <1>6, <1>7, <1>8, AnswerTaken DEF r
<1>11. ~s.lost => Heard(y, h, m) /\ Timely(y, h, m)
  <2>1. NoneNew(x, y)
    BY <1>6, <1>9 DEF NoneNew
  <2>. QED BY <1>1, <2>1, FitTaken, TakenSays
<1>12. Apart(y)
  BY <1>1, <1>9 DEF Apart
<1>. QED BY <1>1, <1>6, <1>10, <1>11, <1>12 DEF Handled, On, t, m, x, y

LEMMA CompleteHandled ==
    ASSUME NEW s \in Module, Dated(s), NEW w \in Wiimotes, NEW g \in Host,
           NEW h \in Host, On(s, g, w), Apart(s.wm[w]),
           NEW cmd \in FromHost, Taken(g, h, cmd), cmd.type = "config_rsp"
    PROVE  Handled(s, Command(s, w, cmd), h, w)
<1> DEFINE t == Command(s, w, cmd)
           x == s.wm[w]
           y == t.wm[w]
           m == Mail(s.pipe, w, g.con)
<1>1. /\ Pair(x, g, m) /\ (~s.lost => Heard(x, g, m) /\ Timely(x, g, m))
      /\ h.con = g.con /\ x.con > 0 /\ Apart(x) /\ x \in Wiimote
  BY DEF On, Taken, Module
<1>2. PICK psm \in Psm : /\ x.chn[psm].valid /\ x.chn[psm].local = cmd.cid
                         /\ Found(x, cmd.cid) = {psm}
  BY <1>1, ChannelFound
<1> DEFINE c == x.chn[psm]
           d == [c EXCEPT !.state = "complete"]
<1>3. c \in Channel /\ x.chn \in [Psm -> Channel]
  BY <1>1 DEF Wiimote
<1>4. d \in Channel /\ d.valid = c.valid /\ d.local = c.local /\ d.mtu = c.mtu
  BY <1>3 DEF Channel, States
<1>5. t = WithChannel(s, w, psm, d)
  BY <1>2, CompleteCase
<1>6. /\ Keeps(s, t, w) /\ t \in Module
      /\ t.pipe = s.pipe /\ t.lost = s.lost /\ t.hung = s.hung
      /\ y.con = x.con /\ y.linking = x.linking
      /\ y.chn = [x.chn EXCEPT ![psm] = d]
  BY <1>4, <1>5, ChannelChanges
<1>7. y \in Wiimote
  BY <1>6 DEF Module
<1>8. y.chn[psm] = d /\ \A p \in Psm : p # psm => y.chn[p] = x.chn[p]
  BY <1>3, <1>6
<1>9. \A p \in Psm : /\ y.chn[p].valid = x.chn[p].valid
                     /\ y.chn[p].local = x.chn[p].local /\ y.chn[p].mtu = x.chn[p].mtu
  BY <1>4, <1>8
<1> HIDE DEF x, y, m, t
<1>10. Pair(y, h, m)
  <2>1. y.chn[psm] = IF cmd.type = "config_req" THEN [x.chn[psm] EXCEPT !.mtu = TRUE]
                     ELSE [x.chn[psm] EXCEPT !.state = "complete"]
    BY <1>8
  <2>. QED BY <1>1, <1>2, <1>6, <1>7, <1>8, <2>1, ConfigTaken DEF Configures
<1>11. ~s.lost => Heard(y, h, m) /\ Timely(y, h, m)
  <2>1. NoneNew(x, y)
    BY <1>6, <1>9 DEF NoneNew
  <2>. QED BY <1>1, <2>1, FitTaken, TakenSays
<1>12. Apart(y)
  BY <1>1, <1>9 DEF Apart
<1>. QED BY <1>1, <1>6, <1>10, <1>11, <1>12 DEF Handled, On, t, m, x, y

LEMMA ConfigureHandled ==
    ASSUME NEW s \in Module, Dated(s), NEW w \in Wiimotes, NEW g \in Host,
           NEW h \in Host, On(s, g, w), Apart(s.wm[w]),
           NEW cmd \in FromHost, Taken(g, h, cmd), cmd.type = "config_req"
    PROVE  Handled(s, Command(s, w, cmd), h, w)
<1> DEFINE t == Command(s, w, cmd)
           x == s.wm[w]
           m == Mail(s.pipe, w, g.con)
<1>1. /\ Pair(x, g, m) /\ (~s.lost => Heard(x, g, m) /\ Timely(x, g, m))
      /\ h.con = g.con /\ g.con = x.con /\ x.con > 0 /\ Apart(x) /\ x \in Wiimote
  BY DEF On, Pair, Taken, Module
<1>2. PICK psm \in Psm : /\ x.chn[psm].valid /\ x.chn[psm].local = cmd.cid
                         /\ Found(x, cmd.cid) = {psm}
  BY <1>1, ChannelFound
<1> DEFINE c == x.chn[psm]
           d == [c EXCEPT !.mtu = TRUE]
           u == WithChannel(s, w, psm, d)
           y == u.wm[w]
           r == d.remote
           mm == Mail(t.pipe, w, g.con)
<1>3. c \in Channel /\ x.chn \in [Psm -> Channel]
  BY <1>1 DEF Wiimote
<1>4. /\ d \in Channel /\ d.valid = c.valid /\ d.local = c.local /\ d.mtu
      /\ d.remote = c.remote /\ r \in Nat
  BY <1>3 DEF Channel
<1>5. t = Inject(u, w, ConfigRsp(r))
  <2>1. t = Inject(u, w, ConfigRsp(c.remote))
    BY <1>2, ConfigureCase
  <2>. QED BY <1>4, <2>1, Zenon
<1> HIDE DEF t, d
<1>6. /\ Keeps(s, u, w) /\ u \in Module /\ Dated(u)
      /\ u.pipe = s.pipe /\ u.lost = s.lost /\ u.hung = s.hung
      /\ y.con = x.con /\ y.linking = x.linking
      /\ y.chn = [x.chn EXCEPT ![psm] = d]
  BY <1>4, ChannelChanges
<1>7. y \in Wiimote
  BY <1>6 DEF Module
<1>8. y.chn[psm] = d /\ \A p \in Psm : p # psm => y.chn[p] = x.chn[p]
  BY <1>3, <1>6
<1>9. \A p \in Psm : y.chn[p].valid = x.chn[p].valid /\ y.chn[p].local = x.chn[p].local
  BY <1>4, <1>8
<1>10. ConfigRsp(r) \in ToHost /\ ConfigRsp(r).type = "config_rsp"
  BY <1>4 DEF ConfigRsp, ToHost
<1>11. Apart(y)
  BY <1>1, <1>9 DEF Apart
<1> HIDE DEF u
<1>12. /\ Keeps(u, t, w) /\ t.wm = u.wm /\ t.hung = u.hung
       /\ \/ t.lost = u.lost /\ Sends(u, t, w, ConfigRsp(r))
          \/ t.pipe = u.pipe /\ t.lost
  BY <1>1, <1>5, <1>6, <1>10, InjectKeeps
<1> HIDE DEF x, y, m, mm
<1>13. Pair(y, h, m) /\ Bound(y.chn[psm], h, psm)
  <2>1. y.chn[psm] = IF cmd.type = "config_req" THEN [x.chn[psm] EXCEPT !.mtu = TRUE]
                     ELSE [x.chn[psm] EXCEPT !.state = "complete"]
    BY <1>8 DEF d
  <2>. QED BY <1>1, <1>2, <1>6, <1>7, <1>8, <2>1, ConfigTaken DEF Configures
<1>14. CASE t.pipe = u.pipe /\ t.lost
  BY <1>1, <1>6, <1>11, <1>12, <1>13, <1>14, KeepsTransitive DEF Handled, On, t, m, x, y
<1>15. CASE t.lost = u.lost /\ Sends(u, t, w, ConfigRsp(r))
  <2>1. More(m, mm, ConfigRsp(y.chn[psm].remote))
    BY <1>1, <1>6, <1>8, <1>15 DEF Sends, x, y, m, mm
  <2>2. y.chn[psm].valid /\ y.chn[psm].mtu
    BY <1>2, <1>4, <1>8
  <2>3. Pair(y, h, mm)
    BY <1>7, <1>13, <2>1, <2>2, ConfirmSent
  <2>4. ~s.lost => Heard(x, h, m) /\ Timely(x, h, m)
    <3>1. NoneNew(x, x)
      BY DEF NoneNew
    <3>. QED BY <1>1, <3>1, FitTaken, TakenSays
  <2>5. ~t.lost => Heard(y, h, mm) /\ Timely(y, h, mm)
    <3>1. /\ y.linking = x.linking /\ y.chn[psm].valid = x.chn[psm].valid
          /\ y.chn[psm].local = x.chn[psm].local
          /\ \A p \in Psm : p # psm => y.chn[p] = x.chn[p]
          /\ Bound(y.chn[psm], h, psm)
      BY <1>6, <1>8, <1>9, <1>13
    <3>2. ~t.lost => ~s.lost
      BY <1>6, <1>15
    <3>. QED BY <2>1, <2>4, <3>1, <3>2, FitConfirmed
  <2>6. Keeps(s, t, w)
    BY <1>6, <1>12, KeepsTransitive
  <2>. QED BY <1>1, <1>6, <1>11, <1>12, <2>3, <2>5, <2>6 DEF Handled, On, t, mm, x, y
<1>. QED BY <1>12, <1>14, <1>15

LEMMA CloseHandled ==
    ASSUME NEW s \in Module, Dated(s), NEW w \in Wiimotes, NEW g \in Host,
           NEW h \in Host, On(s, g, w), Apart(s.wm[w]),
           NEW cmd \in FromHost, Taken(g, h, cmd), cmd.type = "discon_req"
    PROVE  Handled(s, Command(s, w, cmd), h, w)
<1> DEFINE t == Command(s, w, cmd)
           x == s.wm[w]
           m == Mail(s.pipe, w, g.con)
           r == cmd.scid
<1>1. /\ Pair(x, g, m) /\ (~s.lost => Heard(x, g, m) /\ Timely(x, g, m))
      /\ h.con = g.con /\ g.con = x.con /\ x.con > 0 /\ Apart(x) /\ x \in Wiimote
      /\ r \in Nat
  <2>1. r \in Nat
    BY DEF FromHost
  <2>. QED BY <2>1 DEF On, Pair, Taken, Module
<1>2. PICK psm \in Psm : /\ x.chn[psm].valid /\ x.chn[psm].local = cmd.cid
                         /\ Found(x, cmd.cid) = {psm}
  BY <1>1, ChannelFound
<1> DEFINE c == x.chn[psm]
           d == [c EXCEPT !.valid = FALSE]
           u == WithChannel(s, w, psm, d)
           y == u.wm[w]
           mm == Mail(t.pipe, w, g.con)
<1>3. c \in Channel /\ x.chn \in [Psm -> Channel]
  BY <1>1 DEF Wiimote
<1>4. d \in Channel /\ ~d.valid /\ d.local = c.local
  BY <1>3 DEF Channel
<1>5. t = Inject(u, w, DisconRsp(r))
  BY <1>2, CloseCase
<1> HIDE DEF t, d
<1>6. /\ Keeps(s, u, w) /\ u \in Module /\ Dated(u)
      /\ u.pipe = s.pipe /\ u.lost = s.lost /\ u.hung = s.hung
      /\ y.con = x.con /\ y.linking = x.linking
      /\ y.chn = [x.chn EXCEPT ![psm] = d]
  BY <1>4, ChannelChanges
<1>7. y \in Wiimote /\ y.chn = [x.chn EXCEPT ![psm].valid = FALSE]
  BY <1>3, <1>6 DEF Module, d
<1>8. y.chn[psm] = d /\ \A p \in Psm : p # psm => y.chn[p] = x.chn[p]
  BY <1>3, <1>6
<1>9. DisconRsp(r) \in ToHost /\ DisconRsp(r).type = "discon_rsp"
  BY <1>1 DEF DisconRsp, ToHost
<1>10. Apart(y)
  BY <1>1, <1>4, <1>8 DEF Apart
<1> HIDE DEF u
<1>11. /\ Keeps(u, t, w) /\ t.wm = u.wm /\ t.hung = u.hung
       /\ \/ t.lost = u.lost /\ Sends(u, t, w, DisconRsp(r))
          \/ t.pipe = u.pipe
  BY <1>1, <1>5, <1>6, <1>9, InjectKeeps
<1> HIDE DEF x, y, m, mm
<1>12. Pair(y, h, m) /\ Ended(h, m, r)
  <2>1. x \in Wiimote /\ y \in Wiimote /\ Apart(x) /\ Pair(x, g, m)
        /\ y.con = x.con /\ y.linking = x.linking
        /\ y.chn = [x.chn EXCEPT ![psm].valid = FALSE]
        /\ x.chn[psm].valid /\ cmd.cid = x.chn[psm].local
    BY <1>1, <1>2, <1>6, <1>7
  <2> HIDE DEF c
  <2>. QED BY <2>1, CloseTaken
<1>13. ~s.lost => Heard(y, h, m) /\ Timely(y, h, m)
  <2>1. NoneNew(x, y)
    BY <1>4, <1>6, <1>8 DEF NoneNew
  <2>. QED BY <1>1, <2>1, FitTaken, TakenSays
<1>14. Keeps(s, t, w) /\ (~t.lost => ~s.lost)
  BY <1>6, <1>11, KeepsTransitive DEF Keeps
<1>15. CASE t.pipe = u.pipe
  BY <1>1, <1>6, <1>10, <1>11, <1>12, <1>13, <1>14, <1>15 DEF Handled, On, t, m, x, y
<1>16. CASE t.lost = u.lost /\ Sends(u, t, w, DisconRsp(r))
  <2>1. More(m, mm, DisconRsp(r))
    BY <1>1, <1>6, <1>16 DEF Sends, x, y, m, mm
  <2>2. Pair(y, h, mm)
    BY <1>1, <1>7, <1>12, <2>1, CloseSent
  <2>3. ~t.lost => Heard(y, h, mm) /\ Timely(y, h, mm)
    BY <1>9, <1>13, <1>14, <2>1, FitSent DEF Asks
  <2>. QED BY <1>1, <1>6, <1>10, <1>11, <1>14, <2>2, <2>3 DEF Handled, On, t, mm, x, y
<1>. QED BY <1>11, <1>15, <1>16

LEMMA CommandHandled ==
    ASSUME NEW s \in Module, Dated(s), NEW w \in Wiimotes, NEW g \in Host,
           NEW h \in Host, On(s, g, w), Apart(s.wm[w]),
           NEW cmd \in FromHost, Taken(g, h, cmd)
    PROVE  Handled(s, Command(s, w, cmd), h, w)
<1>1. cmd.type \in {"refusal", "hid", "connect_rsp", "config_rsp", "config_req",
                    "discon_req"}
  BY DEF FromHost
<1>. QED BY <1>1, RefusalHandled, OutputHandled, AnswerHandled, CompleteHandled,
            ConfigureHandled, CloseHandled

-----------------------------------------------------------------------------
(* The actions.                                                             *)

LEMMA ClosingFinite ==
    ASSUME NEW g \in Host
    PROVE  IsFiniteSet(g.closing) /\ Cardinality(g.closing) \in Nat
<1>1. IsFiniteSet(HostCids) /\ g.closing \subseteq HostCids
  BY LinkAssumption DEF Host
<1>. QED BY <1>1, FS_Subset, FS_CardinalityType

LEMMA NoHostFits ==
    /\ NoHost \in Host /\ NoHost.con = 0 /\ NoHost.outbox = <<>>
    /\ Cardinality(NoHost.closing) = 0 /\ \A psm \in Psm : ~NoHost.end[psm].open
<1>1. NoEnd \in End /\ ~NoEnd.open
  BY DEF NoEnd, End, NullCid
<1>2. /\ NoHost.con = 0 /\ NoHost.outbox = <<>> /\ NoHost.closing = {}
      /\ \A psm \in Psm : ~NoHost.end[psm].open
  BY <1>1 DEF NoHost
<1>3. NoHost \in Host
  BY <1>1 DEF NoHost, Host
<1>. QED BY <1>2, <1>3, FS_EmptySet

\* The module runs, and Wiimotes that disconnect are forgotten by the host.
LEMMA LearnsInv ==
    ASSUME LinkInv, NEW t \in Module, Dated(t), Becomes(t),
           NEW hs \in [Wiimotes -> Host], HostLearns(hs),
           budget' \in Budget, budget'.close = budget.close,
           \A v \in Wiimotes : hs[v].closing = host[v].closing,
           \A v \in Wiimotes : t.wm[v].up => On(t, hs[v], v)
    PROVE  LinkInv'
<1>1. Now' = t /\ wm' = t.wm
  BY BecomesIs DEF Becomes
<1>2. \A v \in Wiimotes : host'[v] = IF wm'[v].up THEN hs[v] ELSE NoHost
  BY DEF HostLearns
<1>3. host' \in [Wiimotes -> Host]
  BY NoHostFits DEF HostLearns
<1>4. Spare'
  <2>1. \A v \in Wiimotes :
           /\ Cardinality(HostCids) \in Nat
           /\ Cardinality(host[v].closing) \in Nat /\ budget.close \in Nat
           /\ Cardinality(HostCids) >= 2 + Cardinality(host[v].closing) + budget.close
    BY ClosingFinite, LinkAssumption, FS_CardinalityType DEF LinkInv, Spare, Budget
  <2>2. \A v \in Wiimotes : \/ host'[v].closing = host[v].closing
                            \/ Cardinality(host'[v].closing) = 0
    BY <1>2, NoHostFits
  <2>. QED BY <2>1, <2>2 DEF Spare
<1>5. \A v \in Wiimotes : IF wm'[v].up THEN On(Now', host'[v], v) ELSE host'[v] = NoHost
  BY <1>1, <1>2
<1>. QED BY <1>1, <1>3, <1>4, <1>5 DEF LinkInv

LEMMA GivenOutbox ==
    ASSUME NEW g \in Host, NEW q \in Seq(FromHost)
    PROVE  LET h == [g EXCEPT !.outbox = q]
           IN  /\ h \in Host /\ h.outbox = q
               /\ h.con = g.con /\ h.end = g.end /\ h.closing = g.closing
               /\ h.ready = g.ready
BY DEF Host

\* A packet of one or two commands.
LEMMA PacketSteps ==
    ASSUME NEW w, NEW cmds, NEW n \in 1..2, Len(cmds) = n
    PROVE  LET Step(s, k) == IF s.hung # "no" THEN s ELSE Command(s, w, cmds[k])
           IN  Packet(w, cmds) = IF n = 1 THEN Step(Now, 1) ELSE Step(Step(Now, 1), 2)
<1> DEFINE Step(s, k) == IF s.hung # "no" THEN s ELSE Command(s, w, cmds[k])
           Up(s, k) == Only({IF t.hung # "no" THEN t ELSE Command(t, w, cmds[k]) : t \in {s}})
           After(f) == f = [k \in 0..Len(cmds) |-> IF k = 0 THEN Now ELSE Up(f[k - 1], k)]
           g == [k \in 0..n |-> IF k = 0 THEN Now
                                ELSE IF k = 1 THEN Up(Now, 1) ELSE Up(Up(Now, 1), 2)]
<1>1. ASSUME NEW s, NEW k
      PROVE  Up(s, k) = Step(s, k)
  <2>1. {IF t.hung # "no" THEN t ELSE Command(t, w, cmds[k]) : t \in {s}} = {Step(s, k)}
    OBVIOUS
  <2>. QED BY <2>1, OnlyOne
<1>2. \E f : After(f)
  <2> HIDE DEF Up
  <2>1. ASSUME NEW k \in 0..n
        PROVE  g[k] = IF k = 0 THEN Now ELSE Up(g[k - 1], k)
    <3>1. k = 0 \/ (k = 1 /\ 0 \in 0..n) \/ (k = 2 /\ 1 \in 0..n)
      OBVIOUS
    <3>. QED BY <3>1
  <2>2. g = [k \in 0..n |-> g[k]]
    OBVIOUS
  <2> HIDE DEF g
  <2>3. g = [k \in 0..n |-> IF k = 0 THEN Now ELSE Up(g[k - 1], k)]
    BY <2>1, <2>2
  <2>. QED BY <2>3
<1> DEFINE f == CHOOSE f : After(f)
<1>3. After(f)
  BY <1>2, Zenon
<1>4. Packet(w, cmds) = f[Len(cmds)]
  BY Zenon DEF Packet
<1> HIDE DEF f, g
<1>5. f = [k \in 0..n |-> IF k = 0 THEN Now ELSE Up(f[k - 1], k)]
  BY <1>3
<1> HIDE DEF Up
<1>6. f[0] = Now /\ f[1] = Up(Now, 1) /\ (n = 2 => f[2] = Up(f[1], 2))
  BY <1>5
<1> HIDE DEF Step
<1>7. Packet(w, cmds) = IF n = 1 THEN Step(Now, 1) ELSE Step(Step(Now, 1), 2)
  BY <1>1, <1>4, <1>6
<1>. QED BY <1>7 DEF Step

LEMMA HostSendInv ==
    ASSUME LinkInv, CidsApart, hung = "no", NEW w \in Wiimotes, NEW n \in 1..2,
           HostSend(w, n)
    PROVE  LinkInv'
<1> DEFINE q == host[w].outbox
           k == Len(q)
           g == host[w]
           g1 == [g EXCEPT !.outbox = SubSeq(q, 2, k)]
           g2 == [g EXCEPT !.outbox = SubSeq(q, 3, k)]
           t1 == Command(Now, w, q[1])
           t2 == Command(t1, w, q[2])
           t == IF n = 1 THEN t1 ELSE t2
           h == IF n = 1 THEN g1 ELSE g2
           hs == [host EXCEPT ![w] = h]
<1>1. /\ Now \in Module /\ Dated(Now) /\ Now.hung = "no" /\ Now.wm = wm
      /\ host \in [Wiimotes -> Host] /\ budget \in Budget
      /\ \A v \in Wiimotes : IF wm[v].up THEN On(Now, host[v], v) ELSE host[v] = NoHost
  BY DEF LinkInv, Now
<1>2. g \in Host /\ q \in Seq(FromHost) /\ k \in Nat /\ n <= k /\ 1 \in 1..k
  BY <1>1 DEF Host, HostSend
<1>3. wm[w].up /\ On(Now, g, w) /\ Apart(wm[w])
  BY <1>1, <1>2, NoHostFits DEF CidsApart, Apart
<1>4. g1 \in Host /\ Taken(g, g1, q[1]) /\ q[1] \in FromHost
  <2>1. /\ SubSeq(q, 1 + 1, k) \in Seq(FromHost)
        /\ Shrunk(SubSeq(q, 1, k), SubSeq(q, 1 + 1, k), q[1])
    BY <1>2, RestShrinks
  <2>2. SubSeq(q, 1, k) = q /\ 1 + 1 = 2
    BY <1>2, SubSeqFull
  <2>3. SubSeq(q, 2, k) \in Seq(FromHost) /\ Shrunk(q, SubSeq(q, 2, k), q[1])
    BY <2>1, <2>2
  <2>4. /\ g1 \in Host /\ g1.outbox = SubSeq(q, 2, k)
        /\ g1.con = g.con /\ g1.end = g.end /\ g1.closing = g.closing /\ g1.ready = g.ready
    BY <1>2, <2>3, GivenOutbox
  <2>5. q[1] \in FromHost
    BY <1>2
  <2> HIDE DEF g1
  <2>. QED BY <2>3, <2>4, <2>5 DEF Taken
<1>5. n = 2 => g2 \in Host /\ Taken(g1, g2, q[2]) /\ q[2] \in FromHost
  <2>1. ASSUME n = 2
        PROVE  /\ SubSeq(q, 2 + 1, k) \in Seq(FromHost)
               /\ Shrunk(SubSeq(q, 2, k), SubSeq(q, 2 + 1, k), q[2])
    <3>1. 2 \in 1..k
      BY <1>2, <2>1
    <3>. QED BY <1>2, <3>1, RestShrinks
  <2>2. n = 2 => /\ SubSeq(q, 3, k) \in Seq(FromHost)
                 /\ Shrunk(SubSeq(q, 2, k), SubSeq(q, 3, k), q[2])
    BY <2>1
  <2>3. ASSUME n = 2
        PROVE  g2 \in Host /\ Taken(g1, g2, q[2]) /\ q[2] \in FromHost
    <3>1. /\ g2 \in Host /\ g2.outbox = SubSeq(q, 3, k)
          /\ g2.con = g.con /\ g2.end = g.end /\ g2.closing = g.closing
          /\ g2.ready = g.ready
      BY <1>2, <2>2, <2>3, GivenOutbox
    <3>2. /\ g1.outbox = SubSeq(q, 2, k)
          /\ g1.con = g.con /\ g1.end = g.end /\ g1.closing = g.closing
          /\ g1.ready = g.ready
      BY <1>2 DEF Host
    <3>3. 2 \in 1..k
      BY <1>2, <2>3
    <3>4. q[2] \in FromHost
      BY <1>2, <3>3
    <3> HIDE DEF g1, g2
    <3>. QED BY <2>2, <2>3, <3>1, <3>2, <3>4 DEF Taken
  <2>. QED BY <2>3
<1> HIDE DEF g1, g2
<1>6. Handled(Now, t1, g1, w)
  BY <1>1, <1>2, <1>3, <1>4, CommandHandled
<1> HIDE DEF t1
<1>7. n = 2 => Handled(t1, t2, g2, w)
  <2>1. t1 \in Module /\ Dated(t1) /\ On(t1, g1, w) /\ Apart(t1.wm[w])
    BY <1>6 DEF Handled, Keeps
  <2>. QED BY <1>4, <1>5, <2>1, CommandHandled
<1> HIDE DEF t2
<1>8. h \in Host /\ h.closing = g.closing /\ h = [g EXCEPT !.outbox = SubSeq(q, n + 1, k)]
  <2>1. (n = 1 /\ n + 1 = 2) \/ (n = 2 /\ n + 1 = 3)
    OBVIOUS
  <2>. QED BY <1>2, <1>4, <1>5, <2>1 DEF g1, g2, Host
<1>9. Keeps(Now, t, w) /\ On(t, h, w)
  BY <1>6, <1>7, KeepsTransitive DEF Handled
<1>10. Packet(w, SubSeq(q, 1, n)) = t
  <2> DEFINE cmds == SubSeq(q, 1, n)
  <2>1. n \in Nat /\ \A i \in 1..n : q[i] \in FromHost
    BY <1>2
  <2>2. /\ Len(cmds) = IF 1 <= n THEN n - 1 + 1 ELSE 0
        /\ \A i \in 1..n - 1 + 1 : cmds[i] = q[1 + i - 1]
    BY <2>1, SubSeqProperties
  <2>3. Len(cmds) = n /\ cmds[1] = q[1] /\ (n = 2 => cmds[2] = q[2])
    BY <2>1, <2>2
  <2> HIDE DEF cmds
  <2>4. t1.hung = "no"
    BY <1>1, <1>6 DEF Handled
  <2>5. Packet(w, cmds) = IF n = 1 THEN t1 ELSE t2
    <3> DEFINE Step(s, i) == IF s.hung # "no" THEN s ELSE Command(s, w, cmds[i])
    <3>1. Packet(w, cmds) = IF n = 1 THEN Step(Now, 1) ELSE Step(Step(Now, 1), 2)
      BY <2>3, PacketSteps
    <3>2. Step(Now, 1) = t1
      BY <1>1, <2>3 DEF t1
    <3>3. n = 2 => Step(t1, 2) = t2
      BY <2>3, <2>4 DEF t2
    <3> HIDE DEF Step
    <3>. QED BY <3>1, <3>2, <3>3
  <2>. QED BY <2>5 DEF cmds
<1> HIDE DEF t, h
<1>11. hs \in [Wiimotes -> Host] /\ hs[w] = h /\ \A v \in Wiimotes : v # w => hs[v] = host[v]
  BY <1>1, <1>8
<1>12. Becomes(t) /\ HostLearns(hs) /\ budget' = budget
  BY <1>8, <1>10 DEF HostSend
<1>13. ASSUME NEW v \in Wiimotes, t.wm[v].up
       PROVE  On(t, hs[v], v)
  <2>1. CASE v = w
    BY <1>9, <1>11, <2>1
  <2>2. CASE v # w
    <3>1. t.wm[v] = wm[v]
      BY <1>1, <1>9, <2>2 DEF Keeps
    <3>2. On(Now, host[v], v)
      BY <1>1, <1>13, <3>1
    <3>. QED BY <1>9, <1>11, <2>2, <3>2, OthersFit
  <2>. QED BY <2>1, <2>2
<1>14. t \in Module /\ Dated(t) /\ \A v \in Wiimotes : hs[v].closing = host[v].closing
  BY <1>8, <1>9, <1>11 DEF Keeps
<1>. QED BY <1>1, <1>11, <1>12, <1>13, <1>14, LearnsInv

LEMMA DropInv ==
    ASSUME LinkInv, NEW w \in Wiimotes, Drop(w)
    PROVE  LinkInv'
<1> DEFINE t == Disconnected(Now, w)
           x == wm[w]
           y == [x EXCEPT !.up = FALSE]
<1>1. /\ Now \in Module /\ Dated(Now) /\ Now.wm = wm
      /\ host \in [Wiimotes -> Host] /\ budget \in Budget
      /\ \A v \in Wiimotes : IF wm[v].up THEN On(Now, host[v], v) ELSE host[v] = NoHost
  BY DEF LinkInv, Now
<1>2. wm \in [Wiimotes -> Wiimote] /\ x \in Wiimote
  BY <1>1 DEF Module
<1>3. y \in Wiimote /\ y.con = x.con /\ ~y.up
  BY <1>2 DEF Wiimote
<1>4. t = [Now EXCEPT !.wm = [wm EXCEPT ![w] = y]]
  BY <1>1 DEF Disconnected
<1> HIDE DEF t, y
<1>5. /\ t \in Module /\ t.wm = [Now.wm EXCEPT ![w] = y] /\ t.pipe = Now.pipe
      /\ t.lost = Now.lost /\ t.wm[w] = y
  BY <1>1, <1>2, <1>3, <1>4 DEF Module
<1>6. Keeps(Now, t, w)
  BY <1>1, <1>3, <1>5, ChangeKeeps
<1>7. Becomes(t) /\ HostLearns(host)
  BY DEF Drop, t
<1>8. budget' \in Budget /\ budget'.close = budget.close
  BY <1>1 DEF Drop, Spend, Budget
<1>9. ASSUME NEW v \in Wiimotes, t.wm[v].up
      PROVE  On(t, host[v], v)
  <2>1. v # w
    BY <1>3, <1>5, <1>9
  <2>2. t.wm[v] = wm[v]
    BY <1>1, <1>6, <2>1 DEF Keeps
  <2>. QED BY <1>1, <1>6, <1>9, <2>1, <2>2, OthersFit
<1>. QED BY <1>1, <1>5, <1>6, <1>7, <1>8, <1>9, LearnsInv DEF Keeps

LEMMA ConnectInv ==
    ASSUME LinkInv, NEW w \in Wiimotes, Connect(w)
    PROVE  LinkInv'
<1> DEFINE x == wm[w]
           y == Fresh(x)
           t == [Now EXCEPT !.wm = [wm EXCEPT ![w] = y]]
           con == x.con + 1
           h == [NoHost EXCEPT !.con = con]
           m == Mail(t.pipe, w, con)
<1>1. /\ Now \in Module /\ Dated(Now) /\ Now.wm = wm
      /\ host \in [Wiimotes -> Host] /\ budget \in Budget /\ Spare
      /\ \A v \in Wiimotes : IF wm[v].up THEN On(Now, host[v], v) ELSE host[v] = NoHost
  BY DEF LinkInv, Now
<1>2. wm \in [Wiimotes -> Wiimote] /\ x \in Wiimote /\ x.con \in Nat /\ con \in Nat
  BY <1>1 DEF Module, Wiimote
<1>3. /\ y \in Wiimote /\ y.con = con /\ y.up /\ y.linking
      /\ \A psm \in Psm : ~y.chn[psm].valid
  <2>1. x.chn \in [Psm -> Channel]
    BY <1>2 DEF Wiimote
  <2>2. \A psm \in Psm : /\ [x.chn[psm] EXCEPT !.valid = FALSE] \in Channel
                         /\ ~[x.chn[psm] EXCEPT !.valid = FALSE].valid
    <3>1. \A psm \in Psm : x.chn[psm] \in Channel
      BY <2>1
    <3>. QED BY <3>1 DEF Channel
  <2>. QED BY <1>2, <2>1, <2>2 DEF Fresh, Wiimote
<1> HIDE DEF y
<1>4. /\ t \in Module /\ t.wm = [wm EXCEPT ![w] = y] /\ t.pipe = Now.pipe
      /\ t.lost = Now.lost /\ t.wm[w] = y
  BY <1>1, <1>2, <1>3 DEF Module
<1>5. Becomes(t) /\ host' = [host EXCEPT ![w] = h]
  BY <1>1 DEF Connect, y
<1> HIDE DEF t
<1>6. Now' = t /\ wm' = t.wm
  BY <1>4, <1>5, BecomesIs DEF Becomes
<1>7. \A i \in DOMAIN t.pipe : t.pipe[i].wm \in Wiimotes /\ t.pipe[i].con \in 1..wm[t.pipe[i].wm].con
  <2>1. t.pipe \in Seq(Packets)
    BY <1>4 DEF Module
  <2>2. \A i \in DOMAIN t.pipe : t.pipe[i] \in Packets
    BY <2>1
  <2>. QED BY <1>1, <1>4, <2>2 DEF Dated, Packets
<1>8. Dated(t)
  <2>1. \A v \in Wiimotes : wm[v].con \in Nat /\ t.wm[v].con \in Nat /\ wm[v].con <= t.wm[v].con
    BY <1>2, <1>3, <1>4 DEF Wiimote
  <2>. QED BY <1>7, <2>1 DEF Dated
<1>9. DOMAIN m = {}
  BY <1>2, <1>7 DEF Mail
<1>10. On(t, h, w)
  <2>1. h.con = con
    BY DEF NoHost
  <2> HIDE DEF m
  <2>2. Pair(y, h, m) /\ Heard(y, h, m) /\ Timely(y, h, m)
    BY <1>3, <1>9, FreshPair
  <2> HIDE DEF h, con
  <2>3. y.con > 0
    BY <1>2, <1>3 DEF con
  <2>. QED BY <1>4, <2>1, <2>2, <2>3 DEF On, m
<1>11. h \in Host /\ h.closing = NoHost.closing
  BY <1>2, NoHostFits DEF Host
<1> HIDE DEF h
<1>12. host' \in [Wiimotes -> Host] /\ host'[w] = h /\ \A v \in Wiimotes : v # w => host'[v] = host[v]
  BY <1>1, <1>5, <1>11
<1>13. ASSUME NEW v \in Wiimotes, v # w
       PROVE  IF wm'[v].up THEN On(Now', host'[v], v) ELSE host'[v] = NoHost
  <2>1. wm'[v] = wm[v]
    BY <1>2, <1>4, <1>6, <1>13
  <2>2. On(Now, host[v], v) => On(t, host[v], v)
    BY <1>1, <1>4, <1>6, <2>1 DEF On
  <2>. QED BY <1>1, <1>6, <1>12, <1>13, <2>1, <2>2
<1>14. budget' \in Budget /\ budget'.close = budget.close
  <2>1. /\ budget.connect \in [1..NumWiimotes -> Nat] /\ w \in 1..NumWiimotes
        /\ budget.connect[w] > 0 /\ budget' = [budget EXCEPT !.connect[w] = @ - 1]
    BY <1>1 DEF Connect, Budget, Wiimotes
  <2>2. [budget.connect EXCEPT ![w] = @ - 1] \in [1..NumWiimotes -> Nat]
    <3>1. budget.connect[w] \in Nat
      BY <2>1
    <3>2. budget.connect[w] - 1 \in Nat
      BY <2>1, <3>1
    <3>. QED BY <2>1, <3>2
  <2>3. budget' = [budget EXCEPT !.connect = [budget.connect EXCEPT ![w] = @ - 1]]
    BY <2>1
  <2>. QED BY <1>1, <2>2, <2>3 DEF Budget
<1>15. Spare'
  <2>1. budget.close \in Nat /\ Cardinality(HostCids) \in Nat
    BY <1>1, LinkAssumption, FS_CardinalityType DEF Budget
  <2>2. \A v \in Wiimotes : Cardinality(host[v].closing) \in Nat
    BY <1>1, ClosingFinite
  <2>3. \A v \in Wiimotes : \/ host'[v].closing = host[v].closing
                            \/ Cardinality(host'[v].closing) = 0
    BY <1>11, <1>12, NoHostFits
  <2>4. \A v \in Wiimotes :
           Cardinality(HostCids) >= 2 + Cardinality(host[v].closing) + budget.close
    BY <1>1 DEF Spare
  <2>. QED BY <1>14, <2>1, <2>2, <2>3, <2>4 DEF Spare
<1>. QED BY <1>3, <1>4, <1>6, <1>8, <1>10, <1>12, <1>13, <1>14, <1>15 DEF LinkInv

\* The host of a connected Wiimote changes, and the module does not.
LEMMA HostChanges ==
    ASSUME LinkInv, NEW w \in Wiimotes, wm[w].up, NEW h \in Host,
           host' = [host EXCEPT ![w] = h], UNCHANGED <<wm, nextCid, pipe, lost, hung>>,
           On(Now, h, w), budget' \in Budget, budget'.close <= budget.close,
           Cardinality(h.closing) + budget'.close
              <= Cardinality(host[w].closing) + budget.close
    PROVE  LinkInv'
<1>1. /\ Now \in Module /\ Dated(Now)
      /\ host \in [Wiimotes -> Host] /\ budget \in Budget /\ Spare
      /\ \A v \in Wiimotes : IF wm[v].up THEN On(Now, host[v], v) ELSE host[v] = NoHost
  BY DEF LinkInv
<1>2. Now' = Now
  BY DEF Now
<1>3. host' \in [Wiimotes -> Host] /\ host'[w] = h /\ \A v \in Wiimotes : v # w => host'[v] = host[v]
  BY <1>1
<1>4. Spare'
  <2>1. /\ budget.close \in Nat /\ budget'.close \in Nat /\ Cardinality(HostCids) \in Nat
        /\ Cardinality(h.closing) \in Nat
    BY <1>1, LinkAssumption, FS_CardinalityType, ClosingFinite DEF Budget
  <2>2. \A v \in Wiimotes : Cardinality(host[v].closing) \in Nat
    BY <1>1, ClosingFinite
  <2>3. \A v \in Wiimotes : Cardinality(host'[v].closing) + budget'.close
                              <= Cardinality(host[v].closing) + budget.close
    BY <1>3, <2>1, <2>2
  <2>4. \A v \in Wiimotes : Cardinality(host'[v].closing) \in Nat
    BY <1>3, ClosingFinite
  <2>. QED BY <1>1, <2>1, <2>2, <2>3, <2>4 DEF Spare
<1>5. ASSUME NEW v \in Wiimotes
      PROVE  IF wm'[v].up THEN On(Now', host'[v], v) ELSE host'[v] = NoHost
  BY <1>1, <1>2, <1>3
<1>. QED BY <1>1, <1>2, <1>3, <1>4, <1>5 DEF LinkInv

LEMMA HostCloseInv ==
    ASSUME LinkInv, CidsApart, NEW w \in Wiimotes, NEW psm \in Psm, HostClose(w, psm)
    PROVE  LinkInv'
<1> DEFINE g == host[w]
           e == g.end[psm]
           cmd == DisconReq(e.remote, e.local)
           h == [g EXCEPT !.end = [g.end EXCEPT ![psm] = NoEnd],
                          !.closing = g.closing \cup {e.local},
                          !.ready = g.ready \cup {psm},
                          !.outbox = Append(g.outbox, cmd)]
           m == Mail(pipe, w, g.con)
           x == wm[w]
<1>1. /\ Now \in Module /\ Now.wm = wm /\ Now.pipe = pipe /\ Now.lost = lost
      /\ host \in [Wiimotes -> Host] /\ budget \in Budget
      /\ \A v \in Wiimotes : IF wm[v].up THEN On(Now, host[v], v) ELSE host[v] = NoHost
  BY DEF LinkInv, Now
<1>2. /\ g \in Host /\ e \in End /\ e.open /\ g.outbox \in Seq(FromHost)
      /\ e.local \in Nat /\ e.remote \in Nat
  BY <1>1 DEF Host, HostClose, End
<1>3. x.up /\ On(Now, g, w) /\ Apart(x) /\ x \in Wiimote
  BY <1>1, <1>2, NoHostFits DEF CidsApart, Apart, Module
<1>4. Pair(x, g, m) /\ (~lost => Heard(x, g, m) /\ Timely(x, g, m)) /\ x.con > 0
  BY <1>1, <1>3 DEF On
<1>5. e.local \in HostCids \ g.closing
  BY <1>2, <1>4 DEF Pair, HostIds
<1>6. cmd \in FromHost /\ cmd.type = "discon_req" /\ cmd.cid = e.remote
  BY <1>2 DEF DisconReq, FromHost
<1> HIDE DEF cmd, m, x
<1>7. Append(g.outbox, cmd) \in Seq(FromHost) /\ Grown(g.outbox, Append(g.outbox, cmd), cmd)
  BY <1>2, <1>6, AppendGrows
<1>8. NoEnd \in End /\ ~NoEnd.open
  BY DEF NoEnd, End, NullCid
<1>9. /\ h \in Host /\ h.con = g.con /\ h.closing = g.closing \cup {e.local}
      /\ h.ready = g.ready \cup {psm} /\ h.outbox = Append(g.outbox, cmd)
      /\ h.end = [g.end EXCEPT ![psm] = NoEnd]
  BY <1>2, <1>5, <1>7, <1>8 DEF Host
<1>10. h.end[psm] = NoEnd /\ \A p \in Psm : p # psm => h.end[p] = g.end[p]
  BY <1>2, <1>9 DEF Host
<1>11. host' = [host EXCEPT ![w] = h] /\ budget' = [budget EXCEPT !.close = @ - 1]
       /\ budget.close > 0 /\ UNCHANGED <<wm, nextCid, pipe, lost, hung>>
  BY <1>1 DEF HostClose, Spend, cmd
<1> HIDE DEF h
<1>12. Pair(x, h, m)
  <2>1. Grown(g.outbox, h.outbox, DisconReq(g.end[psm].remote, g.end[psm].local))
    BY <1>7, <1>9 DEF cmd
  <2>2. /\ g.end[psm].open /\ h.con = g.con
        /\ h.closing = g.closing \cup {g.end[psm].local} /\ ~h.end[psm].open
    BY <1>2, <1>8, <1>9, <1>10
  <2> HIDE DEF e
  <2>. QED BY <1>2, <1>3, <1>4, <1>9, <1>10, <2>1, <2>2, HostCloses
<1>13. \A k \in DOMAIN h.outbox :
          \/ h.outbox[k].type = "discon_req" /\ h.outbox[k].cid = g.end[psm].remote
          \/ k \in DOMAIN g.outbox /\ h.outbox[k] = g.outbox[k]
  BY <1>6, <1>7, <1>9 DEF Grown
<1>14. ~lost => Heard(x, h, m) /\ Timely(x, h, m)
  BY <1>2, <1>3, <1>4, <1>8, <1>9, <1>10, <1>13, FitCloses
<1>15. On(Now, h, w)
  BY <1>1, <1>4, <1>9, <1>12, <1>14 DEF On, m, x
<1>16. /\ budget' \in Budget /\ budget'.close = budget.close - 1 /\ budget.close \in Nat
  BY <1>1, <1>11 DEF Budget
<1>17. Cardinality(h.closing) = Cardinality(g.closing) + 1 /\ Cardinality(g.closing) \in Nat
  <2>1. IsFiniteSet(g.closing) /\ Cardinality(g.closing) \in Nat /\ e.local \notin g.closing
    BY <1>2, <1>5, ClosingFinite
  <2>2. Cardinality(g.closing \cup {e.local}) = Cardinality(g.closing) + 1
    BY <2>1, FS_AddElement
  <2>. QED BY <1>9, <2>1, <2>2
<1>18. /\ budget'.close <= budget.close
       /\ Cardinality(h.closing) + budget'.close <= Cardinality(host[w].closing) + budget.close
  BY <1>16, <1>17
<1>19. wm[w].up
  BY <1>3 DEF x
<1> HIDE DEF g
<1>. QED BY <1>9, <1>11, <1>15, <1>16, <1>18, <1>19, HostChanges

LEMMA HostOutputInv ==
    ASSUME LinkInv, CidsApart, NEW w \in Wiimotes, HostOutput(w)
    PROVE  LinkInv'
<1> DEFINE g == host[w]
           e == g.end["intr"]
           cmd == Hid(e.remote)
           h == [g EXCEPT !.outbox = Append(g.outbox, cmd)]
           m == Mail(pipe, w, g.con)
           x == wm[w]
<1>1. /\ Now \in Module /\ Now.wm = wm /\ Now.pipe = pipe /\ Now.lost = lost
      /\ host \in [Wiimotes -> Host] /\ budget \in Budget
      /\ \A v \in Wiimotes : IF wm[v].up THEN On(Now, host[v], v) ELSE host[v] = NoHost
  BY DEF LinkInv, Now
<1>2. /\ g \in Host /\ e \in End /\ Ready(e) /\ e.open /\ g.outbox \in Seq(FromHost)
      /\ e.remote \in Nat /\ "intr" \in Psm
  BY <1>1 DEF Host, HostOutput, End, Psm, Ready
<1>3. x.up /\ On(Now, g, w) /\ Apart(x) /\ x \in Wiimote
  BY <1>1, <1>2, NoHostFits DEF CidsApart, Apart, Module
<1>4. Pair(x, g, m) /\ (~lost => Heard(x, g, m) /\ Timely(x, g, m)) /\ x.con > 0
  BY <1>1, <1>3 DEF On
<1>5. cmd \in FromHost /\ cmd.type = "hid" /\ cmd.cid = e.remote
  BY <1>2 DEF Hid, FromHost
<1> HIDE DEF cmd, m, x
<1>6. Append(g.outbox, cmd) \in Seq(FromHost) /\ Grown(g.outbox, Append(g.outbox, cmd), cmd)
  BY <1>2, <1>5, AppendGrows
<1>7. /\ h \in Host /\ h.con = g.con /\ h.closing = g.closing /\ h.end = g.end
      /\ h.ready = g.ready /\ h.outbox = Append(g.outbox, cmd)
  BY <1>2, <1>6, GivenOutbox
<1>8. host' = [host EXCEPT ![w] = h] /\ budget' = [budget EXCEPT !.output = @ - 1]
      /\ budget.output > 0 /\ UNCHANGED <<wm, nextCid, pipe, lost, hung>>
  BY <1>1 DEF HostOutput, Spend, cmd
<1> HIDE DEF h
<1>9. Pair(x, h, m)
  BY <1>2, <1>3, <1>4, <1>5, <1>6, <1>7, HostSays
<1>10. \A k \in DOMAIN h.outbox :
          \/ h.outbox[k].type = "hid" /\ Ready(g.end["intr"])
          \/ k \in DOMAIN g.outbox /\ h.outbox[k] = g.outbox[k]
  BY <1>2, <1>5, <1>6, <1>7 DEF Grown
<1>11. ~lost => Heard(x, h, m) /\ Timely(x, h, m)
  BY <1>2, <1>4, <1>7, <1>10, FitSays
<1>12. On(Now, h, w)
  BY <1>1, <1>4, <1>7, <1>9, <1>11 DEF On, m, x
<1>13. /\ budget' \in Budget /\ budget'.close = budget.close /\ budget.close \in Nat
  BY <1>1, <1>8 DEF Budget
<1>14. Cardinality(g.closing) \in Nat
  BY <1>2, ClosingFinite
<1>15. /\ budget'.close <= budget.close
       /\ Cardinality(h.closing) + budget'.close <= Cardinality(host[w].closing) + budget.close
  BY <1>7, <1>13, <1>14
<1>16. wm[w].up
  BY <1>3 DEF x
<1> HIDE DEF g
<1>. QED BY <1>7, <1>8, <1>12, <1>13, <1>15, <1>16, HostChanges

-----------------------------------------------------------------------------
(* The host reads a packet.                                                 *)

\* Packet cmd is the next of the connection: m before it is read, n after.
Reading(x, g, m, n, l, cmd) ==
    /\ x \in Wiimote /\ g \in Host /\ cmd \in ToHost
    /\ Apart(x) /\ Pair(x, g, m) /\ (~l => Heard(x, g, m) /\ Timely(x, g, m))
    /\ Less(m, n) /\ 1 \in DOMAIN m /\ m[1] = cmd

Reads(x, g, h, n, l) ==
    /\ h \in Host /\ h.con = g.con /\ h.closing \subseteq g.closing
    /\ Pair(x, h, n) /\ (~l => Heard(x, h, n) /\ Timely(x, h, n))

\* Host g has something to say, and becomes h; or accepts a channel.
Saying(g, h, cmd) == h = [g EXCEPT !.outbox = Append(g.outbox, cmd)]

NewEnd(r, cid) == [NoEnd EXCEPT !.open = TRUE, !.local = r, !.remote = cid]

Accepting(g, h, psm, r, cid) ==
    h = [g EXCEPT !.end = [g.end EXCEPT ![psm] = NewEnd(r, cid)],
                  !.outbox = Append(g.outbox, ConnectRsp(r, cid))]

LEMMA ReadNothing ==
    ASSUME NEW x, NEW g, NEW m, NEW n, NEW l, NEW cmd, Reading(x, g, m, n, l, cmd),
           \A psm \in Psm : ~(g.end[psm].open /\ Confirms(cmd, g.end[psm].local))
    PROVE  Reads(x, g, g, n, l)
<1>1. Pair(x, g, n)
  BY PacketRead DEF Reading
<1>2. \A psm \in Psm : 1 \notin Confirming(g, m, psm)
  BY DEF Reading, Confirming
<1>3. ~l => Heard(x, g, n) /\ Timely(x, g, n)
  BY <1>2, FitRead DEF Reading
<1>. QED BY <1>1, <1>3 DEF Reading, Reads

\* The host has more to say, about an open channel.
LEMMA SaysMore ==
    ASSUME NEW x, NEW g, NEW h, NEW n, NEW l, NEW cmd \in FromHost,
           x \in Wiimote, g \in Host, Apart(x), Reads(x, g, g, n, l),
           Saying(g, h, cmd),
           \/ cmd.type = "refusal"
           \/ /\ cmd.type \in {"config_req", "config_rsp"}
              /\ \E psm \in Psm : /\ g.end[psm].open /\ cmd.cid = g.end[psm].remote
                                  /\ cmd.type = "config_rsp" => g.end[psm].answered
    PROVE  Reads(x, g, h, n, l)
<1>1. g.outbox \in Seq(FromHost)
  BY DEF Host
<1>2. Append(g.outbox, cmd) \in Seq(FromHost) /\ Grown(g.outbox, Append(g.outbox, cmd), cmd)
  BY <1>1, AppendGrows
<1>3. /\ h \in Host /\ h.con = g.con /\ h.closing = g.closing /\ h.end = g.end
      /\ h.ready = g.ready /\ h.outbox = Append(g.outbox, cmd)
  BY <1>2, GivenOutbox DEF Saying
<1>4. Pair(x, g, n) /\ (~l => Heard(x, g, n) /\ Timely(x, g, n))
  BY DEF Reads
<1>5. Pair(x, h, n)
  BY <1>2, <1>3, <1>4, HostSays
<1>6. \A k \in DOMAIN h.outbox :
         \/ h.outbox[k].type \notin {"discon_req", "hid"}
         \/ k \in DOMAIN g.outbox /\ h.outbox[k] = g.outbox[k]
  BY <1>2, <1>3 DEF Grown
<1>7. ~l => Heard(x, h, n) /\ Timely(x, h, n)
  BY <1>3, <1>4, <1>6, FitSays
<1>. QED BY <1>3, <1>5, <1>7 DEF Reads

LEMMA ReadRefused ==
    ASSUME NEW x, NEW g, NEW m, NEW n, NEW l, NEW cmd, Reading(x, g, m, n, l, cmd),
           cmd.type = "connect_req",
           NEW h, Saying(g, h, Refusal)
    PROVE  Reads(x, g, h, n, l)
<1>1. Reads(x, g, g, n, l)
  BY ReadNothing DEF Confirms
<1>2. Refusal \in FromHost /\ Refusal.type = "refusal"
  BY DEF Refusal, FromHost
<1>. QED BY <1>1, <1>2, SaysMore DEF Reading

LEMMA ReadRequest ==
    ASSUME NEW x, NEW g, NEW m, NEW n, NEW l, NEW cmd, Reading(x, g, m, n, l, cmd),
           NEW psm \in Psm, Asks(cmd, psm), NEW r \in FreeHostCids(g),
           NEW h, Accepting(g, h, psm, r, cmd.cid)
    PROVE  Reads(x, g, h, n, l) /\ h.end[psm] = NewEnd(r, cmd.cid)
<1> DEFINE e == NewEnd(r, cmd.cid)
<1>1. /\ x \in Wiimote /\ g \in Host /\ Apart(x) /\ Pair(x, g, m)
      /\ (~l => Heard(x, g, m) /\ Timely(x, g, m))
      /\ Less(m, n) /\ 1 \in DOMAIN m /\ m[1] = cmd /\ cmd.cid \in Nat
  BY DEF Reading, ToHost
<1>2. /\ IsNew(x.chn[psm]) /\ x.chn[psm].local = cmd.cid /\ ~g.end[psm].open
      /\ \A k \in DOMAIN g.outbox : ~Names(g.outbox[k], cmd.cid)
      /\ \A i \in DOMAIN n : ~Asks(n[i], psm)
  BY <1>1, RequestRead
<1>3. /\ r \in HostCids /\ r \in Nat /\ r # NullCid /\ r \notin g.closing
      /\ \A p \in Psm : ~(g.end[p].open /\ g.end[p].local = r)
  BY LinkAssumption DEF FreeHostCids, EndsAt, NullCid
<1>4. /\ e \in End /\ e.open /\ e.local = r /\ e.remote = cmd.cid
      /\ ~e.answered /\ ~e.confirmed
  BY <1>1, <1>3 DEF NewEnd, NoEnd, End
<1> HIDE DEF e
<1>5. /\ ConnectRsp(r, cmd.cid) \in FromHost
      /\ ConnectRsp(r, cmd.cid).type = "connect_rsp"
  BY <1>1, <1>3 DEF ConnectRsp, FromHost
<1>6. g.outbox \in Seq(FromHost) /\ g.end \in [Psm -> End]
  BY <1>1 DEF Host
<1>7. /\ Append(g.outbox, ConnectRsp(r, cmd.cid)) \in Seq(FromHost)
      /\ Grown(g.outbox, Append(g.outbox, ConnectRsp(r, cmd.cid)), ConnectRsp(r, cmd.cid))
  BY <1>5, <1>6, AppendGrows
<1>8. /\ h \in Host /\ h.con = g.con /\ h.closing = g.closing /\ h.ready = g.ready
      /\ h.outbox = Append(g.outbox, ConnectRsp(r, cmd.cid))
      /\ h.end = [g.end EXCEPT ![psm] = e]
  BY <1>1, <1>4, <1>6, <1>7 DEF Host, Accepting, e
<1>9. h.end[psm] = e /\ \A p \in Psm : p # psm => h.end[p] = g.end[p]
  BY <1>6, <1>8
<1>10. Pair(x, g, n)
  BY <1>1, PacketRead
<1> DEFINE cid == cmd.cid
<1> HIDE DEF cid
<1>11. /\ h.end[psm].open /\ h.end[psm].local = r /\ h.end[psm].remote = cid
       /\ ~h.end[psm].answered /\ ~h.end[psm].confirmed
  BY <1>4, <1>9 DEF cid
<1>12. /\ cid \in Nat /\ IsNew(x.chn[psm]) /\ x.chn[psm].local = cid /\ ~g.end[psm].open
       /\ \A k \in DOMAIN g.outbox : ~Names(g.outbox[k], cid)
       /\ \A i \in DOMAIN n : ~Asks(n[i], psm)
       /\ r \notin g.closing /\ r # NullCid
       /\ \A p \in Psm : ~(g.end[p].open /\ g.end[p].local = r)
       /\ Grown(g.outbox, h.outbox, ConnectRsp(r, cid))
       /\ Asks(m[1], psm)
  BY <1>1, <1>2, <1>3, <1>7, <1>8 DEF cid
<1>13. Pair(x, h, n)
  <2>1. r \in HostCids /\ h \in Host /\ h.con = g.con /\ h.closing = g.closing
    BY <1>3, <1>8
  <2>2. \A p \in Psm : p # psm => h.end[p] = g.end[p]
    BY <1>9
  <2>3. x \in Wiimote /\ g \in Host /\ Apart(x)
    BY <1>1
  <2>. QED BY <1>10, <1>11, <1>12, <2>1, <2>2, <2>3, HostAccepts
<1>14. \A k \in DOMAIN h.outbox :
          \/ h.outbox[k].type \notin {"discon_req", "hid"}
          \/ k \in DOMAIN g.outbox /\ h.outbox[k] = g.outbox[k]
  BY <1>5, <1>7, <1>8 DEF Grown
<1>15. ~l => Heard(x, h, n) /\ Timely(x, h, n)
  <2>1. (~l => Heard(x, g, m) /\ Timely(x, g, m)) /\ Less(m, n) /\ 1 \in DOMAIN m
    BY <1>1
  <2>2. h.ready = g.ready /\ \A p \in Psm : p # psm => h.end[p] = g.end[p]
    BY <1>8, <1>9
  <2>. QED BY <1>14, <1>11, <1>12, <2>1, <2>2, FitAccepts
<1>. QED BY <1>8, <1>9, <1>13, <1>15 DEF Reads, e

LEMMA ReadAccepted ==
    ASSUME NEW x, NEW g, NEW m, NEW n, NEW l, NEW cmd, Reading(x, g, m, n, l, cmd),
           cmd.type = "connect_req", FreeHostCids(g) # {}
    PROVE  Reads(x, g, HostReads(g, cmd, FALSE), n, l)
<1> DEFINE r == Min(FreeHostCids(g))
           e == NewEnd(r, cmd.cid)
           psm == cmd.psm
           h == [g EXCEPT !.end = [g.end EXCEPT ![psm] = e],
                          !.outbox = Append(g.outbox, ConnectRsp(r, cmd.cid))]
           hh == [h EXCEPT !.outbox = Append(h.outbox, ConfigReq(cmd.cid))]
<1>1. r \in FreeHostCids(g)
  BY MinIn, LinkAssumption DEF FreeHostCids
<1> HIDE DEF r
<1>2. /\ psm \in Psm /\ Asks(cmd, psm) /\ cmd.cid \in Nat /\ g \in Host
      /\ x \in Wiimote /\ Apart(x)
  BY DEF Reading, ToHost, Asks
<1>3. e.open /\ e.remote = cmd.cid
  BY DEF NoEnd, NewEnd
<1> HIDE DEF e, psm, h
<1>4. Reads(x, g, h, n, l) /\ h.end[psm] = e
  <2>1. Accepting(g, h, psm, r, cmd.cid)
    BY DEF Accepting, h, e
  <2>. QED BY <1>1, <1>2, <2>1, ReadRequest DEF e
<1> USE DEF psm, h
<1>5. hh = HostReads(g, cmd, FALSE)
  <2>1. HostReads(g, cmd, FALSE) =
           [g EXCEPT !.end[psm] = e,
                     !.outbox = g.outbox \o <<ConnectRsp(r, cmd.cid), ConfigReq(cmd.cid)>>]
    BY DEF HostReads, r, e, NewEnd
  <2>2. g.outbox \in Seq(FromHost)
    BY <1>2 DEF Host
  <2>3. \A a, b : Append(Append(g.outbox, a), b) = g.outbox \o <<a, b>>
    BY <2>2
  <2>4. h.outbox = Append(g.outbox, ConnectRsp(r, cmd.cid))
    BY <1>2 DEF Host
  <2>5. hh.outbox = g.outbox \o <<ConnectRsp(r, cmd.cid), ConfigReq(cmd.cid)>>
    BY <1>2, <2>3, <2>4 DEF Host
  <2>. QED BY <1>2, <2>1, <2>3, <2>4 DEF Host
<1> HIDE DEF h
<1>6. Reads(x, h, h, n, l) /\ h \in Host
  BY <1>4 DEF Reads
<1>7. /\ ConfigReq(cmd.cid) \in FromHost /\ ConfigReq(cmd.cid).type = "config_req"
      /\ ConfigReq(cmd.cid).cid = cmd.cid
  BY <1>2 DEF ConfigReq, FromHost
<1>8. Reads(x, h, hh, n, l)
  <2>1. Saying(h, hh, ConfigReq(cmd.cid))
    BY DEF Saying
  <2> HIDE DEF hh, e, psm
  <2>. QED BY <1>2, <1>3, <1>4, <1>6, <1>7, <2>1, SaysMore
<1> HIDE DEF hh
<1>. QED BY <1>4, <1>5, <1>8 DEF Reads

\* The host has configured its direction of a channel, or is told that the
\* other one is.
Configuring(g, h, psm) ==
    h = [g EXCEPT !.end = [g.end EXCEPT ![psm] = [g.end[psm] EXCEPT !.answered = TRUE]],
                  !.ready = IF g.end[psm].confirmed THEN g.ready \cup {psm} ELSE g.ready]

Confirmed(g, h, psm) ==
    h = [g EXCEPT !.end = [g.end EXCEPT ![psm] = [g.end[psm] EXCEPT !.confirmed = TRUE]],
                  !.ready = IF g.end[psm].answered THEN g.ready \cup {psm} ELSE g.ready]

\* What both do to the end of the channel.
EndFields(g, h, psm) ==
    /\ h \in Host /\ h.outbox = g.outbox /\ h.con = g.con /\ h.closing = g.closing
    /\ h.end[psm].open = g.end[psm].open /\ h.end[psm].local = g.end[psm].local
    /\ h.end[psm].remote = g.end[psm].remote
    /\ \A p \in Psm : p # psm => h.end[p] = g.end[p]

LEMMA ConfiguringIs ==
    ASSUME NEW g \in Host, NEW psm \in Psm, NEW h, Configuring(g, h, psm)
    PROVE  /\ EndFields(g, h, psm) /\ h.end[psm].answered
           /\ h.end[psm].confirmed = g.end[psm].confirmed
           /\ h.ready = IF g.end[psm].confirmed THEN g.ready \cup {psm} ELSE g.ready
<1> DEFINE d == [g.end[psm] EXCEPT !.answered = TRUE]
<1>1. g.end \in [Psm -> End] /\ g.end[psm] \in End
  BY DEF Host
<1>2. /\ d \in End /\ d.open = g.end[psm].open /\ d.local = g.end[psm].local
      /\ d.remote = g.end[psm].remote /\ d.confirmed = g.end[psm].confirmed /\ d.answered
  BY <1>1 DEF End
<1>3. h = [g EXCEPT !.end = [g.end EXCEPT ![psm] = d],
                    !.ready = IF g.end[psm].confirmed THEN g.ready \cup {psm} ELSE g.ready]
  BY DEF Configuring
<1> HIDE DEF d
<1>4. /\ h \in Host /\ h.outbox = g.outbox /\ h.con = g.con /\ h.closing = g.closing
      /\ h.end = [g.end EXCEPT ![psm] = d]
      /\ h.ready = IF g.end[psm].confirmed THEN g.ready \cup {psm} ELSE g.ready
  BY <1>1, <1>2, <1>3 DEF Host
<1>5. h.end[psm] = d /\ \A p \in Psm : p # psm => h.end[p] = g.end[p]
  BY <1>1, <1>4
<1>. QED BY <1>2, <1>4, <1>5 DEF EndFields

LEMMA ConfirmedIs ==
    ASSUME NEW g \in Host, NEW psm \in Psm, NEW h, Confirmed(g, h, psm)
    PROVE  /\ EndFields(g, h, psm) /\ h.end[psm].confirmed
           /\ h.end[psm].answered = g.end[psm].answered
           /\ h.ready = IF g.end[psm].answered THEN g.ready \cup {psm} ELSE g.ready
<1> DEFINE d == [g.end[psm] EXCEPT !.confirmed = TRUE]
<1>1. g.end \in [Psm -> End] /\ g.end[psm] \in End
  BY DEF Host
<1>2. /\ d \in End /\ d.open = g.end[psm].open /\ d.local = g.end[psm].local
      /\ d.remote = g.end[psm].remote /\ d.answered = g.end[psm].answered /\ d.confirmed
  BY <1>1 DEF End
<1>3. h = [g EXCEPT !.end = [g.end EXCEPT ![psm] = d],
                    !.ready = IF g.end[psm].answered THEN g.ready \cup {psm} ELSE g.ready]
  BY DEF Confirmed
<1> HIDE DEF d
<1>4. /\ h \in Host /\ h.outbox = g.outbox /\ h.con = g.con /\ h.closing = g.closing
      /\ h.end = [g.end EXCEPT ![psm] = d]
      /\ h.ready = IF g.end[psm].answered THEN g.ready \cup {psm} ELSE g.ready
  BY <1>1, <1>2, <1>3 DEF Host
<1>5. h.end[psm] = d /\ \A p \in Psm : p # psm => h.end[p] = g.end[p]
  BY <1>1, <1>4
<1>. QED BY <1>2, <1>4, <1>5 DEF EndFields

LEMMA ReadConfigReq ==
    ASSUME NEW x, NEW g, NEW m, NEW n, NEW l, NEW cmd, Reading(x, g, m, n, l, cmd),
           cmd.type = "config_req",
           NEW psm \in Psm, g.end[psm].open,
           NEW h, Configuring(g, h, psm),
           NEW hh, Saying(h, hh, ConfigRsp(g.end[psm].remote))
    PROVE  Reads(x, g, hh, n, l)
<1>1. Reads(x, g, g, n, l)
  BY ReadNothing DEF Confirms
<1>2. /\ x \in Wiimote /\ g \in Host /\ Apart(x) /\ Pair(x, g, n)
      /\ (~l => Heard(x, g, n) /\ Timely(x, g, n))
  BY <1>1 DEF Reading, Reads
<1>3. /\ EndFields(g, h, psm) /\ h.end[psm].answered
      /\ h.end[psm].confirmed = g.end[psm].confirmed
      /\ h.ready = IF g.end[psm].confirmed THEN g.ready \cup {psm} ELSE g.ready
  BY <1>2, ConfiguringIs
<1>4. /\ h \in Host /\ h.outbox = g.outbox /\ h.con = g.con /\ h.closing = g.closing
      /\ h.end[psm].open /\ h.end[psm].local = g.end[psm].local
      /\ h.end[psm].remote = g.end[psm].remote
      /\ \A p \in Psm : p # psm => h.end[p] = g.end[p]
  BY <1>3 DEF EndFields
<1>5. h.end[psm].confirmed => x.chn[psm].mtu
  BY <1>2, <1>3 DEF Pair, Opened
<1>6. Pair(x, h, n)
  BY <1>2, <1>3, <1>4, <1>5, HostConfigures
<1>7. \A k \in DOMAIN h.outbox : k \in DOMAIN g.outbox /\ h.outbox[k] = g.outbox[k]
  BY <1>4
<1>8. ~l => Heard(x, h, n) /\ Timely(x, h, n)
  BY <1>2, <1>3, <1>4, <1>7, FitAnswered
<1>9. Reads(x, h, h, n, l)
  BY <1>4, <1>6, <1>8 DEF Reads
<1>10. g.end[psm].remote \in Nat
  BY <1>2 DEF Host, End
<1>11. /\ ConfigRsp(g.end[psm].remote) \in FromHost
       /\ ConfigRsp(g.end[psm].remote).type = "config_rsp"
       /\ ConfigRsp(g.end[psm].remote).cid = h.end[psm].remote
  BY <1>4, <1>10 DEF ConfigRsp, FromHost
<1>12. Reads(x, h, hh, n, l)
  BY <1>2, <1>3, <1>4, <1>9, <1>11, SaysMore
<1>. QED BY <1>4, <1>12 DEF Reads

LEMMA ReadConfigRsp ==
    ASSUME NEW x, NEW g, NEW m, NEW n, NEW l, NEW cmd, Reading(x, g, m, n, l, cmd),
           NEW psm \in Psm, g.end[psm].open, Confirms(cmd, g.end[psm].local),
           NEW h, Confirmed(g, h, psm)
    PROVE  Reads(x, g, h, n, l)
<1>1. /\ x \in Wiimote /\ g \in Host /\ Apart(x) /\ Pair(x, g, m)
      /\ (~l => Heard(x, g, m) /\ Timely(x, g, m))
      /\ Less(m, n) /\ 1 \in DOMAIN m /\ m[1] = cmd
  BY DEF Reading
<1>2. /\ EndFields(g, h, psm) /\ h.end[psm].confirmed
      /\ h.end[psm].answered = g.end[psm].answered
      /\ h.ready = IF g.end[psm].answered THEN g.ready \cup {psm} ELSE g.ready
  BY <1>1, ConfirmedIs
<1>3. /\ h \in Host /\ h.outbox = g.outbox /\ h.con = g.con /\ h.closing = g.closing
      /\ h.end[psm].open /\ h.end[psm].local = g.end[psm].local
      /\ h.end[psm].remote = g.end[psm].remote
      /\ \A p \in Psm : p # psm => h.end[p] = g.end[p]
  BY <1>2 DEF EndFields
<1>4. x.chn[psm].mtu
  <2>1. m[1].cid = g.end[psm].local /\ m[1].type = "config_rsp" /\ Configures(m[1])
    BY <1>1 DEF Confirms, Configures
  <2>2. g.end[psm].local \notin g.closing
    BY <1>1 DEF Pair, HostIds
  <2>3. PICK p \in Psm : g.end[p].open /\ g.end[p].local = m[1].cid /\ x.chn[p].mtu
    BY <1>1, <2>1, <2>2 DEF Pair, PacketIds
  <2>4. p = psm
    BY <1>1, <2>1, <2>3 DEF Pair, HostIds
  <2>. QED BY <2>3, <2>4
<1>5. Pair(x, g, n)
  BY <1>1, PacketRead
<1>6. Pair(x, h, n)
  BY <1>1, <1>2, <1>3, <1>4, <1>5, HostConfigures
<1>7. ~l => Heard(x, h, n) /\ Timely(x, h, n)
  BY <1>1, <1>2, <1>3, FitConfirmRead
<1>. QED BY <1>3, <1>6, <1>7 DEF Reads

LEMMA ReadDisconRsp ==
    ASSUME NEW x, NEW g, NEW m, NEW n, NEW l, NEW cmd, Reading(x, g, m, n, l, cmd),
           cmd.type = "discon_rsp",
           NEW r, r = cmd.cid
    PROVE  Reads(x, g, [g EXCEPT !.closing = g.closing \ {r}], n, l)
<1> DEFINE h == [g EXCEPT !.closing = g.closing \ {r}]
<1>1. Reads(x, g, g, n, l)
  BY ReadNothing DEF Confirms
<1>2. /\ x \in Wiimote /\ g \in Host /\ Apart(x) /\ Pair(x, g, n)
      /\ (~l => Heard(x, g, n) /\ Timely(x, g, n))
      /\ Pair(x, g, m) /\ Less(m, n) /\ 1 \in DOMAIN m /\ m[1] = cmd
  BY <1>1 DEF Reading, Reads
<1>3. /\ h \in Host /\ h.con = g.con /\ h.end = g.end /\ h.ready = g.ready
      /\ h.outbox = g.outbox /\ h.closing = g.closing \ {r}
  BY <1>2 DEF Host
<1> HIDE DEF h
<1>4. /\ \A i \in DOMAIN n : ~(Configures(n[i]) /\ n[i].cid = r)
      /\ \A i \in DOMAIN n : ~Closed(n[i], r)
      /\ \A k \in DOMAIN g.outbox :
            g.outbox[k].type = "discon_req" => g.outbox[k].scid # r
  BY <1>2, ResponseRead
<1>5. Pair(x, h, n)
  BY <1>2, <1>3, <1>4, HostForgets
<1>6. \A k \in DOMAIN h.outbox : k \in DOMAIN g.outbox /\ h.outbox[k] = g.outbox[k]
  BY <1>3
<1>7. ~l => Heard(x, h, n) /\ Timely(x, h, n)
  BY <1>2, <1>3, <1>6, FitSays
<1>8. Reads(x, g, h, n, l)
  BY <1>3, <1>5, <1>7 DEF Reads
<1>. QED BY <1>8 DEF h

LEMMA ReadFits ==
    ASSUME NEW x, NEW g, NEW m, NEW n, NEW l, NEW cmd, Reading(x, g, m, n, l, cmd),
           NEW refuses \in BOOLEAN, cmd.type = "connect_req" => FreeHostCids(g) # {}
    PROVE  Reads(x, g, HostReads(g, cmd, refuses), n, l)
<1> DEFINE at == EndsAt(g, cmd.cid)
           psm == CHOOSE p \in at : TRUE
           hr == HostReads(g, cmd, refuses)
<1>1. g \in Host /\ cmd \in ToHost
  BY DEF Reading
<1>2. cmd.type \in {"connect_req", "config_req", "config_rsp", "discon_rsp", "hid"}
  BY <1>1 DEF ToHost
<1>3. at # {} => /\ psm \in Psm /\ g.end[psm].open /\ g.end[psm].local = cmd.cid
  BY DEF EndsAt
<1>4. CASE cmd.type = "connect_req" /\ refuses
  <2>1. Saying(g, hr, Refusal)
    BY <1>4 DEF HostReads, Saying
  <2>. QED BY <1>4, <2>1, ReadRefused
<1>5. CASE cmd.type = "connect_req" /\ ~refuses
  <2>1. refuses = FALSE
    BY <1>5
  <2>. QED BY <1>5, <2>1, ReadAccepted
<1>6. CASE cmd.type = "config_req" /\ at # {}
  <2> DEFINE d == [g.end[psm] EXCEPT !.answered = TRUE]
             q == IF g.end[psm].confirmed THEN g.ready \cup {psm} ELSE g.ready
             h == [g EXCEPT !.end = [g.end EXCEPT ![psm] = d], !.ready = q]
             a == ConfigRsp(g.end[psm].remote)
  <2>1. Configuring(g, h, psm)
    BY DEF Configuring
  <2>2. hr = [g EXCEPT !.end[psm].answered = TRUE, !.outbox = Append(g.outbox, a),
                       !.ready = q]
    BY <1>6 DEF HostReads
  <2>3. hr = [g EXCEPT !.end = [g.end EXCEPT ![psm] = d],
                       !.outbox = Append(g.outbox, a), !.ready = q]
    <3> HIDE DEF psm, a, q, hr
    <3>. QED BY <2>2
  <2> HIDE DEF psm, d, q, hr, a
  <2>4. hr = [h EXCEPT !.outbox = Append(h.outbox, a)]
    <3>1. h.outbox = g.outbox
      BY <1>1 DEF Host
    <3>. QED BY <1>1, <2>3, <3>1 DEF Host
  <2> HIDE DEF h
  <2>5. Saying(h, hr, ConfigRsp(g.end[psm].remote))
    BY <2>4 DEF Saying, a
  <2>6. Reads(x, g, hr, n, l)
    BY <1>3, <1>6, <2>1, <2>5, ReadConfigReq
  <2>. QED BY <2>6 DEF hr
<1>7. CASE cmd.type = "config_rsp" /\ at # {}
  <2>1. Confirmed(g, hr, psm)
    <3> DEFINE q == IF g.end[psm].answered THEN g.ready \cup {psm} ELSE g.ready
    <3>1. hr = [g EXCEPT !.end[psm].confirmed = TRUE, !.ready = q]
      BY <1>7 DEF HostReads
    <3> HIDE DEF psm, hr
    <3>. QED BY <3>1 DEF Confirmed
  <2>2. Confirms(cmd, g.end[psm].local)
    BY <1>3, <1>7 DEF Confirms
  <2> HIDE DEF psm, hr
  <2>3. Reads(x, g, hr, n, l)
    BY <1>3, <1>7, <2>1, <2>2, ReadConfigRsp
  <2>. QED BY <2>3 DEF hr
<1>8. CASE cmd.type = "discon_rsp"
  <2>1. hr = [g EXCEPT !.closing = g.closing \ {cmd.cid}]
    BY <1>8 DEF HostReads
  <2>. QED BY <1>8, <2>1, ReadDisconRsp
<1>9. CASE cmd.type = "hid" \/ (cmd.type \in {"config_req", "config_rsp"} /\ at = {})
  <2>1. hr = g
    BY <1>9 DEF HostReads
  <2>2. \A p \in Psm : ~(g.end[p].open /\ Confirms(cmd, g.end[p].local))
    BY <1>9 DEF Confirms, EndsAt
  <2>. QED BY <2>1, <2>2, ReadNothing
<1> HIDE DEF hr, at
<1>. QED BY <1>2, <1>4, <1>5, <1>6, <1>7, <1>8, <1>9 DEF hr

LEMMA SpareCid ==
    ASSUME NEW g \in Host, NEW psm \in Psm, ~g.end[psm].open, NEW c \in Nat,
           Cardinality(HostCids) >= 2 + Cardinality(g.closing) + c
    PROVE  FreeHostCids(g) # {}
<1> SUFFICES ASSUME FreeHostCids(g) = {}
             PROVE  FALSE
  OBVIOUS
<1> DEFINE o == CHOOSE p \in Psm : p # psm
           S == g.closing \cup {g.end[o].local}
<1>1. \A p \in Psm : p = psm \/ p = o
  BY DEF Psm
<1>2. IsFiniteSet(g.closing) /\ Cardinality(g.closing) \in Nat
  BY ClosingFinite
<1>3. HostCids \subseteq S
  BY <1>1 DEF FreeHostCids, EndsAt
<1>4. IsFiniteSet(S) /\ (Cardinality(S) = Cardinality(g.closing)
                           \/ Cardinality(S) = Cardinality(g.closing) + 1)
  BY <1>2, FS_AddElement
<1>5. Cardinality(HostCids) <= Cardinality(S)
  BY <1>3, <1>4, FS_Subset
<1>6. Cardinality(HostCids) \in Nat
  BY LinkAssumption, FS_CardinalityType
<1> HIDE DEF S
<1>. QED BY <1>2, <1>4, <1>5, <1>6

LEMMA UnreadFits ==
    ASSUME NEW x, NEW g, NEW m, NEW n, NEW l, Pair(x, g, m),
           ~l => Heard(x, g, m) /\ Timely(x, g, m), Less(m, n), 1 \notin DOMAIN m
    PROVE  Pair(x, g, n) /\ (~l => Heard(x, g, n) /\ Timely(x, g, n))
<1>1. \A psm \in Psm : 1 \notin Confirming(g, m, psm)
  BY DEF Confirming
<1>. QED BY <1>1, PacketRead, FitRead

LEMMA HostReadInv ==
    ASSUME LinkInv, CidsApart, NEW refuses \in BOOLEAN, HostRead(refuses)
    PROVE  LinkInv'
<1> DEFINE p == Head(pipe)
           v == p.wm
           g == host[v]
           hr == HostReads(g, p.cmd, refuses)
           M(u) == Mail(pipe, u, host[u].con)
           N(u) == Mail(Tail(pipe), u, host[u].con)
           read == g.con = p.con
<1>1. /\ Now \in Module /\ Now.wm = wm /\ Now.pipe = pipe /\ Now.lost = lost
      /\ host \in [Wiimotes -> Host] /\ budget \in Budget /\ Dated(Now) /\ Spare
      /\ \A u \in Wiimotes : IF wm[u].up THEN On(Now, host[u], u) ELSE host[u] = NoHost
  BY DEF LinkInv, Now
<1>2. /\ pipe # <<>> /\ pipe' = Tail(pipe) /\ wm' = wm /\ nextCid' = nextCid
      /\ lost' = lost /\ hung' = hung
      /\ host' = IF g.con # p.con THEN host ELSE [host EXCEPT ![v] = hr]
      /\ IF refuses THEN Spend("refuse") ELSE budget' = budget
  BY DEF HostRead
<1>3. pipe \in Seq(Packets) /\ wm \in [Wiimotes -> Wiimote]
  BY <1>1 DEF Module
<1>4. Tail(pipe) \in Seq(Packets) /\ p \in Packets /\ Shrunk(pipe, Tail(pipe), p)
  BY <1>2, <1>3, TailShrinks
<1>5. v \in Wiimotes /\ p.cmd \in ToHost /\ g \in Host
  BY <1>1, <1>4 DEF Packets
<1> HIDE DEF hr
<1>6. p.con # 0
  <2>1. 1 \in DOMAIN pipe /\ pipe[1] = p
    BY <1>4 DEF Shrunk
  <2>2. p.con \in 1..wm[v].con
    BY <1>1, <2>1 DEF Dated
  <2>. QED BY <2>2
<1>7. \A u \in Wiimotes : /\ Less(M(u), N(u))
                          /\ 1 \in DOMAIN M(u) <=> v = u /\ p.con = host[u].con
                          /\ v = u /\ p.con = host[u].con => M(u)[1] = p.cmd
  <2> SUFFICES ASSUME NEW u \in Wiimotes
               PROVE  /\ Less(M(u), N(u))
                      /\ 1 \in DOMAIN M(u) <=> v = u /\ p.con = host[u].con
                      /\ v = u /\ p.con = host[u].con => M(u)[1] = p.cmd
    OBVIOUS
  <2> DEFINE con == host[u].con
             q == Tail(pipe)
  <2>1. Shrunk(pipe, q, p)
    BY <1>4
  <2> HIDE DEF con, q, p
  <2>2. /\ Less(Mail(pipe, u, con), Mail(q, u, con))
        /\ 1 \in DOMAIN Mail(pipe, u, con) <=> v = u /\ p.con = con
        /\ v = u /\ p.con = con => Mail(pipe, u, con)[1] = p.cmd
    BY <2>1, MailRead
  <2>. QED BY <2>2 DEF con, q
<1> HIDE DEF p, M, N
<1>8. \A u \in Wiimotes : wm[u].up =>
         /\ Pair(wm[u], host[u], M(u)) /\ wm[u].con > 0
         /\ ~lost => Heard(wm[u], host[u], M(u)) /\ Timely(wm[u], host[u], M(u))
         /\ Apart(wm[u]) /\ wm[u] \in Wiimote
  BY <1>1, <1>3 DEF On, CidsApart, Apart, M
<1>9. ASSUME NEW u \in Wiimotes, wm[u].up, u # v \/ ~read
      PROVE  /\ Pair(wm[u], host[u], N(u))
             /\ ~lost => Heard(wm[u], host[u], N(u)) /\ Timely(wm[u], host[u], N(u))
  <2>1. 1 \notin DOMAIN M(u) /\ Less(M(u), N(u))
    BY <1>7, <1>9
  <2>. QED BY <1>8, <1>9, <2>1, UnreadFits
<1>10. read => wm[v].up
  BY <1>1, <1>5, <1>6, NoHostFits
<1>11. read => Reads(wm[v], g, hr, N(v), lost)
  <2> SUFFICES ASSUME read
               PROVE  Reads(wm[v], g, hr, N(v), lost)
    OBVIOUS
  <2>1. Reading(wm[v], g, M(v), N(v), lost, p.cmd)
    BY <1>5, <1>7, <1>8, <1>10 DEF Reading
  <2>2. ASSUME p.cmd.type = "connect_req"
        PROVE  FreeHostCids(g) # {}
    <3>1. PICK psm \in Psm : Asks(p.cmd, psm)
      BY <1>5, <2>2 DEF ToHost, Asks
    <3>2. Pair(wm[v], g, M(v)) /\ 1 \in DOMAIN M(v) /\ Asks(M(v)[1], psm)
      BY <1>5, <1>7, <1>8, <1>10, <3>1
    <3>3. ~g.end[psm].open
      BY <3>2 DEF Pair, Asked
    <3>4. /\ budget.close \in Nat
          /\ Cardinality(HostCids) >= 2 + Cardinality(g.closing) + budget.close
      BY <1>1, <1>5 DEF Spare, Budget
    <3>. QED BY <1>5, <3>3, <3>4, SpareCid
  <2>. QED BY <2>1, <2>2, ReadFits DEF hr
<1>12. /\ host' \in [Wiimotes -> Host]
       /\ \A u \in Wiimotes : u # v \/ ~read => host'[u] = host[u]
       /\ read => host'[v] = hr
  BY <1>1, <1>2, <1>5, <1>11 DEF Reads
<1>13. /\ Now' \in Module /\ Now'.wm = wm /\ Now'.pipe = Tail(pipe) /\ Now'.lost = lost
  BY <1>1, <1>2, <1>4 DEF Now, Module
<1>14. Dated(Now')
  BY <1>1, <1>4, <1>13 DEF Dated, Shrunk
<1>15. ASSUME NEW u \in Wiimotes
       PROVE  IF wm'[u].up THEN On(Now', host'[u], u) ELSE host'[u] = NoHost
  <2>1. CASE u # v \/ ~read
    BY <1>1, <1>2, <1>8, <1>9, <1>12, <1>13, <2>1 DEF On, N
  <2>2. CASE u = v /\ read
    BY <1>2, <1>8, <1>10, <1>11, <1>12, <1>13, <2>2 DEF On, N, Reads
  <2>. QED BY <2>1, <2>2
<1>16. budget' \in Budget /\ budget'.close = budget.close
  <2>1. CASE ~refuses
    BY <1>1, <1>2, <2>1
  <2>2. CASE refuses
    <3>1. budget.refuse > 0 /\ budget' = [budget EXCEPT !.refuse = @ - 1]
      BY <1>2, <2>2 DEF Spend
    <3>2. budget.refuse \in Nat
      BY <1>1 DEF Budget
    <3>3. budget.refuse - 1 \in Nat
      BY <3>1, <3>2
    <3>. QED BY <1>1, <3>1, <3>3 DEF Budget
  <2>. QED BY <2>1, <2>2
<1>17. Spare'
  <2>1. \A u \in Wiimotes : host'[u].closing \subseteq host[u].closing
    BY <1>11, <1>12 DEF Reads
  <2>2. \A u \in Wiimotes :
           /\ IsFiniteSet(host[u].closing) /\ Cardinality(host[u].closing) \in Nat
           /\ Cardinality(host'[u].closing) \in Nat
    BY <1>1, <1>12, ClosingFinite
  <2>3. \A u \in Wiimotes : Cardinality(host'[u].closing) <= Cardinality(host[u].closing)
    BY <2>1, <2>2, FS_Subset
  <2>4. budget.close \in Nat /\ Cardinality(HostCids) \in Nat
    BY <1>1, LinkAssumption, FS_CardinalityType DEF Budget
  <2>5. \A u \in Wiimotes :
           Cardinality(HostCids) >= 2 + Cardinality(host[u].closing) + budget.close
    BY <1>1 DEF Spare
  <2>. QED BY <1>16, <2>2, <2>3, <2>4, <2>5 DEF Spare
<1>. QED BY <1>12, <1>13, <1>14, <1>15, <1>16, <1>17 DEF LinkInv

-----------------------------------------------------------------------------
(* The invariant, and what follows from it.                                 *)

LEMMA InitInv == Init => LinkInv
<1> SUFFICES ASSUME Init
             PROVE  LinkInv
  OBVIOUS
<1>1. Idle \in Wiimote /\ ~Idle.up
  <2>1. NoChannel \in Channel
    BY DEF NoChannel, Channel, States, NullCid
  <2>. QED BY <2>1 DEF Idle, Wiimote
<1>2. budget \in Budget /\ Cardinality(HostCids) >= 2 + budget.close
  BY LinkAssumption DEF Init, Budget
<1>3. Now \in Module
  <2>1. FirstCid \in Nat /\ <<>> \in Seq(Packets)
    BY LinkAssumption
  <2>2. wm \in [Wiimotes -> Wiimote] /\ nextCid = FirstCid /\ pipe = <<>>
        /\ lost = FALSE /\ hung = "no"
    BY <1>1 DEF Init
  <2>. QED BY <2>1, <2>2 DEF Now, Module
<1>4. Dated(Now)
  BY DEF Init, Now, Dated
<1>5. host \in [Wiimotes -> Host] /\ \A w \in Wiimotes : host[w] = NoHost
  BY NoHostFits DEF Init
<1>6. Spare
  <2>1. Cardinality(HostCids) \in Nat /\ budget.close \in Nat
    BY <1>2, LinkAssumption, FS_CardinalityType DEF Budget
  <2>. QED BY <1>2, <1>5, <2>1, NoHostFits DEF Spare
<1>7. \A w \in Wiimotes : ~wm[w].up
  BY <1>1 DEF Init
<1>. QED BY <1>2, <1>3, <1>4, <1>5, <1>6, <1>7 DEF LinkInv

LEMMA NextInv == LinkInv /\ CidsApart /\ CidsApart' /\ [Next]_vars => LinkInv'
<1> SUFFICES ASSUME LinkInv, CidsApart, CidsApart', [Next]_vars
             PROVE  LinkInv'
  OBVIOUS
<1>1. CASE UNCHANGED vars
  BY <1>1 DEF vars, LinkInv, Spare, Now
<1>2. ASSUME NEW w \in Wiimotes, Connect(w)
      PROVE  LinkInv'
  BY <1>2, ConnectInv
<1>3. ASSUME NEW w \in Wiimotes, Drop(w)
      PROVE  LinkInv'
  BY <1>3, DropInv
<1>4. ASSUME NEW w \in Wiimotes, HostOutput(w)
      PROVE  LinkInv'
  BY <1>4, HostOutputInv
<1>5. ASSUME NEW reporting \in SUBSET Wiimotes, Tick(reporting)
      PROVE  LinkInv'
  BY <1>5, TickInv
<1>6. ASSUME NEW refuses \in BOOLEAN, HostRead(refuses)
      PROVE  LinkInv'
  BY <1>6, HostReadInv
<1>7. ASSUME hung = "no", NEW w \in Wiimotes, NEW n \in 1..2, HostSend(w, n)
      PROVE  LinkInv'
  BY <1>7, HostSendInv
<1>8. ASSUME NEW w \in Wiimotes, NEW psm \in Psm, HostClose(w, psm)
      PROVE  LinkInv'
  BY <1>8, HostCloseInv
<1>. QED BY <1>1, <1>2, <1>3, <1>4, <1>5, <1>6, <1>7, <1>8 DEF Next

\* The invariant of the link, as long as no Wiimote has both its channels under
\* one identifier.  Where identifiers are 2^16 and the counter does not come
\* round while a channel is open, none ever has.
THEOREM Linked == Spec /\ []CidsApart => []LinkInv
<1>1. Init => LinkInv
  BY InitInv
<1>2. LinkInv /\ CidsApart /\ CidsApart' /\ [Next]_vars => LinkInv'
  BY NextInv
<1>. QED BY <1>1, <1>2, PTL DEF Spec

LEMMA InvAgree == LinkInv => EndsAgree
<1> SUFFICES ASSUME LinkInv, NEW w \in Wiimotes, NEW psm \in Psm, host[w].end[psm].open
             PROVE  /\ wm[w].chn[psm].valid
                    /\ wm[w].chn[psm].local = host[w].end[psm].remote
                    /\ \/ wm[w].chn[psm].remote = host[w].end[psm].local
                       \/ InOutbox(w, ConnectRsp(host[w].end[psm].local,
                                                 host[w].end[psm].remote))
                    /\ wm[w].chn[psm].state = "complete" => host[w].end[psm].answered
                    /\ host[w].end[psm].confirmed => wm[w].chn[psm].mtu
  BY DEF EndsAgree
<1> DEFINE x == wm[w]
           g == host[w]
           m == Mail(pipe, w, g.con)
           c == x.chn[psm]
           e == g.end[psm]
<1>1. g \in Host /\ Pair(x, g, m)
  BY NoHostFits DEF LinkInv, On, Now
<1> HIDE DEF x, g, m
<1>2. e.open
  BY DEF g
<1>3. /\ c.valid /\ c.local = e.remote
      /\ (c.state = "complete" => e.answered) /\ (e.confirmed => c.mtu)
  BY <1>1, <1>2 DEF Pair, Opened
<1>4. c.remote = e.local \/ \E k \in DOMAIN g.outbox : g.outbox[k] = ConnectRsp(e.local, e.remote)
  <2>1. Answered(c, g, psm) \/ Bound(c, g, psm)
    BY <1>1, <1>2, <1>3 DEF Pair, Phases, Waits
  <2>2. CASE Bound(c, g, psm)
    BY <1>2, <2>2 DEF Bound, IsEnd
  <2>3. CASE Answered(c, g, psm)
    <3>1. PICK k \in DOMAIN g.outbox :
             Answers(g.outbox[k], c.local) /\ IsEnd(g, psm, c.local, g.outbox[k].dcid)
      BY <2>3 DEF Answered
    <3>2. g.outbox[k] \in FromHost
      <4>1. g.outbox \in Seq(FromHost)
        BY <1>1 DEF Host
      <4>. QED BY <4>1
    <3>3. /\ g.outbox[k].type = "connect_rsp" /\ g.outbox[k].cid = e.remote
          /\ g.outbox[k].dcid = e.local
      BY <1>2, <1>3, <3>1 DEF Answers, IsEnd
    <3>4. g.outbox[k] = ConnectRsp(e.local, e.remote)
      BY <3>2, <3>3 DEF FromHost, ConnectRsp
    <3>. QED BY <3>4
  <2>. QED BY <2>1, <2>2, <2>3
<1>. QED BY <1>3, <1>4 DEF x, g, InOutbox

LEMMA InvFit == LinkInv => HostCommandsFit
BY DEF LinkInv, Module, Now, HostCommandsFit

LEMMA InvReady == LinkInv => HidAfterReady
<1> SUFFICES ASSUME LinkInv, pipe # <<>>, ~lost,
                    host[Head(pipe).wm].con = Head(pipe).con
             PROVE  /\ Head(pipe).cmd.type = "hid" => host[Head(pipe).wm].ready = Psm
                    /\ Head(pipe).cmd.type = "connect_req" /\ Head(pipe).cmd.psm = "intr"
                         => "cntl" \in host[Head(pipe).wm].ready
  BY DEF HidAfterReady
<1> DEFINE p == Head(pipe)
           w == p.wm
           g == host[w]
           m == Mail(pipe, w, g.con)
<1>1. /\ Now \in Module /\ Now.wm = wm /\ Now.pipe = pipe /\ Now.lost = lost
      /\ Dated(Now)
      /\ \A u \in Wiimotes : IF wm[u].up THEN On(Now, host[u], u) ELSE host[u] = NoHost
  BY DEF LinkInv, Now
<1>2. /\ Tail(pipe) \in Seq(Packets) /\ p \in Packets /\ Shrunk(pipe, Tail(pipe), p)
  BY <1>1, TailShrinks DEF Module
<1>3. w \in Wiimotes /\ g \in Host
  BY <1>2 DEF Packets, LinkInv
<1>4. 1 \in DOMAIN pipe /\ pipe[1] = p
  BY <1>2 DEF Shrunk
<1>5. p.con # 0
  <2>1. p.con \in 1..wm[w].con
    BY <1>1, <1>4 DEF Dated
  <2>. QED BY <2>1
<1>6. wm[w].up
  BY <1>1, <1>3, <1>5, NoHostFits
<1>7. Timely(wm[w], g, m)
  BY <1>1, <1>3, <1>6 DEF On
<1>8. 1 \in DOMAIN m /\ m[1] = p.cmd
  BY <1>4 DEF Mail
<1> HIDE DEF m, p, g
<1>9. \A psm \in Psm : \A i \in Confirming(g, m, psm) : ~(i < 1)
  <2>1. \A i \in DOMAIN m : i \in Nat \ {0}
    <3>1. pipe \in Seq(Packets)
      BY <1>1 DEF Module
    <3>2. \A i \in DOMAIN pipe : i \in Nat \ {0}
      BY <3>1
    <3>. QED BY <3>2 DEF m, Mail
  <2>. QED BY <2>1 DEF Confirming
<1>10. \A psm \in Psm :
          p.cmd.type = "hid" \/ (psm = "cntl" /\ Asks(p.cmd, "intr")) => psm \in g.ready
  BY <1>7, <1>8, <1>9 DEF Timely, Settled
<1>11. g.ready \subseteq Psm
  BY <1>3 DEF Host
<1>12. /\ p.cmd.type = "hid" => g.ready = Psm
       /\ p.cmd.type = "connect_req" /\ p.cmd.psm = "intr" => "cntl" \in g.ready
  BY <1>10, <1>11 DEF Asks, Psm
<1>. QED BY <1>12 DEF p, g

\* Whatever was closed and opened anew, and however the commands of both sides
\* overtook each other: an open channel of the host is a channel of the Wiimote,
\* each end has the other's identifier (or the answer that brings it is still to
\* be sent), and what one side takes for configured the other does as well.
THEOREM Agree == Spec /\ []CidsApart => []EndsAgree
BY Linked, InvAgree, PTL

\* The assertions of the command handlers never fail for a host that answers what
\* it is asked: only the one on an injected connection request may.
THEOREM CommandsFit == Spec /\ []CidsApart => []HostCommandsFit
BY Linked, InvFit, PTL

\* The host reads no report before it is ready for reports, and is asked for the
\* interrupt channel after the control channel was ready, unless an answer of
\* the module was lost.
THEOREM ReadyFirst == Spec /\ []CidsApart => []HidAfterReady
BY Linked, InvReady, PTL
================================================================================
